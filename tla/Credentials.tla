---------------------------- MODULE Credentials ----------------------------
(***************************************************************************)
(* The credentials file under `cinc config create`, first-run setup and the *)
(* migration of a knife file (apps/cinc/cmd: create.go, common.go;          *)
(* cli/config/config.go, cli/setup/migrate.go).                             *)
(*                                                                         *)
(* A step is one read of the file or one system call that changes it: the   *)
(* file is truncated when it is opened, restricted, then written in one     *)
(* piece at offset 0.  Runs of cinc may overlap and may die between two     *)
(* steps.  What the user answers is chosen with the read it depends on.     *)
(***************************************************************************)
EXTENDS Profiles, Sequences, Naturals

CONSTANTS Runs,       \* invocations of cinc, each once
          Names,      \* profile names
          FileSeeds,  \* credentials files to begin with
          ChefSeeds   \* knife files to begin with

VARIABLES
    file,     \* the credentials file
    chef,     \* ~/.chef/credentials
    pc, run,  \* where a run is, and its locals
    before,   \* history: the file when the run started
    alone     \* history: no other run has changed the file since the run started

vars == <<file, chef, pc, run, before, alone>>

NoFile == [exists |-> FALSE, garbled |-> FALSE, mode |-> "0600", profiles |-> [n \in {} |-> NoProfile], ours |-> FALSE]

\* What a file is: one that is not there, or cannot be read, has no profiles.
IsFile(f) ==
    /\ DOMAIN f = DOMAIN NoFile /\ {f.exists, f.garbled, f.ours} \subseteq BOOLEAN /\ f.mode \in {"0600", "0644"}
    /\ f.garbled => f.exists
    /\ f.garbled \/ ~f.exists => f.profiles = NoFile.profiles

\* A file to begin with is none that a run of the behaviour has written.
ASSUME SeedsAssumption ==
    \A f \in FileSeeds \cup ChefSeeds : IsFile(f) /\ ~f.ours /\ IsFiniteSet(DOMAIN f.profiles)

EmptyEntry == [key \in {} |-> Unset]
EntryOf(profiles, name) == IF name \in DOMAIN profiles THEN profiles[name] ELSE EmptyEntry
Put(profiles, name, entry) == [n \in DOMAIN profiles \cup {name} |-> IF n = name THEN entry ELSE profiles[n]]
NoAnswers == [name |-> Unset, url |-> Unset, site |-> Unset, client |-> Unset, ssl |-> Unset, replace |-> FALSE]

\* Locals of a run: what it does, its answers, the profiles left to write, what the
\* file is about to hold, and whether cinc chose the name.
Idle == [kind |-> "none", answers |-> NoAnswers, todo |-> <<>>, next |-> [n \in {} |-> NoProfile], renamed |-> FALSE]
Active(r) == pc[r] \notin {"idle", "done", "failed", "declined", "crashed"}

Init ==
    /\ file \in FileSeeds
    /\ chef \in IF file.exists THEN {NoFile} ELSE ChefSeeds  \* looked at in a first run only
    /\ pc = [r \in Runs |-> "idle"]
    /\ run = [r \in Runs |-> Idle]
    /\ before = [r \in Runs |-> NoFile]
    /\ alone = [r \in Runs |-> TRUE]

Go(r, from, to) == pc[r] = from /\ pc' = [pc EXCEPT ![r] = to]
Set(r, field, value) == run' = [run EXCEPT ![r] = [@ EXCEPT ![field] = value]]
Reading == UNCHANGED <<file, chef, before, alone>>
Change(r, f) ==
    /\ file' = f
    /\ alone' = [q \in Runs |-> alone[q] /\ (q = r \/ pc[q] = "idle")]
    /\ UNCHANGED <<chef, before>>
-----------------------------------------------------------------------------
(* config create with flags, or with prompts                               *)

Begin(r) ==
    /\ before' = [before EXCEPT ![r] = file]
    /\ UNCHANGED <<file, chef, alone>>

FlagAnswers ==
    [name : {"default"} \cup Names, url : {Unset, Public} \cup ServerUrls, site : {Unset, Public},
            client : {"new"}, ssl : {Unset}, replace : {FALSE}]

\* A profile of the public Supermarket alone is called [supermarket], unless the
\* user chose the name.
IsSupermarketOnly(a) == ~IsServerUrl(a.url) /\ (a.url = Public \/ a.site = Public)
Named(a, chosen) == IF ~chosen /\ ~a.replace /\ IsSupermarketOnly(a) THEN [a EXCEPT !.name = "supermarket"] ELSE a

CreateWithFlags(r) ==
    /\ Go(r, "idle", "load") /\ Begin(r)
    /\ \E a \in FlagAnswers, chosen \in BOOLEAN :
          LET asked == IF a.url = Unset /\ a.site = Unset THEN [a EXCEPT !.site = Public] ELSE a IN
          /\ ~chosen => a.name = "default"
          /\ run' = [run EXCEPT ![r] = [Idle EXCEPT !.kind = "create", !.answers = Named(asked, chosen),
                                                   !.renamed = Named(asked, chosen) # asked]]

CreateWithPrompts(r) ==
    /\ Go(r, "idle", "menu") /\ Begin(r)
    /\ Set(r, "kind", "create")

(* promptConfigure reads the file for its menu; one it cannot read, or without *)
(* profiles, has none.  A prompt left empty takes its default.             *)
FreshDefaults == [NoAnswers EXCEPT !.site = Public]
UpdateDefaults(name) ==
    LET p == Resolve(file.profiles[name])
    IN  [NoAnswers EXCEPT !.name = name, !.url = p.server, !.site = p.site, !.client = p.client, !.ssl = p.ssl]
Filled(a, url, site, client) ==
    [a EXCEPT !.url = url, !.site = site, !.client = client, !.ssl = IF @ = Unset THEN VerifyPeer ELSE @]
Asked(a, urls) ==
    {Filled(a, u, s, c) :
        u \in {a.url} \cup urls, s \in {a.site, Public}, c \in {IF a.client = Unset THEN "new" ELSE a.client}}

HasMenu == file.exists /\ ~file.garbled /\ DOMAIN file.profiles # {}
PromptAnswers ==
    IF HasMenu
    THEN UNION ({Asked([FreshDefaults EXCEPT !.name = n], ServerUrls) : n \in Names \ DOMAIN file.profiles}
                \cup {Asked(UpdateDefaults(n), ServerUrls) : n \in DOMAIN file.profiles}
                \cup {Asked([FreshDefaults EXCEPT !.name = n, !.replace = TRUE], ServerUrls) : n \in Names})
    ELSE UNION {Asked([FreshDefaults EXCEPT !.name = n], ServerUrls) : n \in Names}

\* The name counts as chosen when it was picked from the menu or is not the default.
Menu(r) ==
    /\ \E a \in PromptAnswers :
          LET chosen == (HasMenu /\ ~a.replace) \/ a.name # "default"
              b == IF run[r].kind = "create" THEN Named(a, chosen) ELSE a
          IN  /\ run' = [run EXCEPT ![r].answers = b, ![r].renamed = b # a]
              /\ Go(r, "menu", IF b.replace THEN "clear" ELSE "load")
    /\ Reading

\* clearCredentials truncates what there is.
Clear(r) ==
    /\ Go(r, "clear", "load")
    /\ Change(r, IF file.exists THEN [file EXCEPT !.garbled = FALSE, !.profiles = NoFile.profiles, !.ours = FALSE] ELSE file)
    /\ UNCHANGED run

\* UpdateProfile: the profile on disk, with the answers.
Load(r) ==
    /\ LET a == run[r].answers
           p == Answered(Resolve(EntryOf(file.profiles, a.name)), a)
       IN  IF file.garbled \/ NewProfileFails(a.url, a.site, a.client)
           THEN Go(r, "load", "failed") /\ UNCHANGED run
           ELSE Go(r, "load", "decode") /\ Set(r, "todo", <<[name |-> a.name, profile |-> p, extra |-> EmptyEntry]>>)
    /\ Reading
-----------------------------------------------------------------------------
(* First run                                                               *)

\* The default file is missing and the user agrees to be set up: by migration if
\* there is a knife file that can be read, else by the prompts.
CanMigrate == chef.exists /\ ~chef.garbled /\ DOMAIN chef.profiles # {}
FirstRun(r) ==
    /\ ~file.exists
    /\ Go(r, "idle", IF CanMigrate THEN "migrate" ELSE "menu") /\ Begin(r)
    /\ Set(r, "kind", "first run")
FirstRunDeclined(r) ==
    /\ ~file.exists
    /\ Go(r, "idle", "declined") /\ Begin(r)
    /\ UNCHANGED run

\* MigrateChef resolves and checks every profile before it writes the first.
InOrder(names) == CHOOSE s \in [1..Cardinality(names) -> names] : {s[i] : i \in DOMAIN s} = names
Migrate(r) ==
    /\ IF \E n \in DOMAIN chef.profiles : Unmigratable(chef.profiles[n])
       THEN Go(r, "migrate", "failed") /\ Set(r, "kind", "migrate")
       ELSE LET names == InOrder(DOMAIN chef.profiles)
            IN  Go(r, "migrate", "decode")
                /\ run' = [run EXCEPT ![r].kind = "migrate",
                             ![r].todo = [i \in DOMAIN names |-> [name |-> names[i], profile |-> Migrated(chef.profiles[names[i]]),
                                                                  extra |-> chef.profiles[names[i]]]]]
    /\ Reading
-----------------------------------------------------------------------------
(* WriteProfileWithExtras                                                  *)

Decode(r) ==
    /\ LET first == Head(run[r].todo)
       IN  IF file.garbled THEN Go(r, "decode", "failed") /\ UNCHANGED run
           ELSE Go(r, "decode", "open")
                /\ Set(r, "next", Put(file.profiles, first.name,
                                      Rewritten(EntryOf(file.profiles, first.name), first.profile, first.extra)))
    /\ Reading

\* A new file is private from the start.
OpenTruncate(r) ==
    /\ Go(r, "open", "chmod")
    /\ Change(r, [NoFile EXCEPT !.exists = TRUE, !.mode = IF file.exists THEN file.mode ELSE "0600"])
    /\ UNCHANGED run
ChmodLate(r) == Go(r, "chmod", "write") /\ UNCHANGED <<file, chef, before, alone, run>>   \* mutant
Chmod(r) == Go(r, "chmod", "write") /\ Change(r, [file EXCEPT !.mode = "0600"]) /\ UNCHANGED run

\* Written over what another run has written since, the shorter text leaves an end
\* of the longer one.
Write(r) ==
    /\ Go(r, "write", IF Len(run[r].todo) = 1 THEN "done" ELSE "decode")
    /\ run' = [run EXCEPT ![r].todo = Tail(@), ![r].next = Idle.next]
    /\ \E tail \in {FALSE, DOMAIN file.profiles # {} \/ file.garbled} :
          Change(r, [file EXCEPT !.profiles = IF tail THEN NoFile.profiles ELSE run[r].next,
                                 !.garbled = tail, !.ours = TRUE])

Crash(r) ==
    /\ Active(r)
    /\ pc' = [pc EXCEPT ![r] = "crashed"] /\ run' = [run EXCEPT ![r] = Idle]
    /\ UNCHANGED <<file, chef, before, alone>>

Step(r) ==
    \/ CreateWithFlags(r) \/ CreateWithPrompts(r) \/ Menu(r) \/ Clear(r) \/ Load(r)
    \/ FirstRun(r) \/ FirstRunDeclined(r) \/ Migrate(r)
    \/ Decode(r) \/ OpenTruncate(r) \/ Chmod(r) \/ Write(r) \/ Crash(r)
Next == \E r \in Runs : Step(r)
Spec == Init /\ [][Next]_vars
-----------------------------------------------------------------------------
(* Properties                                                              *)

TypeOK ==
    /\ file.mode \in {"0600", "0644"} /\ file.garbled \in BOOLEAN
    /\ file.garbled => DOMAIN file.profiles = {}
    /\ pc \in [Runs -> {"idle", "menu", "clear", "load", "migrate", "decode", "open", "chmod", "write",
                        "done", "failed", "declined", "crashed"}]
    /\ \A r \in Runs : pc[r] \in {"decode", "open", "chmod", "write"} => run[r].todo # <<>>

\* The file is as the run left it, and nobody changed it meanwhile.
Fresh(r) == alone[r] /\ pc[r] = "done"

\* An update that nobody disturbs leaves the other profiles as they were and, in its
\* own, what it did not ask for: secret_file and the keys cinc does not know of.
\* What is read back is what was answered (UpdateProfile, WriteProfile).
UpdateIsLocal ==
    \A r \in Runs : Fresh(r) /\ run[r].kind # "migrate" =>
        LET a == run[r].answers
            old == IF a.replace THEN NoFile.profiles ELSE before[r].profiles
            p == Resolve(file.profiles[a.name])
        IN  /\ DOMAIN file.profiles = DOMAIN old \cup {a.name}
            /\ \A n \in DOMAIN old \ {a.name} : file.profiles[n] = old[n]
            /\ \A key \in {"secret_file", Foreign} :
                  Get(file.profiles[a.name], key) = Get(EntryOf(old, a.name), key)
            /\ p.client = a.client /\ p.ssl = a.ssl
            /\ IsServerUrl(a.url) => p.server = a.url /\ p.site = a.site
            /\ ~IsServerUrl(a.url) /\ a.url # Unset => p.site = a.url

\* A profile shared with knife, which reads chef_server_url only, sends both tools
\* to the same server whenever cinc has one, and no other profile gets that key.
KnifeFollows ==
    \A r \in Runs : Fresh(r) /\ ~run[r].answers.replace /\ run[r].kind # "migrate" =>
        LET name == run[r].answers.name
            old == EntryOf(before[r].profiles, name)
            new == file.profiles[name]
        IN  /\ "chef_server_url" \in DOMAIN old <=> "chef_server_url" \in DOMAIN new
            /\ {"cinc_server_url", "chef_server_url"} \subseteq DOMAIN new
                  => new["cinc_server_url"] = new["chef_server_url"]

\* A migration that nobody disturbs writes every profile or fails before the first,
\* and each is read back as knife's is, with all it holds that cinc does not know of.
MigrationIsWhole ==
    \A r \in Runs : run[r].kind = "migrate" /\ alone[r] =>
        /\ pc[r] = "failed" => file = before[r]
        /\ Fresh(r) =>
            /\ DOMAIN file.profiles = DOMAIN chef.profiles
            /\ \A n \in DOMAIN chef.profiles :
                  /\ Resolve(file.profiles[n]) = Resolve(chef.profiles[n])
                  /\ Get(file.profiles[n], Foreign) = Get(chef.profiles[n], Foreign)

\* Nothing that cinc writes, whole or in part, can be read by others, whatever the
\* mode of the file before (WriteProfile: Chmod before anything is written).
OwnerOnly == file.ours => file.mode = "0600"

\* `config validate` finds in a profile what Config.Validate finds, where the rest of
\* the machine is in order, and wherever it finds nothing in a profile with a server,
\* every command gets its client.
InOrderMachine == [key |-> TRUE, dirs |-> {"configured"}, server |-> TRUE, site |-> TRUE]
ChecksAgree ==
    \A n \in DOMAIN file.profiles :
        LET p == Resolve(file.profiles[n])
        IN  /\ FailedChecks(p, InOrderMachine) = {} <=> Issues(p) = {}
            /\ \A machine \in Machines :
                  FailedChecks(p, machine) = {} /\ p.raw # Unset => Opens(p, machine)

\* A profile that cinc renamed is the one the supermarket commands pick, unasked.
RenamedIsFound ==
    \A r \in Runs : Fresh(r) /\ run[r].renamed =>
        LET picked == SupermarketProfile(file.profiles, Unset)
        IN  picked \in DOMAIN file.profiles /\ Resolve(file.profiles[picked]).site = Public

\* An undisturbed update does what it was asked for and nothing else: to the other
\* profiles, to the copy of the URL that knife reads, and to the profile the supermarket
\* commands will pick (UpdateProfile, WriteProfile, createProfile).
UpdateIsRight == TypeOK /\ UpdateIsLocal /\ KnifeFollows /\ RenamedIsFound
=============================================================================
