--------------------------- MODULE ServerObjects ---------------------------
(***************************************************************************)
(* The commands of Commands, run beside each other against one server.      *)
(*                                                                         *)
(* A step is one request, or one thing done on this machine: a check, a     *)
(* file read, the editor, the key file opened, restricted and written.  A   *)
(* request may be refused, and its answer may be lost after the server has   *)
(* done what it asked.  The server is external (cinc-api and erchef),       *)
(* modelled from how the commands use it: last write wins.                  *)
(***************************************************************************)
EXTENDS Commands, FiniteSets, TLC

CONSTANTS Runs,        \* invocations of cinc; also the key pair made for each
          CommandsOf,  \* the commands each may be
          Objects,     \* the objects a server may have
          FirstServer, \* what it has to begin with
          Names,       \* names a file or an edit may give a document
          Known        \* members a group can have: the server drops the rest

\* A document: the name in it, its contents, how often its values are encrypted.
Doc(name, val) == [name |-> name, val |-> val, sealed |-> 0]
Gone == Doc("gone", {})
NoKey == "no key"
IsDoc(d) == d = [name |-> d.name, val |-> d.val, sealed |-> d.sealed] /\ d.sealed \in {0, 1}

\* What a command may write; a cookbook is named by its metadata.
Target(c) == <<c.noun, c.scope, c.name>>
MayWrite(c) ==
    CASE c.verb \in {"show", "list", "run", "none"} \/ "dryRun" \in c.opts -> {}
      [] c.noun = "acl" -> {<<"acl", c.scope, c.perms[i]>> : i \in DOMAIN c.perms}
      [] c.verb \in {"upload", "install"} -> {x \in Objects : x[1] = "cookbook"}
      [] c.noun = "item" /\ c.verb = "create" -> {Target(c), <<"databag", None, c.scope>>}
      [] OTHER -> {Target(c)}

DefaultKey(owner) == <<"key", <<owner[1], owner[3]>>, "default">>

ASSUME CommandsAssumption == \A r \in Runs : \A c \in CommandsOf[r] : IsCommand(c)
\* Objects has all that the commands address, the names a key can be given and the default
\* keys; no command names what is gone; the server keeps a document under its name and a
\* group to the members it knows.
ASSUME ObjectsAssumption ==
    /\ \A r \in Runs : \A c \in CommandsOf[r] :
          /\ MayWrite(c) \subseteq Objects /\ (Range(c.steps) \cap {"get", "unseal"} # {} => Target(c) \in Objects)
          /\ c.noun = "key" /\ c.verb = "edit" => {c.noun} \X {c.scope} \X Names \subseteq Objects
          /\ c.noun \in {"client", "user"} /\ c.verb \in {"create", "bootstrap"} => DefaultKey(Target(c)) \in Objects
          /\ c.name # Gone.name
    /\ {"cookbook"} \X {None} \X Names \subseteq Objects
    /\ DOMAIN FirstServer = Objects
    /\ \A x \in Objects : /\ IsDoc(FirstServer[x]) /\ (FirstServer[x] # Gone /\ x[1] # "acl" => FirstServer[x].name = x[3])
                          /\ x[1] = "group" => FirstServer[x].val \subseteq Known
ASSUME KeysAssumption == NoKey \notin Runs

VARIABLES
    server,  \* object -> its document, or Gone
    disk,    \* the key file: the key it holds and its mode
    host,    \* the key on the host being bootstrapped
    run      \* where each run is, its locals and what it has done

vars == <<server, disk, host, run>>

Nothing == Plain("none", None, None, {}, <<>>)
Idle == [cmd |-> Nothing, left |-> <<>>, read |-> Gone, doc |-> Gone, key |-> NoKey,
         shown |-> NoKey, agreed |-> FALSE, wrote |-> {}, told |-> {}, others |-> {}, out |-> "idle"]

Init ==
    /\ server = FirstServer
    /\ disk \in [key : {NoKey}, mode : {"0600", "0644"}]
    /\ host = NoKey
    /\ run = [r \in Runs |-> Idle]

Start(r) ==
    /\ run[r].out = "idle"
    /\ \E c \in CommandsOf[r] : run' = [run EXCEPT ![r] = [Idle EXCEPT !.cmd = c, !.left = c.steps, !.out = "running"]]
    /\ UNCHANGED <<server, disk, host>>
-----------------------------------------------------------------------------
At(r, steps) == run[r].out = "running" /\ run[r].left # <<>> /\ Head(run[r].left) \in steps

\* A run after its step; the last step ends it well.
Next1(s) == [s EXCEPT !.left = Tail(@), !.out = IF Len(s.left) = 1 THEN "ok" ELSE @]
Stopped(s, out) == [s EXCEPT !.left = <<>>, !.out = out]
Becomes(r, s) == run' = [run EXCEPT ![r] = s]
Local(r, s) == Becomes(r, s) /\ UNCHANGED <<server, disk, host>>
Refuse(r) == Local(r, Stopped(run[r], "refused"))
Fail(r) == Local(r, Stopped(run[r], "error"))

\* A request that changes the server to `to`: done; done, its answer lost; not done.
Touched(to) == {x \in Objects : to[x] # server[x]}
Applied(r, to, s) ==
    /\ server' = to
    /\ run' = [q \in Runs |-> IF q = r THEN s
                              ELSE IF run[q].out = "running" THEN [run[q] EXCEPT !.others = @ \cup Touched(to)] ELSE run[q]]
    /\ UNCHANGED <<disk, host>>
Write(r, object, to, s) ==
    \/ Applied(r, to, [s EXCEPT !.wrote = @ \cup {object}])
    \/ Applied(r, to, Stopped([run[r] EXCEPT !.wrote = @ \cup {object}], "error"))
    \/ Fail(r)

Aimed(r) == Target(run[r].cmd)
Put(r) == LET c == run[r].cmd IN <<c.noun, c.scope, IF c.noun = "key" THEN c.name ELSE run[r].doc.name>>
-----------------------------------------------------------------------------
(* Before anything is sent                                                 *)

\* What may be found wanting, and what may fail.
Try(r, step) == At(r, {step}) /\ (Local(r, Next1(run[r])) \/ Refuse(r))
Ask(r, step) == At(r, {step}) /\ (Local(r, Next1(run[r])) \/ Fail(r))

CheckArguments(r) == Try(r, "check")
Prompt(r) == Try(r, "prompt")
ValidateFlags(r) == Try(r, "flags")
ResolveProfile(r) == Try(r, "profile")
ResolveClient(r) == Try(r, "connect")
ResolveSecret(r) == Try(r, "secret")
\* The site a flag or a profile names, or the public one; to share, with an identity.
OpenSite(r) == Try(r, "site")
OpenSigned(r) == Try(r, "identity")

FileDocs(noun) ==
    {Doc(n, v) : n \in Names \cup (IF noun = "key" THEN {None} ELSE {}),
                 v \in {{"b"}} \cup (IF noun = "key" THEN {{"create_key"}} ELSE {})}
ReadFile(r) ==
    /\ At(r, {"file"})
    /\ \/ \E d \in FileDocs(run[r].cmd.noun) : Local(r, Next1([run[r] EXCEPT !.doc = d]))
       \/ Refuse(r)

\* A file has to name the item on the command line; it may hold encrypted values.
ReadItemFile(r) ==
    /\ At(r, {"itemfile"})
    /\ \/ \E n \in Names, s \in {0, 1} :
             IF n = run[r].cmd.name
             THEN Local(r, Next1([run[r] EXCEPT !.doc = [Doc(n, {"b"}) EXCEPT !.sealed = s]]))
             ELSE Refuse(r)
       \/ Refuse(r)

Blank(r) ==
    /\ At(r, {"blank", "stub"})
    /\ Local(r, Next1([run[r] EXCEPT !.doc = Doc(run[r].cmd.name, {}), !.read = Doc(run[r].cmd.name, {})]))

\* The editor takes any document of the noun, or is left.  An item keeps its id.
Editor(r) ==
    /\ At(r, {"editor"})
    /\ \/ \E n \in Names, v \in {run[r].read.val} \cup {d.val : d \in FileDocs(run[r].cmd.noun)} :
             Local(r, Next1([run[r] EXCEPT !.doc = [run[r].read EXCEPT !.name = n, !.val = v]]))
       \/ Refuse(r)
ItemEditor(r) ==
    /\ At(r, {"itemeditor"})
    /\ \/ \E v \in {run[r].read.val, {"b"}} : Local(r, Next1([run[r] EXCEPT !.doc = [run[r].read EXCEPT !.val = v]]))
       \/ Refuse(r)

\* A command that would send what it read says so and stops.
Compare(r) ==
    /\ At(r, {"compare"})
    /\ Local(r, IF run[r].doc = run[r].read THEN Stopped(run[r], "unchanged") ELSE Next1(run[r]))
Pin(r) ==
    /\ At(r, {"pin", "backfill"})
    /\ Local(r, Next1(IF Head(run[r].left) = "pin" \/ run[r].doc.name = None
                      THEN [run[r] EXCEPT !.doc.name = run[r].cmd.name] ELSE run[r]))

Change(r) ==
    LET c == run[r].cmd  old == run[r].read.val
        new == CASE c.verb = "add" -> old \cup c.entries
                 [] c.verb = "remove" -> old \ c.entries
                 [] OTHER -> (old \ c.family) \cup c.entries
    IN  At(r, {"change"}) /\ Local(r, Next1([run[r] EXCEPT !.doc = [run[r].read EXCEPT !.val = new]]))

\* The library refuses to encrypt what is encrypted.
Seal(r) ==
    /\ At(r, {"seal"})
    /\ IF run[r].doc.sealed = 0 THEN Local(r, Next1([run[r] EXCEPT !.doc.sealed = 1])) ELSE Refuse(r)

\* Only the superuser is asked about; anything but yes declines.
ConfirmDeletePivotal(r) ==
    /\ At(r, {"ask"})
    /\ \/ Local(r, Next1([run[r] EXCEPT !.agreed = TRUE]))
       \/ Local(r, Stopped(run[r], "declined"))
-----------------------------------------------------------------------------
(* Requests                                                                *)

Get(r) ==
    /\ At(r, {"get"})
    /\ \/ /\ server[Aimed(r)] # Gone
          /\ Local(r, Next1([run[r] EXCEPT !.read = server[Aimed(r)], !.doc = server[Aimed(r)]]))
       \/ Fail(r)
ReadList(r) == Ask(r, "list")
\* All that match, or the one page of --rows.
RunSearch(r) == Ask(r, "search")
\* Page after page: a page that fails leaves nothing to print.
PaginateCookbooks(r) == Ask(r, "cookbooks")
PaginateSearch(r) == Ask(r, "matches")
AttachLatestVersions(r) == Ask(r, "universe")
LookupCategory(r) == Ask(r, "category")
ShowShared(r) == Ask(r, "record")
DownloadShared(r) == Ask(r, "download")
\* One node without the attribute to connect to, or no node at all, and no host is tried.
NodeSSHTargets(r) == At(r, {"hosts"}) /\ (Local(r, Next1(run[r])) \/ Refuse(r) \/ Fail(r))

\* What is not encrypted, or not with this secret, is an error.
Unseal(r) ==
    /\ At(r, {"unseal"})
    /\ \/ LET d == server[Aimed(r)]  plain == [d EXCEPT !.sealed = 0] IN
          /\ d # Gone /\ d.sealed = 1
          /\ Local(r, Next1([run[r] EXCEPT !.read = plain, !.doc = plain]))
       \/ Fail(r)

\* A member the server does not know is left out of a group, silently.
Stored(r, d) ==
    LET noun == run[r].cmd.noun IN
    IF noun = "group" THEN [d EXCEPT !.val = @ \cap Known]
    ELSE IF noun = "key" /\ "create_key" \in d.val THEN [d EXCEPT !.val = {r}]
    ELSE d
Generates(r) == run[r].cmd.noun \in {"client", "user", "key", "org"} /\ "publicKey" \notin run[r].cmd.opts
KeyOf(r) == {IF run[r].key # NoKey THEN run[r].key ELSE IF Generates(r) THEN r ELSE "mine"}
Inside(object) ==
    {x \in Objects : \/ object[1] = "databag" /\ x[1] = "item" /\ x[2] = object[3]
                     \/ object[1] \in {"client", "user"} /\ x[1] = "key" /\ x[2] = <<object[1], object[3]>>}

Update(r) ==
    /\ At(r, {"put"})
    /\ LET at == Put(r)  d == run[r].doc  new == <<at[1], at[2], d.name>>
           to == [[server EXCEPT ![at] = Gone] EXCEPT ![new] = Stored(r, d)]
           made == run[r].cmd.noun = "key" /\ "create_key" \in d.val
       IN  \/ /\ server[at] # Gone /\ (new = at \/ server[new] = Gone)
              /\ Write(r, at, to, Next1([run[r] EXCEPT !.key = IF made THEN r ELSE @]))
           \/ (server[at] = Gone \/ (new # at /\ server[new] # Gone)) /\ Fail(r)

\* A new client or user has a default key.
Post(r) ==
    /\ At(r, {"post"})
    /\ LET d == run[r].doc  at == <<run[r].cmd.noun, run[r].cmd.scope, d.name>>
           stored == IF at[1] = "key" THEN Doc(d.name, KeyOf(r)) ELSE d
           to == [x \in Objects |-> IF x = at THEN stored
                                    ELSE IF at[1] \in {"client", "user"} /\ x = DefaultKey(at)
                                    THEN Doc("default", KeyOf(r)) ELSE server[x]]
       IN  IF server[at] # Gone \/ (at[1] = "item" /\ server[<<"databag", None, at[2]>>] = Gone)
           THEN Fail(r)
           ELSE Write(r, at, to, Next1([run[r] EXCEPT !.key = IF Generates(r) THEN r ELSE @]))

\* The bag may be there already; a new one is announced at once.
PostBag(r) ==
    /\ At(r, {"postbag"})
    /\ LET bag == <<"databag", None, run[r].cmd.scope>> IN
       IF server[bag] # Gone THEN Local(r, Next1(run[r])) \/ Fail(r)
       ELSE Write(r, bag, [server EXCEPT ![bag] = Doc(bag[3], {})], Next1([run[r] EXCEPT !.told = @ \cup {bag}]))

DeleteObject(r) ==
    /\ At(r, {"erase"})
    /\ IF server[Aimed(r)] = Gone THEN Fail(r)
       ELSE Write(r, Aimed(r), [x \in Objects |-> IF x \in {Aimed(r)} \cup Inside(Aimed(r)) THEN Gone ELSE server[x]], Next1(run[r]))

\* Reregister: the library deletes the default key, then makes another.
DropKey(r) ==
    /\ At(r, {"dropkey"})
    /\ IF server[Aimed(r)] = Gone THEN Fail(r)
       ELSE Write(r, Aimed(r), [server EXCEPT ![Aimed(r)] = Gone], Next1(run[r]))
NewKey(r) ==
    /\ At(r, {"newkey"})
    /\ IF server[Aimed(r)] # Gone THEN Fail(r)
       ELSE Write(r, Aimed(r), [server EXCEPT ![Aimed(r)] = Doc("default", {r})], Next1([run[r] EXCEPT !.key = r]))

ReadBackUnread(r) == At(r, {"readback"}) /\ Local(r, Next1(run[r]))      \* mutant
\* The members a change asked for that the server has not kept are an error.
ReadBack(r) ==
    /\ At(r, {"readback"})
    /\ LET c == run[r].cmd  val == server[Aimed(r)].val
           asked == IF c.verb = "add" THEN c.entries \ run[r].read.val ELSE c.entries \cap run[r].read.val
           dropped == IF c.verb = "add" THEN asked \ val ELSE asked \cap val
       IN  \/ Local(r, IF dropped = {} THEN Next1(run[r]) ELSE Stopped(run[r], "error"))
           \/ Fail(r)

\* Grant and revoke read the whole ACL, and write each permission that changes on its own.
Ace(r, perm) == <<"acl", run[r].cmd.scope, perm>>
Changes(c, members) == IF c.verb = "add" THEN ~(c.entries \subseteq members) ELSE c.entries \cap members # {}
NewAce(c, members) == IF c.verb = "add" THEN members \cup c.entries ELSE members \ c.entries
ReadAcl(r) ==
    /\ At(r, {"readacl"})
    /\ LET c == run[r].cmd
           acl == [p \in Range(c.perms) |-> server[Ace(r, p)].val] IN
       \/ Local(r, IF \A p \in Range(c.perms) : ~Changes(c, acl[p]) THEN Stopped(run[r], "unchanged")
                   ELSE [run[r] EXCEPT !.read = acl, !.left = c.perms])
       \/ Fail(r)
PutAceUntold(r) ==                                                       \* mutant
    /\ At(r, Range(AllPerms))
    /\ LET c == run[r].cmd  perm == Head(run[r].left)  ace == Ace(r, perm)  members == run[r].read[perm] IN
       IF Changes(c, members) THEN Write(r, ace, [server EXCEPT ![ace].val = NewAce(c, members)], Next1(run[r]))
       ELSE Local(r, Next1(run[r]))
PutAce(r) ==
    /\ At(r, Range(AllPerms))
    /\ LET c == run[r].cmd  perm == Head(run[r].left)  ace == Ace(r, perm)  members == run[r].read[perm] IN
       IF Changes(c, members)
       THEN Write(r, ace, [server EXCEPT ![ace].val = NewAce(c, members)], Next1([run[r] EXCEPT !.told = @ \cup {ace}]))
       ELSE Local(r, Next1(run[r]))

\* Only the superuser may list every organization; others are told theirs.
ListOrgs(r) ==
    /\ At(r, {"listorgs"})
    /\ \/ Local(r, Next1(run[r]))
       \/ Local(r, [run[r] EXCEPT !.left = <<"memberorgs">>])
       \/ Fail(r)
FetchMemberOrgNames(r) == Ask(r, "memberorgs")

\* The cookbook is named by its metadata, not by its directory.
LocateCookbook(r) ==
    /\ At(r, {"locate"})
    /\ (\E n \in Names : Local(r, Next1([run[r] EXCEPT !.doc = Doc(n, {"b"})]))) \/ Refuse(r)
\* What is shared has to be called what it was shared as; what is installed has not.
PackCookbook(r) ==
    /\ At(r, {"pack"})
    /\ Local(r, Next1([run[r] EXCEPT !.doc = Doc(run[r].cmd.name, {"b"})])) \/ Refuse(r)
UploadCookbook(r) ==
    LET at == <<run[r].cmd.noun, None, run[r].doc.name>> IN
    At(r, {"upload"}) /\ Write(r, at, [server EXCEPT ![at] = run[r].doc], Next1(run[r]))
SaveCookbook(r) == Ask(r, "save")
-----------------------------------------------------------------------------
(* Private keys                                                            *)

GenerateKeyPair(r) == At(r, {"genkey"}) /\ Local(r, Next1([run[r] EXCEPT !.key = r]))

\* The only copy goes to the key file or to standard output.
EmitPrivateKey(r) ==
    /\ At(r, {"emit"})
    /\ CASE run[r].key = NoKey -> Local(r, Next1(run[r]))
         [] run[r].key # NoKey /\ "keyFile" \in run[r].cmd.opts ->
                Local(r, [run[r] EXCEPT !.left = <<"openkey", "chmodkey", "writekey">>])
         [] OTHER -> Local(r, Next1([run[r] EXCEPT !.shown = run[r].key])) \/ Fail(r)
OpenKeyFile(r) ==
    /\ At(r, {"openkey"})
    /\ \/ disk' = [disk EXCEPT !.key = NoKey] /\ Becomes(r, Next1(run[r])) /\ UNCHANGED <<server, host>>
       \/ Fail(r)
ChmodKeyFile(r) ==
    /\ At(r, {"chmodkey"})
    /\ \/ disk' = [disk EXCEPT !.mode = "0600"] /\ Becomes(r, Next1(run[r])) /\ UNCHANGED <<server, host>>
       \/ Fail(r)
WriteUnchecked(r) ==                                                     \* mutant
    /\ At(r, {"writekey"})
    /\ \/ /\ disk' = [disk EXCEPT !.key = run[r].key]
          /\ Becomes(r, Next1([run[r] EXCEPT !.shown = run[r].key])) /\ UNCHANGED <<server, host>>
       \/ Local(r, Next1(run[r]))
WriteKeyFile(r) ==
    /\ At(r, {"writekey"})
    /\ \/ /\ disk' = [disk EXCEPT !.key = run[r].key]
          /\ Becomes(r, Next1([run[r] EXCEPT !.shown = run[r].key])) /\ UNCHANGED <<server, host>>
       \/ Fail(r)

\* A name a script cannot carry is one the server has refused before.
BuildScript(r) == At(r, {"script"}) /\ (Local(r, Next1(run[r])) \/ (run[r].cmd.opts \cap {"dryRun"} # {} /\ Refuse(r)))

\* The session may fail before or after the key is on the host; then the client is named.
Bootstrap(r) ==
    /\ At(r, {"session"})
    /\ \/ host' = run[r].key /\ Becomes(r, Next1([run[r] EXCEPT !.shown = run[r].key])) /\ UNCHANGED <<server, disk>>
       \/ /\ host' \in {host, run[r].key}
          /\ Becomes(r, Stopped([run[r] EXCEPT !.told = @ \cup {Aimed(r)}], "error"))
          /\ UNCHANGED <<server, disk>>
-----------------------------------------------------------------------------
Step(r) ==
    \/ Start(r) \/ CheckArguments(r) \/ Prompt(r) \/ ValidateFlags(r) \/ ResolveProfile(r) \/ ResolveClient(r) \/ ResolveSecret(r)
    \/ OpenSite(r) \/ OpenSigned(r) \/ ReadFile(r) \/ ReadItemFile(r)
    \/ Blank(r) \/ Editor(r) \/ ItemEditor(r) \/ Compare(r) \/ Pin(r) \/ Change(r) \/ Seal(r) \/ ConfirmDeletePivotal(r)
    \/ ReadList(r) \/ RunSearch(r) \/ PaginateCookbooks(r) \/ PaginateSearch(r) \/ AttachLatestVersions(r)
    \/ LookupCategory(r) \/ ShowShared(r) \/ DownloadShared(r) \/ NodeSSHTargets(r)
    \/ Get(r) \/ Unseal(r) \/ Update(r) \/ Post(r) \/ PostBag(r) \/ DeleteObject(r) \/ DropKey(r) \/ NewKey(r)
    \/ ReadBack(r) \/ ReadAcl(r) \/ PutAce(r) \/ ListOrgs(r) \/ FetchMemberOrgNames(r)
    \/ LocateCookbook(r) \/ PackCookbook(r) \/ UploadCookbook(r) \/ SaveCookbook(r)
    \/ GenerateKeyPair(r) \/ EmitPrivateKey(r) \/ OpenKeyFile(r) \/ ChmodKeyFile(r) \/ WriteKeyFile(r)
    \/ BuildScript(r) \/ Bootstrap(r)
Next == \E r \in Runs : Step(r)
Spec == Init /\ [][Next]_vars
-----------------------------------------------------------------------------
(* What the commands promise                                               *)

Outs == {"idle", "running", "ok", "unchanged", "declined", "refused", "error"}
TypeOK ==
    /\ DOMAIN server = Objects
    /\ \A x \in Objects : server[x].sealed \in 0..1 /\ DOMAIN server[x] = DOMAIN Gone
    /\ disk.key \in Runs \cup {NoKey} /\ disk.mode \in {"0600", "0644"}
    /\ host \in Runs \cup {NoKey}
    /\ \A r \in Runs : /\ run[r].out \in Outs /\ run[r].wrote \cup run[r].told \cup run[r].others \subseteq Objects
                       /\ run[r].left = <<>> <=> run[r].out # "running"
                       /\ {run[r].key, run[r].shown} \subseteq Runs \cup {NoKey}

\* A command writes to the object it was given, and to no other, whatever name a
\* file or the editor puts in the document; one that only reads writes nothing, and
\* neither does a dry run.  (A cookbook is named by its metadata.)
OnlyItsTarget == \A r \in Runs : run[r].wrote \subseteq MayWrite(run[r].cmd)

\* A command that gives up on its own, because of a flag, a file, an editor that was
\* left or an answer, or that finds nothing to change, has sent nothing: no empty bag,
\* no client without a host.  (An upload of several cookbooks may stop at the second.)
NothingSaidNothingSent ==
    \A r \in Runs : run[r].out \in {"refused", "declined", "unchanged"} /\ run[r].cmd.verb # "upload" => run[r].wrote = {}

\* When a command fails, at most one of the requests the server obeyed is left
\* unsaid: a partial grant names the permissions it changed, a bag is announced.
OneInDoubt ==
    \A r \in Runs : run[r].out = "error" /\ run[r].cmd.verb # "upload" => Cardinality(run[r].wrote \ run[r].told) <= 1

\* A command that succeeds and was answered a private key has delivered it: it is
\* the only copy there will be.
KeyReachesUser == \A r \in Runs : run[r].out = "ok" /\ run[r].key # NoKey => run[r].shown = run[r].key
\* The key file is never readable by others while it holds a key.
KeyFileIsPrivate == disk.key # NoKey => disk.mode = "0600"

\* What a command says it did is so, unless another run changed the same objects
\* since it started.
Holds(r, srv) ==
    LET c == run[r].cmd  at == srv[Target(c)]  s == run'[r] IN
    CASE c.noun = "acl" -> \A i \in DOMAIN c.perms : LET val == srv[Ace(r, c.perms[i])].val IN
                              IF c.verb = "add" THEN c.entries \subseteq val ELSE c.entries \cap val = {}
      [] c.noun # "acl" /\ c.verb = "add" -> c.entries \subseteq at.val
      [] c.noun # "acl" /\ c.verb = "remove" -> c.entries \cap at.val = {}
      [] c.verb = "set" -> at.val = (s.read.val \ c.family) \cup c.entries
      [] c.verb = "delete" -> at = Gone
      [] c.verb = "edit" -> srv[<<c.noun, c.scope, s.doc.name>>] = Stored(r, s.doc)
      [] c.verb = "create" /\ c.noun = "item" -> at = s.doc /\ srv[<<"databag", None, c.scope>>] # Gone
      [] c.verb = "create" /\ c.noun \in {"client", "user"} -> at # Gone /\ srv[DefaultKey(Target(c))].val = KeyOf(r)
      [] c.verb = "create" /\ c.noun \notin {"item", "client", "user"} -> at # Gone
      [] c.verb = "rotate" -> at.val = {s.shown}
      [] c.verb = "bootstrap" -> at # Gone /\ srv[DefaultKey(Target(c))].val = {host'}
      [] OTHER -> TRUE
Concerns(r) ==
    LET c == run[r].cmd  w == MayWrite(c) \cup {<<c.noun, c.scope, run[r].doc.name>>} IN w \cup UNION {Inside(x) : x \in w}
SaidIsDone ==
    [][\A r \in Runs :
         (/\ run[r].out = "running" /\ run'[r].out = "ok"
          /\ run'[r].others \cap Concerns(r) = {} /\ "dryRun" \notin run[r].cmd.opts) => Holds(r, server')]_vars

\* What `databag secret` writes is encrypted, once.
StaysSealed ==
    [][\A r \in Runs : "secret" \in run[r].cmd.opts =>
         \A x \in run'[r].wrote \ run[r].wrote : x[1] = "item" => server'[x].sealed = 1]_vars

\* Whatever fails, what a command has sent is accounted for: to its own object only,
\* nothing if it gave up by itself, and when it fails all but the last request is said.
WritesAreAccountedFor == TypeOK /\ OnlyItsTarget /\ NothingSaidNothingSent /\ OneInDoubt

\* A private key, of which the server keeps no copy, reaches its user and nobody else.
KeyIsDelivered == KeyReachesUser /\ KeyFileIsPrivate
=============================================================================
