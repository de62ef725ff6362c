-------------------------- MODULE CredentialsProofs --------------------------
(***************************************************************************)
(* Proofs about Credentials, for any number of runs, any names and URLs    *)
(* and any files to begin with: nothing cinc writes is readable by others; *)
(* a run that nobody disturbs updates its profile and no other; a migration *)
(* writes all of the knife file; the two checks of a profile agree.        *)
(***************************************************************************)
EXTENDS Credentials, FiniteSetTheorems, TLAPS

\* The file is one, whatever the runs have made of it, and every run is somewhere.
FileShape == DOMAIN file = DOMAIN NoFile /\ DOMAIN pc = Runs

\* A run that is about to write, and not only the file that has been written, needs
\* the mode: the others may truncate the file meanwhile but never widen it.
AboutToWrite == \A r \in Runs : pc[r] = "write" => file.mode = "0600"

IInv == FileShape /\ AboutToWrite /\ OwnerOnly
-----------------------------------------------------------------------------
LEMMA InitIsPrivate == ASSUME Init PROVE IInv
<1>1. DOMAIN file = DOMAIN NoFile /\ ~file.ours
  BY SeedsAssumption DEF Init, IsFile
<1>2. DOMAIN pc = Runs /\ \A r \in Runs : pc[r] = "idle"
  BY DEF Init
<1> QED
  BY <1>1, <1>2 DEF IInv, FileShape, AboutToWrite, OwnerOnly

\* Where a run goes, the others stay.
LEMMA Going ==
    ASSUME IInv, NEW r \in Runs, NEW from, NEW to, Go(r, from, to)
    PROVE  /\ DOMAIN pc' = Runs /\ pc[r] = from /\ pc'[r] = to
           /\ \A q \in Runs : q # r => pc'[q] = pc[q]
  BY DEF IInv, FileShape, Go

\* A step that reads goes anywhere but to the write itself.
LEMMA ReadingIsPrivate ==
    ASSUME IInv, NEW r \in Runs, NEW from, NEW to, Go(r, from, to), to # "write", UNCHANGED file
    PROVE  IInv'
<1>1. DOMAIN pc' = Runs /\ \A q \in Runs : pc'[q] = "write" => pc[q] = "write"
  BY Going
<1> QED
  BY <1>1 DEF IInv, FileShape, AboutToWrite, OwnerOnly

LEMMA ClearIsPrivate == ASSUME IInv, NEW r \in Runs, Clear(r) PROVE IInv'
<1>1. DOMAIN pc' = Runs /\ \A q \in Runs : pc'[q] = "write" => pc[q] = "write"
  BY Going DEF Clear
<1>2. \/ UNCHANGED file
      \/ file' = [file EXCEPT !.garbled = FALSE, !.profiles = NoFile.profiles, !.ours = FALSE]
  BY DEF Clear, Change
<1>3. DOMAIN file' = DOMAIN file /\ file'.mode = file.mode /\ (file'.ours => file.ours)
  BY <1>2 DEF IInv, FileShape, NoFile
<1> QED
  BY <1>1, <1>3 DEF IInv, FileShape, AboutToWrite, OwnerOnly

LEMMA OpenIsPrivate == ASSUME IInv, NEW r \in Runs, OpenTruncate(r) PROVE IInv'
<1>1. DOMAIN pc' = Runs /\ \A q \in Runs : pc'[q] = "write" => pc[q] = "write"
  BY Going DEF OpenTruncate
<1>2. file' = [NoFile EXCEPT !.exists = TRUE, !.mode = IF file.exists THEN file.mode ELSE "0600"]
  BY DEF OpenTruncate, Change
<1>3. DOMAIN file' = DOMAIN NoFile /\ file'.mode \in {file.mode, "0600"} /\ ~file'.ours
  BY <1>2 DEF NoFile
<1> QED
  BY <1>1, <1>3 DEF IInv, FileShape, AboutToWrite, OwnerOnly

LEMMA ChmodIsPrivate == ASSUME IInv, NEW r \in Runs, Chmod(r) PROVE IInv'
<1>1. DOMAIN pc' = Runs
  BY Going DEF Chmod
<1>2. file' = [file EXCEPT !.mode = "0600"]
  BY DEF Chmod, Change
<1>3. DOMAIN file' = DOMAIN file /\ file'.mode = "0600"
  BY <1>2 DEF IInv, FileShape, NoFile
<1> QED
  BY <1>1, <1>3 DEF IInv, FileShape, AboutToWrite, OwnerOnly

LEMMA WriteIsPrivate == ASSUME IInv, NEW r \in Runs, Write(r) PROVE IInv'
<1>1. /\ DOMAIN pc' = Runs /\ pc[r] = "write"
      /\ \A q \in Runs : pc'[q] = "write" => pc[q] = "write"
  BY Going DEF Write
<1>2. PICK tail \in BOOLEAN :
          file' = [file EXCEPT !.profiles = IF tail THEN NoFile.profiles ELSE run[r].next,
                               !.garbled = tail, !.ours = TRUE]
  BY DEF Write, Change
<1>3. DOMAIN file' = DOMAIN file /\ file'.mode = file.mode
  BY <1>2 DEF IInv, FileShape, NoFile
<1>4. file.mode = "0600"
  BY <1>1 DEF IInv, AboutToWrite
<1> QED
  BY <1>1, <1>3, <1>4 DEF IInv, FileShape, AboutToWrite, OwnerOnly

LEMMA CrashIsPrivate == ASSUME IInv, NEW r \in Runs, Crash(r) PROVE IInv'
<1>1. DOMAIN pc' = Runs /\ \A q \in Runs : pc'[q] = "write" => pc[q] = "write"
  BY DEF Crash, IInv, FileShape
<1>2. UNCHANGED file
  BY DEF Crash
<1> QED
  BY <1>1, <1>2 DEF IInv, FileShape, AboutToWrite, OwnerOnly

\* Every other step reads.
LEMMA StepIsPrivate == ASSUME IInv, NEW r \in Runs, Step(r) PROVE IInv'
<1>1. CASE CreateWithFlags(r)
  BY <1>1, ReadingIsPrivate DEF CreateWithFlags, Begin
<1>2. CASE CreateWithPrompts(r)
  BY <1>2, ReadingIsPrivate DEF CreateWithPrompts, Begin
<1>3. CASE Menu(r)
  <2>1. \E to \in {"clear", "load"} : Go(r, "menu", to)
    BY <1>3 DEF Menu
  <2> QED
    BY <1>3, <2>1, ReadingIsPrivate DEF Menu, Reading
<1>4. CASE Load(r)
  <2>1. \E to \in {"failed", "decode"} : Go(r, "load", to)
    BY <1>4 DEF Load
  <2> QED
    BY <1>4, <2>1, ReadingIsPrivate DEF Load, Reading
<1>5. CASE FirstRun(r) \/ FirstRunDeclined(r)
  <2>1. \E to \in {"migrate", "menu", "declined"} : Go(r, "idle", to)
    BY <1>5 DEF FirstRun, FirstRunDeclined
  <2> QED
    BY <1>5, <2>1, ReadingIsPrivate DEF FirstRun, FirstRunDeclined, Begin
<1>6. CASE Migrate(r)
  <2>1. \E to \in {"failed", "decode"} : Go(r, "migrate", to)
    BY <1>6 DEF Migrate
  <2> QED
    BY <1>6, <2>1, ReadingIsPrivate DEF Migrate, Reading
<1>7. CASE Decode(r)
  <2>1. \E to \in {"failed", "open"} : Go(r, "decode", to)
    BY <1>7 DEF Decode
  <2> QED
    BY <1>7, <2>1, ReadingIsPrivate DEF Decode, Reading
<1> QED
  BY <1>1, <1>2, <1>3, <1>4, <1>5, <1>6, <1>7, ClearIsPrivate, OpenIsPrivate, ChmodIsPrivate,
     WriteIsPrivate, CrashIsPrivate DEF Step

\* What runs of cinc write, however many overlap and wherever they are killed, is never
\* readable by others (WriteProfileWithExtras: Chmod before anything is written).
THEOREM OwnerOnlyHolds == Spec => []OwnerOnly
<1>1. Init => IInv
  BY InitIsPrivate
<1>2. IInv /\ [Next]_vars => IInv'
  <2>1. ASSUME IInv, UNCHANGED vars PROVE IInv'
    BY <2>1 DEF vars, IInv, FileShape, AboutToWrite, OwnerOnly
  <2> QED
    BY <2>1, StepIsPrivate DEF Next
<1>3. IInv => OwnerOnly
  BY DEF IInv
<1> QED
  BY <1>1, <1>2, <1>3, PTL DEF Spec
-----------------------------------------------------------------------------
(* What is written of a profile is read back                               *)

\* The entry that is written: a managed key is set or gone, a key of knife's is kept.
LEMMA Entry ==
    ASSUME NEW e, NEW p, NEW x, NEW new, new = Rewritten(e, p, x)
    PROVE  LET m == Managed(p) IN
           /\ \A key \in DOMAIN m : Get(new, key) = m[key] /\ (key \in DOMAIN new <=> m[key] # Unset)
           /\ "chef_server_url" \in DOMAIN new <=> "chef_server_url" \in DOMAIN e
           /\ "chef_server_url" \in DOMAIN new /\ m.cinc_server_url # Unset => new["chef_server_url"] = m.cinc_server_url
           /\ Foreign \in DOMAIN new <=> Foreign \in DOMAIN e \cup DOMAIN x
           /\ Get(new, Foreign) = IF Foreign \in DOMAIN x THEN x[Foreign] ELSE Get(e, Foreign)
<1> DEFINE m == Managed(p)
           set == {key \in DOMAIN m : m[key] # Unset}
           others == (DOMAIN e \cup DOMAIN x) \ ManagedKeys
           all == set \cup others \cup (DOMAIN e \cap {"chef_server_url"})
           url == m.cinc_server_url
<1>1. new = [key \in all |->
            IF key \in set THEN m[key]
            ELSE IF key = "chef_server_url" /\ url # Unset THEN url
            ELSE IF key \in others /\ key \in DOMAIN x THEN x[key] ELSE e[key]]
  BY DEF Rewritten
<1>2. DOMAIN m = {"cinc_server_url", "supermarket_site", "client", "ssl_verify_mode", "secret_file"}
  BY DEF Managed
<1>3. DOMAIN m \cap {"chef_server_url", Foreign} = {} /\ DOMAIN m \subseteq ManagedKeys /\ Foreign \notin ManagedKeys
      /\ Foreign # "chef_server_url" /\ "chef_server_url" \in ManagedKeys
  BY <1>2 DEF ManagedKeys, Foreign
<1> HIDE DEF m
<1>4. \A key \in DOMAIN m : Get(new, key) = m[key] /\ (key \in DOMAIN new <=> m[key] # Unset)
  BY <1>1, <1>3 DEF Get
<1>5. "chef_server_url" \in DOMAIN new <=> "chef_server_url" \in DOMAIN e
  BY <1>1, <1>3
<1>6. "chef_server_url" \in DOMAIN new /\ url # Unset => new["chef_server_url"] = url
  BY <1>1, <1>3
<1>7. Foreign \in DOMAIN new <=> Foreign \in DOMAIN e \cup DOMAIN x
  BY <1>1, <1>3
<1>8. Get(new, Foreign) = IF Foreign \in DOMAIN x THEN x[Foreign] ELSE Get(e, Foreign)
  BY <1>1, <1>3 DEF Get
<1> QED
  BY <1>4, <1>5, <1>6, <1>7, <1>8 DEF m

\* What is read of it.
LEMMA ReadBack ==
    ASSUME NEW e, NEW p, NEW x, NEW new, new = Rewritten(e, p, x)
    PROVE  LET url == IF p.server = Unset THEN p.raw ELSE p.server  q == Resolve(new) IN
           /\ q.site = p.site /\ q.client = p.client /\ q.ssl = p.ssl /\ q.secret = p.secret
           /\ url # Unset \/ "chef_server_url" \notin DOMAIN e => q.raw = url /\ q.server = IF IsServerUrl(url) THEN url ELSE Unset
           /\ Get(new, "secret_file") = p.secret
           /\ "cinc_server_url" \in DOMAIN new => new["cinc_server_url"] = url /\ url # Unset
<1> DEFINE m == Managed(p)  url == IF p.server = Unset THEN p.raw ELSE p.server
<1>1. /\ m.cinc_server_url = url /\ m.supermarket_site = p.site /\ m.client = p.client
      /\ m.ssl_verify_mode = p.ssl /\ m.secret_file = p.secret
      /\ DOMAIN m = {"cinc_server_url", "supermarket_site", "client", "ssl_verify_mode", "secret_file"}
  BY DEF Managed
<1> HIDE DEF m, url
<1>2. /\ \A key \in DOMAIN m : Get(new, key) = m[key] /\ (key \in DOMAIN new <=> m[key] # Unset)
      /\ "chef_server_url" \in DOMAIN new <=> "chef_server_url" \in DOMAIN e
  BY Entry DEF m
<1>3. /\ Get(new, "cinc_server_url") = url /\ Get(new, "supermarket_site") = p.site /\ Get(new, "client") = p.client
      /\ Get(new, "ssl_verify_mode") = p.ssl /\ Get(new, "secret_file") = p.secret
      /\ "cinc_server_url" \in DOMAIN new <=> url # Unset
  BY <1>1, <1>2
<1>4. url # Unset \/ "chef_server_url" \notin DOMAIN e => ServerUrl(new) = url
  BY <1>2, <1>3 DEF ServerUrl, Get
<1>5. "cinc_server_url" \in DOMAIN new => new["cinc_server_url"] = url
  BY <1>3 DEF Get
<1> QED
  BY <1>3, <1>4, <1>5 DEF Resolve, url

\* An entry of the knife file, written over one that has nothing else, is read back as
\* it was.
Same(e, c) ==
    /\ "chef_server_url" \notin DOMAIN e /\ Resolve(e) = Resolve(c)
    /\ Get(e, Foreign) = Get(c, Foreign) /\ (Foreign \in DOMAIN e => Foreign \in DOMAIN c)
LEMMA MigratedIsSame ==
    ASSUME NEW c, NEW e, e = EmptyEntry \/ Same(e, c)
    PROVE  Same(Rewritten(e, Migrated(c), c), c)
<1> DEFINE p == Migrated(c)  new == Rewritten(e, p, c)  url == ServerUrl(c)
<1>1. "chef_server_url" \notin DOMAIN e /\ (Foreign \in DOMAIN e => Foreign \in DOMAIN c)
  BY DEF EmptyEntry, Same
<1>2. /\ p.server = (IF IsServerUrl(url) THEN url ELSE Unset) /\ p.raw = (IF IsServerUrl(url) THEN Unset ELSE url)
      /\ p.site = Get(c, "supermarket_site") /\ p.client = Get(c, "client")
      /\ p.ssl = Get(c, "ssl_verify_mode") /\ p.secret = Get(c, "secret_file")
  BY UrlsAssumption DEF Migrated, NewProfile, NoProfile, Resolve, ParsedUrl, OrglessOf, IsServerUrl
<1>3. (IF p.server = Unset THEN p.raw ELSE p.server) = url
  BY <1>2, UrlsAssumption DEF IsServerUrl
<1> HIDE DEF p, url
<1>4. LET q == Resolve(new) IN
      /\ q.site = p.site /\ q.client = p.client /\ q.ssl = p.ssl /\ q.secret = p.secret
      /\ q.raw = url /\ q.server = IF IsServerUrl(url) THEN url ELSE Unset
  BY <1>1, <1>3, ReadBack
<1>5. Resolve(new) = Resolve(c)
  BY <1>2, <1>4 DEF Resolve, url
<1>6. /\ "chef_server_url" \notin DOMAIN new
      /\ Foreign \in DOMAIN new <=> Foreign \in DOMAIN e \cup DOMAIN c
      /\ Get(new, Foreign) = IF Foreign \in DOMAIN c THEN c[Foreign] ELSE Get(e, Foreign)
  BY <1>1, Entry
<1>7. Get(new, Foreign) = Get(c, Foreign)
  BY <1>1, <1>6 DEF Get
<1> QED
  BY <1>1, <1>5, <1>6, <1>7 DEF Same, p

\* What the answers make of an entry: its own is what was asked, the rest is kept.
Updated(e, a) == Rewritten(e, Answered(Resolve(e), a), EmptyEntry)
LEMMA UpdatedIsRight ==
    ASSUME NEW e, NEW a, ~NewProfileFails(a.url, a.site, a.client)
    PROVE  LET new == Updated(e, a)  p == Resolve(new) IN
           /\ \A key \in {"secret_file", Foreign} : Get(new, key) = Get(e, key)
           /\ p.client = a.client /\ p.ssl = a.ssl
           /\ IsServerUrl(a.url) => p.server = a.url /\ p.site = a.site
           /\ ~IsServerUrl(a.url) /\ a.url # Unset => p.site = a.url
           /\ IsSupermarketOnly(a) => p.site = Public
           /\ "chef_server_url" \in DOMAIN e <=> "chef_server_url" \in DOMAIN new
           /\ {"cinc_server_url", "chef_server_url"} \subseteq DOMAIN new
                 => new["cinc_server_url"] = new["chef_server_url"]
<1> DEFINE p == Answered(Resolve(e), a)  new == Rewritten(e, p, EmptyEntry)  url == IF p.server = Unset THEN p.raw ELSE p.server
<1>1. /\ p.server = (IF IsServerUrl(a.url) THEN a.url ELSE Unset) 
      /\ p.site = (IF a.url # Unset /\ ~IsServerUrl(a.url) THEN a.url ELSE a.site)
      /\ p.client = a.client /\ p.ssl = a.ssl /\ p.secret = Get(e, "secret_file")
  BY DEF Answered, NewProfile, NoProfile, Resolve
<1>2. IsServerUrl(a.url) => url = a.url /\ url # Unset
  BY <1>1, UrlsAssumption DEF IsServerUrl
<1>3. IsSupermarketOnly(a) => p.site = Public
  BY <1>1, UrlsAssumption DEF IsSupermarketOnly, NewProfileFails, IsServerUrl
<1> HIDE DEF p
<1>4. /\ Resolve(new).site = p.site /\ Resolve(new).client = p.client /\ Resolve(new).ssl = p.ssl
      /\ url # Unset => Resolve(new).server = IF IsServerUrl(url) THEN url ELSE Unset
      /\ Get(new, "secret_file") = p.secret
      /\ "cinc_server_url" \in DOMAIN new => new["cinc_server_url"] = url /\ url # Unset
  BY ReadBack
<1>5. /\ "chef_server_url" \in DOMAIN new <=> "chef_server_url" \in DOMAIN e
      /\ "chef_server_url" \in DOMAIN new /\ url # Unset => new["chef_server_url"] = url
      /\ Get(new, Foreign) = Get(e, Foreign)
  <2>1. Managed(p).cinc_server_url = url /\ Foreign \notin DOMAIN EmptyEntry
    BY DEF Managed, EmptyEntry
  <2> QED
    BY <2>1, Entry
<1> QED
  BY <1>1, <1>2, <1>3, <1>4, <1>5 DEF Updated, p

\* `config validate` finds in an entry what Config.Validate finds, and what has no
\* finding and a server gets its client (validateProfile, profileChecks, client.New).
LEMMA EntryChecksAgree ==
    ASSUME NEW e, NEW p, p = Resolve(e)
    PROVE  /\ FailedChecks(p, InOrderMachine) = {} <=> Issues(p) = {}
           /\ \A machine \in Machines : FailedChecks(p, machine) = {} /\ p.raw # Unset => Opens(p, machine)
<1>1. p.server = (IF IsServerUrl(p.raw) THEN p.raw ELSE Unset)
  BY DEF Resolve
<1>2. ASSUME NEW machine
      PROVE  FailedChecks(p, machine) = {} <=>
          /\ p.client # Unset /\ ~(p.raw = Unset /\ p.site = Unset) /\ ~(p.raw # Unset /\ ~IsServerUrl(p.raw))
          /\ ~(p.site # Unset /\ ~IsSiteUrl(p.site)) /\ ~(p.ssl # Unset /\ p.ssl \notin SslModes)
          /\ ~TrustedCertsFail(p, machine) /\ ~(p.client # Unset /\ ~machine.key)
          /\ ~(p.server # Unset /\ (~Opens(p, machine) \/ ~machine.server)) /\ ~(p.site # Unset /\ ~machine.site)
  <2> DEFINE fails == [client |-> p.client = Unset,
                  endpoint |-> p.raw = Unset /\ p.site = Unset,
                  serverUrl |-> p.raw # Unset /\ ~IsServerUrl(p.raw),
                  siteUrl |-> p.site # Unset /\ ~IsSiteUrl(p.site),
                  ssl |-> p.ssl # Unset /\ p.ssl \notin SslModes,
                  certs |-> TrustedCertsFail(p, machine),
                  key |-> p.client # Unset /\ ~machine.key,
                  server |-> p.server # Unset /\ (~Opens(p, machine) \/ ~machine.server),
                  site |-> p.site # Unset /\ ~machine.site]
  <2>1. FailedChecks(p, machine) = {check \in DOMAIN fails : fails[check]}
    BY DEF FailedChecks
  <2>2. DOMAIN fails = {"client", "endpoint", "serverUrl", "siteUrl", "ssl", "certs", "key", "server", "site"}
    OBVIOUS
  <2>3. FailedChecks(p, machine) = {} <=> \A check \in DOMAIN fails : ~fails[check]
    BY <2>1
  <2>4. (\A check \in DOMAIN fails : ~fails[check]) <=>
           /\ ~fails.client /\ ~fails.endpoint /\ ~fails.serverUrl /\ ~fails.siteUrl /\ ~fails.ssl
           /\ ~fails.certs /\ ~fails.key /\ ~fails.server /\ ~fails.site
    BY <2>2
  <2> QED
    BY <2>3, <2>4
<1>3. Issues(p) = {} <=>
          /\ p.client # Unset /\ ~(p.server = Unset /\ p.raw = Unset /\ p.site = Unset) /\ ~(p.raw # Unset /\ p.server = Unset)
          /\ ~(p.site # Unset /\ ~IsSiteUrl(p.site)) /\ ~(p.ssl # Unset /\ p.ssl \notin SslModes)
  <2> DEFINE wrong == [client |-> p.client = Unset,
                  endpoint |-> p.server = Unset /\ p.raw = Unset /\ p.site = Unset,
                  cinc_server_url |-> p.raw # Unset /\ p.server = Unset,
                  supermarket_site |-> p.site # Unset /\ ~IsSiteUrl(p.site),
                  ssl_verify_mode |-> p.ssl # Unset /\ p.ssl \notin SslModes]
  <2>1. Issues(p) = {field \in DOMAIN wrong : wrong[field]}
    BY DEF Issues
  <2>2. DOMAIN wrong = {"client", "endpoint", "cinc_server_url", "supermarket_site", "ssl_verify_mode"}
    OBVIOUS
  <2>3. Issues(p) = {} <=> \A field \in DOMAIN wrong : ~wrong[field]
    BY <2>1
  <2>4. (\A field \in DOMAIN wrong : ~wrong[field]) <=>
           ~wrong.client /\ ~wrong.endpoint /\ ~wrong.cinc_server_url /\ ~wrong.supermarket_site /\ ~wrong.ssl_verify_mode
    BY <2>2
  <2> QED
    BY <2>3, <2>4
<1>4. \A machine : Opens(p, machine) <=> p.client # Unset /\ p.server # Unset /\ machine.key /\ ~TrustedCertsFail(p, machine)
  BY DEF Opens, Connects
<1>5. InOrderMachine.key = TRUE /\ InOrderMachine.server = TRUE /\ InOrderMachine.site = TRUE /\ ~TrustedCertsFail(p, InOrderMachine)
  BY DEF InOrderMachine, TrustedCertsFail, TrustedDir
<1>6. FailedChecks(p, InOrderMachine) = {} <=> Issues(p) = {}
  BY <1>1, <1>2, <1>3, <1>4, <1>5
<1>7. ASSUME NEW machine \in Machines, FailedChecks(p, machine) = {}, p.raw # Unset
      PROVE  Opens(p, machine)
  BY <1>1, <1>2, <1>4, <1>7
<1> QED
  BY <1>6, <1>7

\* Whatever the file holds, the two sets of checks agree on it, and what passes them
\* works (config validate, Config.Validate, client.New).
THEOREM ChecksHold == Spec => []ChecksAgree
<1>1. ChecksAgree
  BY EntryChecksAgree DEF ChecksAgree
<1> QED
  BY <1>1, PTL
-----------------------------------------------------------------------------
(* A run that nobody disturbs                                              *)

IsList(todo) == \E n \in Nat : DOMAIN todo = 1..n /\ todo = [i \in 1..n |-> todo[i]]

Places == {"idle", "menu", "clear", "load", "migrate", "decode", "open", "chmod", "write", "done", "failed", "declined", "crashed"}

\* What the other profiles were when it started, and what it is to make of them.
Old(b, a) == IF a.replace THEN NoFile.profiles ELSE b.profiles
Result(b, a) == Put(Old(b, a), a.name, Updated(EntryOf(Old(b, a), a.name), a))
Update(b, a) == [name |-> a.name, profile |-> Answered(Resolve(EntryOf(Old(b, a), a.name)), a), extra |-> EmptyEntry]

\* Some of the knife file is in `profiles`, and the rest of it is to come.
Migrating(c, profiles, todo) ==
    /\ \A j \in DOMAIN todo : LET t == todo[j] IN
          t.name \in DOMAIN c.profiles /\ t.profile = Migrated(c.profiles[t.name]) /\ t.extra = c.profiles[t.name]
    /\ \A n \in DOMAIN profiles : n \in DOMAIN c.profiles /\ Same(profiles[n], c.profiles[n])
    /\ \A n \in DOMAIN c.profiles : n \in DOMAIN profiles \/ \E j \in DOMAIN todo : todo[j].name = n

\* A run at p with locals s, the file f and the knife file c, whoever else there is.
RunShape(p, s, f, c) ==
    /\ DOMAIN s = DOMAIN Idle
    /\ p = "idle" => s.kind = "none"
    /\ p \in {"idle", "menu", "migrate"} \/ s.kind = "migrate" => ~s.renamed
    /\ p \notin {"idle", "declined", "crashed"} => s.kind \in {"create", "first run", "migrate"}
    /\ s.kind = "migrate" => p \in {"decode", "open", "chmod", "write", "done", "failed"}
    /\ s.renamed => s.answers.name = "supermarket" /\ IsSupermarketOnly(s.answers)
    /\ p = "clear" => s.answers.replace
    /\ p = "migrate" => DOMAIN c.profiles # {}
    /\ p \in {"decode", "open", "chmod", "write"} =>
          IsList(s.todo) /\ s.todo # <<>> /\ (s.kind # "migrate" => DOMAIN s.todo = {1})
    /\ p \in {"chmod", "write"} => f.exists

\* The same of a run that has been alone, b being the file it started with.
Follows(p, s, f, b, c) ==
    LET a == s.answers IN
    /\ p \in {"menu", "clear", "migrate"} => f = b
    /\ p = "migrate" => ~f.exists
    /\ p \in {"chmod", "write"} => f.profiles = NoFile.profiles /\ ~f.garbled
    /\ s.kind # "migrate" =>
          /\ p \in {"load", "decode"} => f.profiles = Old(b, a)
          /\ p \in {"decode", "open", "chmod", "write", "done"} => ~NewProfileFails(a.url, a.site, a.client)
          /\ p = "decode" => s.todo[1] = Update(b, a)
          /\ p \in {"open", "chmod", "write"} => s.next = Result(b, a)
          /\ p = "done" => f.profiles = Result(b, a)
    /\ s.kind = "migrate" =>
          /\ p = "failed" => f = b
          /\ p = "decode" => ~f.garbled /\ Migrating(c, f.profiles, s.todo)
          /\ p \in {"open", "chmod", "write"} => Migrating(c, s.next, Tail(s.todo))
          /\ p = "done" => Migrating(c, f.profiles, <<>>)

FilesAreFiles == IsFile(file) /\ IsFile(chef) /\ IsFiniteSet(DOMAIN chef.profiles)
Domains == pc \in [Runs -> Places] /\ DOMAIN run = Runs /\ DOMAIN before = Runs /\ DOMAIN alone = Runs
RunOK(r) ==
    /\ RunShape(pc[r], run[r], file, chef)
    /\ alone[r] => Follows(pc[r], run[r], file, before[r], chef)
Undisturbed == FilesAreFiles /\ Domains /\ \A r \in Runs : RunOK(r)

\* The list without its first.
LEMMA TodoTail ==
    ASSUME NEW todo, IsList(todo), todo # <<>>
    PROVE  /\ IsList(Tail(todo)) /\ Head(todo) = todo[1] /\ 1 \in DOMAIN todo
           /\ DOMAIN todo = {1} => Len(todo) = 1
           /\ Len(todo) = 1 => Tail(todo) = <<>>
           /\ Len(todo) # 1 => Tail(todo) # <<>>
           /\ \A j \in DOMAIN Tail(todo) : j + 1 \in DOMAIN todo /\ Tail(todo)[j] = todo[j + 1]
           /\ \A j \in DOMAIN todo : j = 1 \/ (j - 1 \in DOMAIN Tail(todo) /\ Tail(todo)[j - 1] = todo[j])
<1>1. PICK n \in Nat : DOMAIN todo = 1..n /\ todo = [i \in 1..n |-> todo[i]]
  BY DEF IsList
<1>2. n # 0 /\ Len(todo) = n
  BY <1>1
<1>3. DOMAIN Tail(todo) = 1..(n - 1) /\ \A i \in 1..(n - 1) : Tail(todo)[i] = todo[i + 1]
  BY <1>1, <1>2
<1>4. Tail(todo) = [i \in 1..(n - 1) |-> Tail(todo)[i]] /\ Head(todo) = todo[1]
  BY <1>1, <1>2
<1>5. IsList(Tail(todo)) /\ n - 1 \in Nat
  BY <1>2, <1>3, <1>4 DEF IsList
<1>6. n = 1 => Tail(todo) = <<>>
  BY <1>1
<1>7. n # 1 => Tail(todo) # <<>>
  BY <1>1, <1>2
<1>8. DOMAIN todo = {1} => n = 1
  BY <1>1, <1>2
<1>9. \A j \in DOMAIN Tail(todo) : j + 1 \in DOMAIN todo /\ Tail(todo)[j] = todo[j + 1]
  BY <1>1, <1>2, <1>3
<1>10. \A j \in DOMAIN todo : j = 1 \/ (j - 1 \in DOMAIN Tail(todo) /\ Tail(todo)[j - 1] = todo[j])
  BY <1>1, <1>2, <1>3
<1> QED
  BY <1>1, <1>2, <1>4, <1>5, <1>6, <1>7, <1>8, <1>9, <1>10

\* A list of one.
LEMMA OneTodo ==
    ASSUME NEW t, NEW todo, todo = <<t>>
    PROVE  IsList(todo) /\ todo # <<>> /\ DOMAIN todo = {1} /\ todo[1] = t
  BY DEF IsList

\* The other runs: a change of the file is noticed by all that have started.
LEMMA OthersStay ==
    ASSUME Undisturbed, NEW q \in Runs, pc'[q] = pc[q], run'[q] = run[q], before'[q] = before[q], chef' = chef,
           file.exists => file'.exists,
           \/ file' = file /\ alone'[q] = alone[q]
           \/ alone'[q] => alone[q] /\ pc[q] = "idle"
    PROVE  RunOK(q)'
<1>1. RunShape(pc[q], run[q], file, chef) /\ (alone[q] => Follows(pc[q], run[q], file, before[q], chef))
  BY DEF Undisturbed, RunOK
<1>2. RunShape(pc'[q], run'[q], file', chef')
  BY <1>1 DEF RunShape
<1>3. ASSUME alone'[q]
      PROVE  Follows(pc'[q], run'[q], file', before'[q], chef')
  <2>1. CASE file' = file /\ alone'[q] = alone[q]
    BY <1>1, <1>3, <2>1
  <2>2. CASE pc[q] = "idle"
    <3>1. run[q].kind = "none"
      BY <1>1, <2>2 DEF RunShape
    <3> QED
      BY <2>2, <3>1 DEF Follows
  <2> QED
    BY <1>3, <2>1, <2>2
<1> QED
  BY <1>2, <1>3 DEF RunOK

LEMMA Stays ==
    ASSUME Undisturbed, NEW r \in Runs, NEW from, NEW to \in Places, Go(r, from, to),
           DOMAIN run' = Runs, \A q \in Runs \ {r} : run'[q] = run[q],
           UNCHANGED chef, IsFile(file'), file.exists => file'.exists, RunOK(r)',
           \/ UNCHANGED <<file, alone>> /\ (UNCHANGED before \/ before' = [before EXCEPT ![r] = file])
           \/ Change(r, file')
    PROVE  Undisturbed'
<1>1. pc' \in [Runs -> Places] /\ \A q \in Runs \ {r} : pc'[q] = pc[q]
  BY DEF Undisturbed, Domains, Go
<1>2. DOMAIN before' = Runs /\ \A q \in Runs \ {r} : before'[q] = before[q]
  BY DEF Undisturbed, Domains, Change
<1>3. DOMAIN alone' = Runs /\ \A q \in Runs \ {r} : 
          \/ file' = file /\ alone'[q] = alone[q]
          \/ alone'[q] => alone[q] /\ pc[q] = "idle"
  BY DEF Undisturbed, Domains, Change
<1>4. \A q \in Runs \ {r} : RunOK(q)'
  BY <1>1, <1>2, <1>3, OthersStay
<1>5. FilesAreFiles'
  BY DEF Undisturbed, FilesAreFiles
<1> QED
  BY <1>1, <1>2, <1>3, <1>4, <1>5 DEF Undisturbed, Domains

\* Where the run that steps goes.
LEMMA Goes ==
    ASSUME Undisturbed, NEW r \in Runs, NEW from, NEW to, Go(r, from, to)
    PROVE  /\ pc[r] = from /\ pc'[r] = to /\ RunShape(from, run[r], file, chef) /\ DOMAIN run[r] = DOMAIN Idle
           /\ alone[r] => Follows(from, run[r], file, before[r], chef)
           /\ IsFile(file) /\ DOMAIN run = Runs /\ DOMAIN before = Runs /\ DOMAIN alone = Runs
  BY DEF Undisturbed, Domains, FilesAreFiles, RunOK, RunShape, Go

\* The user's name, or the one cinc takes.
LEMMA NamedIsRight ==
    ASSUME NEW a, DOMAIN a = DOMAIN NoAnswers, NEW chosen, NEW b, b = Named(a, chosen)
    PROVE  /\ b.replace = a.replace
           /\ b # a => b.name = "supermarket" /\ IsSupermarketOnly(b)
<1>1. CASE ~chosen /\ ~a.replace /\ IsSupermarketOnly(a)
  <2>1. b = [a EXCEPT !.name = "supermarket"]
    BY <1>1 DEF Named
  <2>2. b.name = "supermarket" /\ b.url = a.url /\ b.site = a.site /\ b.replace = a.replace
    BY <2>1 DEF NoAnswers
  <2> QED
    BY <1>1, <2>2 DEF IsSupermarketOnly
<1>2. CASE ~(~chosen /\ ~a.replace /\ IsSupermarketOnly(a))
  BY <1>2 DEF Named
<1> QED
  BY <1>1, <1>2

\* A run that starts finds the file as it is.
LEMMA CreateWithFlagsStays ==
    ASSUME Undisturbed, NEW r \in Runs, CreateWithFlags(r)
    PROVE  Undisturbed'
<1>1. PICK a \in FlagAnswers, chosen \in BOOLEAN :
          LET asked == IF a.url = Unset /\ a.site = Unset THEN [a EXCEPT !.site = Public] ELSE a IN
          run' = [run EXCEPT ![r] = [Idle EXCEPT !.kind = "create", !.answers = Named(asked, chosen),
                                                 !.renamed = Named(asked, chosen) # asked]]
  BY DEF CreateWithFlags
<1> DEFINE asked == IF a.url = Unset /\ a.site = Unset THEN [a EXCEPT !.site = Public] ELSE a
           b == Named(asked, chosen)  s == run'[r]
<1>2. DOMAIN asked = DOMAIN NoAnswers /\ asked.replace = FALSE
  BY DEF FlagAnswers, NoAnswers
<1> HIDE DEF asked
<1>3. ~b.replace /\ (b # asked => b.name = "supermarket" /\ IsSupermarketOnly(b))
  BY <1>2, NamedIsRight
<1> HIDE DEF b
<1>4. DOMAIN run = Runs
  BY DEF Undisturbed, Domains
<1>5. run' = [run EXCEPT ![r] = [Idle EXCEPT !.kind = "create", !.answers = b, !.renamed = b # asked]]
  BY <1>1 DEF asked, b
<1>6. /\ DOMAIN run' = Runs /\ \A q \in Runs \ {r} : run'[q] = run[q]
      /\ DOMAIN s = DOMAIN Idle /\ s.kind = "create" /\ s.answers = b /\ (s.renamed => b # asked)
  BY <1>4, <1>5 DEF Idle
<1>7. /\ Go(r, "idle", "load") /\ before' = [before EXCEPT ![r] = file] /\ UNCHANGED <<file, chef, alone>>
      /\ "load" \in Places
  BY DEF CreateWithFlags, Begin, Places
<1>8. pc'[r] = "load" /\ before'[r] = file /\ IsFile(file)
  BY <1>7, Goes
<1>9. RunShape("load", s, file, chef)
  BY <1>3, <1>6 DEF RunShape
<1>10. Follows("load", s, file, file, chef)
  BY <1>3, <1>6 DEF Follows, Old
<1> HIDE DEF s
<1>11. RunOK(r)'
  BY <1>7, <1>8, <1>9, <1>10 DEF RunOK, s
<1> QED
  BY <1>6, <1>7, <1>8, <1>11, Stays

LEMMA StartStays ==
    ASSUME Undisturbed, NEW r \in Runs, CreateWithPrompts(r) \/ FirstRun(r) \/ FirstRunDeclined(r)
    PROVE  Undisturbed'
<1> DEFINE s == run'[r]
<1>1. PICK to \in {"menu", "migrate", "declined"} :
          /\ Go(r, "idle", to)
          /\ to = "declined" => UNCHANGED run
          /\ to # "declined" => \E kind \in {"create", "first run"} : Set(r, "kind", kind)
          /\ to = "migrate" => CanMigrate /\ ~file.exists
  <2>1. CASE CreateWithPrompts(r)
    BY <2>1 DEF CreateWithPrompts
  <2>2. CASE FirstRun(r)
    <3>1. CASE CanMigrate
      BY <2>2, <3>1 DEF FirstRun
    <3>2. CASE ~CanMigrate
      BY <2>2, <3>2 DEF FirstRun
    <3> QED
      BY <3>1, <3>2
  <2>3. CASE FirstRunDeclined(r)
    BY <2>3 DEF FirstRunDeclined
  <2> QED
    BY <2>1, <2>2, <2>3
<1>2. before' = [before EXCEPT ![r] = file] /\ UNCHANGED <<file, chef, alone>>
  BY DEF CreateWithPrompts, FirstRun, FirstRunDeclined, Begin
<1>3. /\ pc'[r] = to /\ before'[r] = file /\ IsFile(file) /\ to \in Places
      /\ RunShape("idle", run[r], file, chef) /\ DOMAIN run[r] = DOMAIN Idle /\ DOMAIN run = Runs
  <2>1. to \in Places
    BY <1>1 DEF Places
  <2>2. before'[r] = file
    BY <1>2 DEF Undisturbed, Domains
  <2> QED
    BY <1>1, <2>1, <2>2, Goes
<1>4. /\ DOMAIN run' = Runs /\ \A q \in Runs \ {r} : run'[q] = run[q]
      /\ DOMAIN s = DOMAIN Idle /\ s.renamed = run[r].renamed
      /\ to = "declined" => s.kind = run[r].kind
      /\ to # "declined" => s.kind \in {"create", "first run"}
  <2>1. CASE to = "declined"
    BY <1>1, <1>3, <2>1
  <2>2. CASE to # "declined"
    <3>1. PICK kind \in {"create", "first run"} : run' = [run EXCEPT ![r] = [run[r] EXCEPT !["kind"] = kind]]
      BY <1>1, <2>2 DEF Set
    <3>2. s = [run[r] EXCEPT !["kind"] = kind]
      BY <1>3, <3>1
    <3>3. DOMAIN run[r] = {"kind", "answers", "todo", "next", "renamed"}
      BY <1>3 DEF Idle
    <3>4. DOMAIN s = DOMAIN run[r] /\ s["kind"] = kind /\ s["renamed"] = run[r]["renamed"]
      BY <3>2, <3>3
    <3> QED
      BY <1>3, <2>2, <3>1, <3>4
  <2> QED
    BY <2>1, <2>2
<1> HIDE DEF s
<1>5. ~s.renamed /\ (to = "declined" => s.kind = "none")
  BY <1>3, <1>4 DEF RunShape
<1>6. RunShape(to, s, file, chef)
  BY <1>1, <1>4, <1>5 DEF RunShape, CanMigrate
<1>7. Follows(to, s, file, file, chef)
  BY <1>1, <1>4, <1>5 DEF Follows
<1>8. RunOK(r)'
  BY <1>2, <1>3, <1>6, <1>7 DEF RunOK, s
<1> QED
  BY <1>1, <1>2, <1>3, <1>4, <1>8, Stays

\* One field of the run that steps.
LEMMA SetIsRight ==
    ASSUME NEW r \in Runs, DOMAIN run = Runs, DOMAIN run[r] = DOMAIN Idle, NEW field \in DOMAIN Idle, NEW value, Set(r, field, value)
    PROVE  /\ DOMAIN run' = Runs /\ \A q \in Runs \ {r} : run'[q] = run[q]
           /\ DOMAIN run'[r] = DOMAIN Idle /\ run'[r][field] = value
           /\ field # "kind" => run'[r].kind = run[r].kind
           /\ field # "answers" => run'[r].answers = run[r].answers
           /\ field # "todo" => run'[r].todo = run[r].todo
           /\ field # "next" => run'[r].next = run[r].next
           /\ field # "renamed" => run'[r].renamed = run[r].renamed
<1>1. run' = [run EXCEPT ![r] = [run[r] EXCEPT ![field] = value]]
  BY DEF Set
<1>2. run'[r] = [run[r] EXCEPT ![field] = value]
  BY <1>1
<1>3. DOMAIN run[r] = {"kind", "answers", "todo", "next", "renamed"}
  BY DEF Idle
<1> QED
  BY <1>1, <1>2, <1>3

\* The answers a prompt can end with.
LEMMA PromptAnswersAreAnswers == \A a \in PromptAnswers : DOMAIN a = DOMAIN NoAnswers
<1>1. ASSUME NEW x, DOMAIN x = DOMAIN NoAnswers, NEW urls, NEW answers, answers \in Asked(x, urls)
      PROVE  DOMAIN answers = DOMAIN NoAnswers
  <2>1. \E u, s, c : answers = Filled(x, u, s, c)
    BY <1>1 DEF Asked
  <2>2. \A u, s, c : DOMAIN Filled(x, u, s, c) = DOMAIN x
    BY DEF Filled
  <2> QED
    BY <1>1, <2>1, <2>2
<1>2. \A n : /\ DOMAIN [FreshDefaults EXCEPT !.name = n] = DOMAIN NoAnswers
             /\ DOMAIN [FreshDefaults EXCEPT !.name = n, !.replace = TRUE] = DOMAIN NoAnswers
             /\ DOMAIN UpdateDefaults(n) = DOMAIN NoAnswers
  BY DEF FreshDefaults, UpdateDefaults, NoAnswers
<1> HIDE DEF Asked
<1>3. ASSUME NEW a \in PromptAnswers
      PROVE  \E x, urls : DOMAIN x = DOMAIN NoAnswers /\ a \in Asked(x, urls)
  <2>1. CASE HasMenu
    <3>1. PICK S \in {Asked([FreshDefaults EXCEPT !.name = n], ServerUrls) : n \in Names \ DOMAIN file.profiles}
                \cup {Asked(UpdateDefaults(n), ServerUrls) : n \in DOMAIN file.profiles}
                \cup {Asked([FreshDefaults EXCEPT !.name = n, !.replace = TRUE], ServerUrls) : n \in Names} : a \in S
      BY <2>1 DEF PromptAnswers
    <3>2. \E n : S = Asked([FreshDefaults EXCEPT !.name = n], ServerUrls) \/ S = Asked(UpdateDefaults(n), ServerUrls)
                \/ S = Asked([FreshDefaults EXCEPT !.name = n, !.replace = TRUE], ServerUrls)
      BY <3>1
    <3> QED
      BY <3>1, <3>2, <1>2
  <2>2. CASE ~HasMenu
    <3>1. PICK n \in Names : a \in Asked([FreshDefaults EXCEPT !.name = n], ServerUrls)
      BY <2>2 DEF PromptAnswers
    <3> QED
      BY <3>1, <1>2
  <2> QED
    BY <2>1, <2>2
<1> QED
  BY <1>1, <1>3

LEMMA MenuStays ==
    ASSUME Undisturbed, NEW r \in Runs, Menu(r)
    PROVE  Undisturbed'
<1>1. PICK a \in PromptAnswers, chosen \in BOOLEAN :
          LET b == IF run[r].kind = "create" THEN Named(a, chosen) ELSE a
          IN  /\ run' = [run EXCEPT ![r].answers = b, ![r].renamed = b # a]
              /\ Go(r, "menu", IF b.replace THEN "clear" ELSE "load")
  BY DEF Menu
<1> DEFINE b == IF run[r].kind = "create" THEN Named(a, chosen) ELSE a
           to == IF b.replace THEN "clear" ELSE "load"
           s == run'[r]
<1>2. DOMAIN a = DOMAIN NoAnswers
  BY PromptAnswersAreAnswers
<1>3. b # a => b.name = "supermarket" /\ IsSupermarketOnly(b)
  BY <1>2, NamedIsRight
<1>4. run' = [run EXCEPT ![r].answers = b, ![r].renamed = b # a] /\ Go(r, "menu", to)
  BY <1>1
<1>5. UNCHANGED <<file, chef, before, alone>>
  BY DEF Menu, Reading
<1> HIDE DEF b
<1>6. to \in Places /\ to \in {"clear", "load"} /\ (b.replace <=> to = "clear")
  BY DEF Places
<1> HIDE DEF to
<1>7. /\ pc'[r] = to /\ RunShape("menu", run[r], file, chef) /\ DOMAIN run[r] = DOMAIN Idle
      /\ alone[r] => Follows("menu", run[r], file, before[r], chef)
      /\ IsFile(file) /\ DOMAIN run = Runs
  BY <1>4, Goes
<1>8. /\ DOMAIN run' = Runs /\ \A q \in Runs \ {r} : run'[q] = run[q]
      /\ DOMAIN s = DOMAIN Idle /\ s.kind = run[r].kind /\ s.answers = b /\ (s.renamed => b # a)
  BY <1>4, <1>7 DEF Idle
<1> HIDE DEF s
<1>9. s.kind \in {"create", "first run"}
  BY <1>7, <1>8 DEF RunShape
<1>10. RunShape(to, s, file, chef)
  BY <1>3, <1>6, <1>8, <1>9 DEF RunShape
<1>11. alone[r] => Follows(to, s, file, before[r], chef)
  <2>1. alone[r] => file = before[r]
    BY <1>7 DEF Follows
  <2> QED
    BY <2>1, <1>6, <1>8, <1>9 DEF Follows, Old
<1>12. RunOK(r)'
  BY <1>5, <1>7, <1>10, <1>11 DEF RunOK, s
<1> QED
  BY <1>4, <1>5, <1>6, <1>7, <1>8, <1>12, Stays

LEMMA ClearStays ==
    ASSUME Undisturbed, NEW r \in Runs, Clear(r)
    PROVE  Undisturbed'
<1>1. /\ Go(r, "clear", "load") /\ UNCHANGED run /\ "load" \in Places
      /\ Change(r, IF file.exists THEN [file EXCEPT !.garbled = FALSE, !.profiles = NoFile.profiles, !.ours = FALSE] ELSE file)
  BY DEF Clear, Places
<1>2. /\ pc'[r] = "load" /\ RunShape("clear", run[r], file, chef) /\ IsFile(file)
      /\ alone[r] => Follows("clear", run[r], file, before[r], chef)
      /\ DOMAIN run = Runs /\ DOMAIN alone = Runs
  BY <1>1, Goes
<1>3. /\ file' = IF file.exists THEN [file EXCEPT !.garbled = FALSE, !.profiles = NoFile.profiles, !.ours = FALSE] ELSE file
      /\ UNCHANGED <<chef, before>> /\ (alone'[r] => alone[r])
  BY <1>1, <1>2 DEF Change
<1>4. IsFile(file') /\ file'.profiles = NoFile.profiles /\ (file.exists => file'.exists)
  <2>1. CASE file.exists
    <3>1. file' = [file EXCEPT !.garbled = FALSE, !.profiles = NoFile.profiles, !.ours = FALSE]
      BY <1>3, <2>1
    <3>2. DOMAIN file = {"exists", "garbled", "mode", "profiles", "ours"}
      BY <1>2 DEF IsFile, NoFile
    <3>3. /\ DOMAIN file' = DOMAIN file /\ file'.exists = file.exists /\ file'.garbled = FALSE /\ file'.mode = file.mode
          /\ file'.profiles = NoFile.profiles /\ file'.ours = FALSE
      BY <3>1, <3>2
    <3> QED
      BY <1>2, <2>1, <3>3 DEF IsFile
  <2>2. CASE ~file.exists
    BY <1>2, <1>3, <2>2 DEF IsFile
  <2> QED
    BY <2>1, <2>2
<1>5. run[r].kind \in {"create", "first run"} /\ run[r].answers.replace
  BY <1>2 DEF RunShape
<1>6. RunShape("load", run[r], file', chef)
  BY <1>2, <1>5 DEF RunShape
<1>7. Follows("load", run[r], file', before[r], chef)
  BY <1>4, <1>5 DEF Follows, Old
<1>8. RunOK(r)'
  BY <1>1, <1>2, <1>3, <1>6, <1>7 DEF RunOK
<1>9. Change(r, file')
  BY <1>1 DEF Change
<1> QED
  BY <1>1, <1>2, <1>3, <1>4, <1>8, <1>9, Stays

LEMMA LoadStays ==
    ASSUME Undisturbed, NEW r \in Runs, Load(r)
    PROVE  Undisturbed'
<1> DEFINE a == run[r].answers
           p == Answered(Resolve(EntryOf(file.profiles, a.name)), a)
           t == [name |-> a.name, profile |-> p, extra |-> EmptyEntry]
           s == run'[r]
<1>1. UNCHANGED <<file, chef, before, alone>>
  BY DEF Load, Reading
<1>2. CASE Go(r, "load", "failed") /\ UNCHANGED run
  <2>1. /\ pc'[r] = "failed" /\ RunShape("load", run[r], file, chef) /\ IsFile(file) /\ DOMAIN run = Runs /\ "failed" \in Places
    BY <1>2, Goes DEF Places
  <2>2. run[r].kind \in {"create", "first run"}
    BY <2>1 DEF RunShape
  <2>3. RunShape("failed", run[r], file, chef) /\ Follows("failed", run[r], file, before[r], chef)
    BY <2>1, <2>2 DEF RunShape, Follows
  <2>4. RunOK(r)'
    BY <1>1, <1>2, <2>1, <2>3 DEF RunOK
  <2> QED
    BY <1>1, <1>2, <2>1, <2>4, Stays
<1>3. CASE /\ ~NewProfileFails(a.url, a.site, a.client)
           /\ Go(r, "load", "decode") /\ Set(r, "todo", <<t>>)
  <2>1. /\ pc'[r] = "decode" /\ RunShape("load", run[r], file, chef) /\ IsFile(file) /\ DOMAIN run = Runs /\ "decode" \in Places
        /\ DOMAIN run[r] = DOMAIN Idle /\ (alone[r] => Follows("load", run[r], file, before[r], chef))
    BY <1>3, Goes DEF Places
  <2>2. run[r].kind \in {"create", "first run"}
    BY <2>1 DEF RunShape
  <2>3. /\ DOMAIN run' = Runs /\ \A q \in Runs \ {r} : run'[q] = run[q]
        /\ DOMAIN s = DOMAIN Idle /\ s.kind = run[r].kind /\ s.answers = run[r].answers /\ s.renamed = run[r].renamed
        /\ s.todo = <<t>>
    <3>1. "todo" \in DOMAIN Idle
      BY DEF Idle
    <3> QED
      BY <1>3, <2>1, <3>1, SetIsRight
  <2> HIDE DEF s, t
  <2>4. IsList(s.todo) /\ s.todo # <<>> /\ DOMAIN s.todo = {1} /\ s.todo[1] = t
    BY <2>3, OneTodo
  <2>5. RunShape("decode", s, file, chef)
    BY <2>1, <2>2, <2>3, <2>4 DEF RunShape
  <2>6. ASSUME alone[r]
        PROVE  Follows("decode", s, file, before[r], chef)
    <3>1. file.profiles = Old(before[r], a)
      BY <2>1, <2>2, <2>6 DEF Follows
    <3>2. t = Update(before[r], a)
      BY <3>1 DEF Update, t
    <3> QED
      BY <1>3, <2>2, <2>3, <2>4, <3>1, <3>2 DEF Follows
  <2>7. RunOK(r)'
    BY <1>1, <2>1, <2>5, <2>6 DEF RunOK, s
  <2> QED
    BY <1>1, <1>3, <2>1, <2>3, <2>7, Stays
<1> QED
  <2>1. CASE file.garbled \/ NewProfileFails(a.url, a.site, a.client)
    BY <1>2, <2>1 DEF Load
  <2>2. CASE ~(file.garbled \/ NewProfileFails(a.url, a.site, a.client))
    BY <1>3, <2>2 DEF Load
  <2> QED
    BY <2>1, <2>2

\* A finite set has a list of its members.
LEMMA NamesInOrder ==
    ASSUME NEW names, IsFiniteSet(names), names # {}, NEW s, s = InOrder(names)
    PROVE  \E n \in Nat : n # 0 /\ DOMAIN s = 1..n /\ {s[i] : i \in 1..n} = names
<1> DEFINE n == Cardinality(names)
<1>1. n \in Nat /\ n # 0 /\ ExistsBijection(1..n, names)
  BY FS_CardinalityType, FS_EmptySet
<1> HIDE DEF n
<1>2. PICK f \in [1..n -> names] : \A x \in names : \E i \in 1..n : f[i] = x
  BY <1>1 DEF ExistsBijection, Bijection, Surjection, Injection
<1>3. {f[i] : i \in DOMAIN f} = names
  BY <1>2
<1>4. s \in [1..n -> names] /\ {s[i] : i \in DOMAIN s} = names
  BY <1>3 DEF InOrder, n
<1> QED
  BY <1>1, <1>4

LEMMA MigrateStays ==
    ASSUME Undisturbed, NEW r \in Runs, Migrate(r)
    PROVE  Undisturbed'
<1> DEFINE s == run'[r]  names == InOrder(DOMAIN chef.profiles)
           todo == [i \in DOMAIN names |-> [name |-> names[i], profile |-> Migrated(chef.profiles[names[i]]),
                                            extra |-> chef.profiles[names[i]]]]
<1>1. UNCHANGED <<file, chef, before, alone>>
  BY DEF Migrate, Reading
<1>2. CASE Go(r, "migrate", "failed") /\ Set(r, "kind", "migrate")
  <2>1. /\ pc'[r] = "failed" /\ RunShape("migrate", run[r], file, chef) /\ IsFile(file) /\ DOMAIN run = Runs /\ "failed" \in Places
        /\ DOMAIN run[r] = DOMAIN Idle /\ (alone[r] => Follows("migrate", run[r], file, before[r], chef))
    BY <1>2, Goes DEF Places
  <2>2. /\ DOMAIN run' = Runs /\ \A q \in Runs \ {r} : run'[q] = run[q]
        /\ DOMAIN s = DOMAIN Idle /\ s.kind = "migrate" /\ s.answers = run[r].answers /\ s.renamed = run[r].renamed
    <3>1. "kind" \in DOMAIN Idle
      BY DEF Idle
    <3> QED
      BY <1>2, <2>1, <3>1, SetIsRight
  <2> HIDE DEF s
  <2>3. RunShape("failed", s, file, chef)
    BY <2>1, <2>2 DEF RunShape
  <2>4. alone[r] => Follows("failed", s, file, before[r], chef)
    BY <2>1, <2>2 DEF Follows
  <2>5. RunOK(r)'
    BY <1>1, <2>1, <2>3, <2>4 DEF RunOK, s
  <2> QED
    BY <1>1, <1>2, <2>1, <2>2, <2>5, Stays
<1>3. CASE Go(r, "migrate", "decode") /\ run' = [run EXCEPT ![r].kind = "migrate", ![r].todo = todo]
  <2>1. /\ pc'[r] = "decode" /\ RunShape("migrate", run[r], file, chef) /\ IsFile(file) /\ DOMAIN run = Runs /\ "decode" \in Places
        /\ DOMAIN run[r] = DOMAIN Idle /\ (alone[r] => Follows("migrate", run[r], file, before[r], chef))
    BY <1>3, Goes DEF Places
  <2>2. PICK n \in Nat : n # 0 /\ DOMAIN names = 1..n /\ {names[i] : i \in 1..n} = DOMAIN chef.profiles
    <3>1. DOMAIN chef.profiles # {}
      BY <2>1 DEF RunShape
    <3>2. IsFiniteSet(DOMAIN chef.profiles)
      BY DEF Undisturbed, FilesAreFiles
    <3> QED
      BY <3>1, <3>2, NamesInOrder
  <2> HIDE DEF names
  <2>3. IsList(todo) /\ DOMAIN todo = 1..n
    BY <2>2 DEF IsList
  <2>4. todo # <<>>
    BY <2>2, <2>3
  <2>5. \A j \in DOMAIN todo : /\ todo[j].name = names[j] /\ names[j] \in DOMAIN chef.profiles
                               /\ todo[j].profile = Migrated(chef.profiles[todo[j].name]) /\ todo[j].extra = chef.profiles[todo[j].name]
    BY <2>2, <2>3
  <2>6. \A x \in DOMAIN chef.profiles : \E j \in DOMAIN todo : todo[j].name = x
    BY <2>2, <2>3, <2>5
  <2> HIDE DEF todo
  <2>7. /\ DOMAIN run' = Runs /\ \A q \in Runs \ {r} : run'[q] = run[q]
        /\ DOMAIN s = DOMAIN Idle /\ s.kind = "migrate" /\ s.answers = run[r].answers /\ s.renamed = run[r].renamed /\ s.todo = todo
    BY <1>3, <2>1 DEF Idle
  <2> HIDE DEF s
  <2>8. RunShape("decode", s, file, chef)
    BY <2>1, <2>3, <2>4, <2>7 DEF RunShape
  <2>9. ASSUME alone[r]
        PROVE  Follows("decode", s, file, before[r], chef)
    <3>1. ~file.exists
      BY <2>1, <2>9 DEF Follows
    <3>2. file.profiles = NoFile.profiles /\ ~file.garbled
      BY <2>1, <3>1 DEF IsFile
    <3>3. DOMAIN file.profiles = {}
      BY <3>2 DEF NoFile
    <3>4. Migrating(chef, file.profiles, todo)
      BY <2>5, <2>6, <3>3 DEF Migrating
    <3> QED
      BY <2>7, <3>2, <3>4 DEF Follows
  <2>10. RunOK(r)'
    BY <1>1, <2>1, <2>8, <2>9 DEF RunOK, s
  <2> QED
    BY <1>1, <1>3, <2>1, <2>7, <2>10, Stays
<1> QED
  <2>1. CASE \E n \in DOMAIN chef.profiles : Unmigratable(chef.profiles[n])
    BY <1>2, <2>1 DEF Migrate
  <2>2. CASE ~\E n \in DOMAIN chef.profiles : Unmigratable(chef.profiles[n])
    BY <1>3, <2>2 DEF Migrate
  <2> QED
    BY <2>1, <2>2

\* The next profile of the knife file goes into what is to be written.
LEMMA MigratingGoesOn ==
    ASSUME NEW c, NEW profiles, NEW todo, IsList(todo), todo # <<>>, Migrating(c, profiles, todo),
           NEW t, t = Head(todo), NEW e, e = EntryOf(profiles, t.name), NEW new,
           new = Put(profiles, t.name, Rewritten(e, t.profile, t.extra))
    PROVE  Migrating(c, new, Tail(todo))
<1>1. /\ t = todo[1] /\ 1 \in DOMAIN todo
      /\ \A j \in DOMAIN Tail(todo) : j + 1 \in DOMAIN todo /\ Tail(todo)[j] = todo[j + 1]
      /\ \A j \in DOMAIN todo : j = 1 \/ (j - 1 \in DOMAIN Tail(todo) /\ Tail(todo)[j - 1] = todo[j])
  BY TodoTail
<1>2. t.name \in DOMAIN c.profiles /\ t.profile = Migrated(c.profiles[t.name]) /\ t.extra = c.profiles[t.name]
  BY <1>1 DEF Migrating
<1>3. e = EmptyEntry \/ Same(e, c.profiles[t.name])
  BY DEF Migrating, EntryOf
<1>4. Same(Rewritten(e, t.profile, t.extra), c.profiles[t.name])
  BY <1>2, <1>3, MigratedIsSame
<1>5. /\ DOMAIN new = DOMAIN profiles \cup {t.name} /\ new[t.name] = Rewritten(e, t.profile, t.extra)
      /\ \A n \in DOMAIN profiles \ {t.name} : new[n] = profiles[n]
  BY DEF Put
<1>6. \A n \in DOMAIN new : n \in DOMAIN c.profiles /\ Same(new[n], c.profiles[n])
  BY <1>2, <1>4, <1>5 DEF Migrating
<1>7. \A j \in DOMAIN Tail(todo) : LET u == Tail(todo)[j] IN
          u.name \in DOMAIN c.profiles /\ u.profile = Migrated(c.profiles[u.name]) /\ u.extra = c.profiles[u.name]
  BY <1>1 DEF Migrating
<1>8. ASSUME NEW n \in DOMAIN c.profiles
      PROVE  n \in DOMAIN new \/ \E j \in DOMAIN Tail(todo) : Tail(todo)[j].name = n
  <2>1. CASE n \in DOMAIN profiles
    BY <1>5, <2>1
  <2>2. CASE n \notin DOMAIN profiles
    <3>1. PICK j \in DOMAIN todo : todo[j].name = n
      BY <2>2 DEF Migrating
    <3> QED
      BY <1>1, <1>5, <3>1
  <2> QED
    BY <2>1, <2>2
<1> QED
  BY <1>6, <1>7, <1>8 DEF Migrating

LEMMA DecodeStays ==
    ASSUME Undisturbed, NEW r \in Runs, Decode(r)
    PROVE  Undisturbed'
<1> DEFINE t == Head(run[r].todo)  s == run'[r]
           new == Put(file.profiles, t.name, Rewritten(EntryOf(file.profiles, t.name), t.profile, t.extra))
<1>1. UNCHANGED <<file, chef, before, alone>>
  BY DEF Decode, Reading
<1>2. CASE file.garbled /\ Go(r, "decode", "failed") /\ UNCHANGED run
  <2>1. /\ pc'[r] = "failed" /\ RunShape("decode", run[r], file, chef) /\ IsFile(file) /\ DOMAIN run = Runs /\ "failed" \in Places
        /\ alone[r] => Follows("decode", run[r], file, before[r], chef)
    BY <1>2, Goes DEF Places
  <2>2. RunShape("failed", run[r], file, chef)
    BY <2>1 DEF RunShape
  <2>3. alone[r] => Follows("failed", run[r], file, before[r], chef)
    BY <1>2, <2>1 DEF Follows
  <2>4. RunOK(r)'
    BY <1>1, <1>2, <2>1, <2>2, <2>3 DEF RunOK
  <2> QED
    BY <1>1, <1>2, <2>1, <2>4, Stays
<1>3. CASE Go(r, "decode", "open") /\ Set(r, "next", new)
  <2>1. /\ pc'[r] = "open" /\ RunShape("decode", run[r], file, chef) /\ IsFile(file) /\ DOMAIN run = Runs /\ "open" \in Places
        /\ DOMAIN run[r] = DOMAIN Idle /\ (alone[r] => Follows("decode", run[r], file, before[r], chef))
    BY <1>3, Goes DEF Places
  <2>2. /\ DOMAIN run' = Runs /\ \A q \in Runs \ {r} : run'[q] = run[q]
        /\ DOMAIN s = DOMAIN Idle /\ s.kind = run[r].kind /\ s.answers = run[r].answers /\ s.renamed = run[r].renamed
        /\ s.todo = run[r].todo /\ s.next = new
    <3>1. "next" \in DOMAIN Idle
      BY DEF Idle
    <3> QED
      BY <1>3, <2>1, <3>1, SetIsRight
  <2> HIDE DEF s
  <2>3. IsList(s.todo) /\ s.todo # <<>> /\ (s.kind # "migrate" => DOMAIN s.todo = {1})
    BY <2>1, <2>2 DEF RunShape
  <2>4. t = s.todo[1]
    BY <2>2, <2>3, TodoTail
  <2>5. RunShape("open", s, file, chef)
    BY <2>1, <2>2, <2>3 DEF RunShape
  <2>6. ASSUME alone[r]
        PROVE  Follows("open", s, file, before[r], chef)
    <3>1. CASE s.kind # "migrate"
      <4>1. /\ file.profiles = Old(before[r], s.answers) /\ t = Update(before[r], s.answers)
            /\ ~NewProfileFails(s.answers.url, s.answers.site, s.answers.client)
        BY <2>1, <2>2, <2>4, <2>6, <3>1 DEF Follows
      <4>2. new = Result(before[r], s.answers)
        BY <4>1 DEF Update, Result, Updated
      <4> QED
        BY <2>2, <3>1, <4>1, <4>2 DEF Follows
    <3>2. CASE s.kind = "migrate"
      <4>1. Migrating(chef, file.profiles, s.todo)
        BY <2>1, <2>2, <2>6, <3>2 DEF Follows
      <4>2. Migrating(chef, new, Tail(s.todo))
        BY <2>2, <2>3, <4>1, MigratingGoesOn
      <4> QED
        BY <2>2, <3>2, <4>2 DEF Follows
    <3> QED
      BY <3>1, <3>2
  <2>7. RunOK(r)'
    BY <1>1, <2>1, <2>5, <2>6 DEF RunOK, s
  <2> QED
    BY <1>1, <1>3, <2>1, <2>2, <2>7, Stays
<1> QED
  <2>1. CASE file.garbled
    BY <1>2, <2>1 DEF Decode
  <2>2. CASE ~file.garbled
    BY <1>3, <2>2 DEF Decode
  <2> QED
    BY <2>1, <2>2

LEMMA OpenStays ==
    ASSUME Undisturbed, NEW r \in Runs, OpenTruncate(r)
    PROVE  Undisturbed'
<1>1. /\ Go(r, "open", "chmod") /\ UNCHANGED run /\ "chmod" \in Places
      /\ Change(r, [NoFile EXCEPT !.exists = TRUE, !.mode = IF file.exists THEN file.mode ELSE "0600"])
  BY DEF OpenTruncate, Places
<1>2. /\ pc'[r] = "chmod" /\ RunShape("open", run[r], file, chef) /\ IsFile(file)
      /\ alone[r] => Follows("open", run[r], file, before[r], chef)
      /\ DOMAIN run = Runs /\ DOMAIN alone = Runs
  BY <1>1, Goes
<1>3. /\ file' = [NoFile EXCEPT !.exists = TRUE, !.mode = IF file.exists THEN file.mode ELSE "0600"]
      /\ UNCHANGED <<chef, before>> /\ (alone'[r] => alone[r])
  BY <1>1, <1>2 DEF Change
<1>4. /\ DOMAIN file' = DOMAIN NoFile /\ file'.exists = TRUE /\ file'.garbled = FALSE /\ file'.ours = FALSE
      /\ file'.mode = (IF file.exists THEN file.mode ELSE "0600") /\ file'.profiles = NoFile.profiles
  <2>1. /\ DOMAIN NoFile = {"exists", "garbled", "mode", "profiles", "ours"} /\ NoFile.garbled = FALSE /\ NoFile.ours = FALSE
    BY DEF NoFile
  <2> QED
    BY <1>3, <2>1
<1>5. IsFile(file')
  BY <1>2, <1>4 DEF IsFile
<1>6. RunShape("chmod", run[r], file', chef)
  BY <1>2, <1>4 DEF RunShape
<1>7. alone[r] => Follows("chmod", run[r], file', before[r], chef)
  BY <1>2, <1>4 DEF Follows
<1>8. RunOK(r)'
  BY <1>1, <1>2, <1>3, <1>6, <1>7 DEF RunOK
<1>9. Change(r, file')
  BY <1>1 DEF Change
<1> QED
  BY <1>1, <1>2, <1>3, <1>4, <1>5, <1>8, <1>9, Stays

LEMMA ChmodStays ==
    ASSUME Undisturbed, NEW r \in Runs, Chmod(r)
    PROVE  Undisturbed'
<1>1. Go(r, "chmod", "write") /\ UNCHANGED run /\ "write" \in Places /\ Change(r, [file EXCEPT !.mode = "0600"])
  BY DEF Chmod, Places
<1>2. /\ pc'[r] = "write" /\ RunShape("chmod", run[r], file, chef) /\ IsFile(file)
      /\ alone[r] => Follows("chmod", run[r], file, before[r], chef)
      /\ DOMAIN run = Runs /\ DOMAIN alone = Runs
  BY <1>1, Goes
<1>3. file' = [file EXCEPT !.mode = "0600"] /\ UNCHANGED <<chef, before>> /\ (alone'[r] => alone[r])
  BY <1>1, <1>2 DEF Change
<1>4. /\ DOMAIN file' = DOMAIN file /\ file'.exists = file.exists /\ file'.garbled = file.garbled /\ file'.ours = file.ours
      /\ file'.mode = "0600" /\ file'.profiles = file.profiles
  <2>1. DOMAIN file = {"exists", "garbled", "mode", "profiles", "ours"}
    BY <1>2 DEF IsFile, NoFile
  <2> QED
    BY <1>3, <2>1
<1>5. IsFile(file')
  BY <1>2, <1>4 DEF IsFile
<1>6. RunShape("write", run[r], file', chef)
  BY <1>2, <1>4 DEF RunShape
<1>7. alone[r] => Follows("write", run[r], file', before[r], chef)
  BY <1>2, <1>4 DEF Follows
<1>8. RunOK(r)'
  BY <1>1, <1>2, <1>3, <1>6, <1>7 DEF RunOK
<1>9. Change(r, file')
  BY <1>1 DEF Change
<1> QED
  BY <1>1, <1>2, <1>3, <1>4, <1>5, <1>8, <1>9, Stays

LEMMA WriteStays ==
    ASSUME Undisturbed, NEW r \in Runs, Write(r)
    PROVE  Undisturbed'
<1> DEFINE todo == run[r].todo  to == IF Len(todo) = 1 THEN "done" ELSE "decode"  s == run'[r]
<1>1. /\ Go(r, "write", to) /\ run' = [run EXCEPT ![r].todo = Tail(@), ![r].next = Idle.next]
      /\ to \in Places /\ to \in {"done", "decode"} /\ (to = "done" <=> Len(todo) = 1)
  BY DEF Write, Places
<1>2. PICK tail \in {FALSE, DOMAIN file.profiles # {} \/ file.garbled} :
          Change(r, [file EXCEPT !.profiles = IF tail THEN NoFile.profiles ELSE run[r].next,
                                 !.garbled = tail, !.ours = TRUE])
  BY DEF Write
<1> HIDE DEF to, todo
<1>3. /\ pc'[r] = to /\ RunShape("write", run[r], file, chef) /\ IsFile(file) /\ DOMAIN run[r] = DOMAIN Idle
      /\ alone[r] => Follows("write", run[r], file, before[r], chef)
      /\ DOMAIN run = Runs /\ DOMAIN alone = Runs
  BY <1>1, Goes
<1>4. /\ file' = [file EXCEPT !.profiles = IF tail THEN NoFile.profiles ELSE run[r].next, !.garbled = tail, !.ours = TRUE]
      /\ UNCHANGED <<chef, before>> /\ (alone'[r] => alone[r])
  BY <1>2, <1>3 DEF Change
<1>5. /\ DOMAIN file' = DOMAIN file /\ file'.exists = file.exists /\ file'.garbled = tail /\ file'.ours = TRUE
      /\ file'.mode = file.mode /\ file'.profiles = (IF tail THEN NoFile.profiles ELSE run[r].next)
  <2>1. DOMAIN file = {"exists", "garbled", "mode", "profiles", "ours"}
    BY <1>3 DEF IsFile, NoFile
  <2> QED
    BY <1>4, <2>1
<1>6. file.exists
  BY <1>3 DEF RunShape
<1>7. tail \in BOOLEAN
  BY <1>3 DEF IsFile
<1>8. IsFile(file')
  BY <1>3, <1>5, <1>6, <1>7 DEF IsFile
<1>9. /\ DOMAIN run' = Runs /\ \A q \in Runs \ {r} : run'[q] = run[q]
      /\ DOMAIN s = DOMAIN Idle /\ s.kind = run[r].kind /\ s.answers = run[r].answers /\ s.renamed = run[r].renamed
      /\ s.todo = Tail(todo)
  BY <1>1, <1>3 DEF Idle, todo
<1> HIDE DEF s
<1>10. /\ IsList(todo) /\ todo # <<>> /\ (s.kind # "migrate" => DOMAIN todo = {1})
       /\ s.kind \in {"create", "first run", "migrate"}
  BY <1>3, <1>9 DEF RunShape, todo
<1>11. /\ IsList(s.todo) /\ (to = "done" => s.todo = <<>>) /\ (to # "done" => s.todo # <<>>)
       /\ s.kind # "migrate" => to = "done"
  <2>1. /\ IsList(s.todo) /\ (DOMAIN todo = {1} => Len(todo) = 1) /\ (Len(todo) = 1 => s.todo = <<>>)
        /\ Len(todo) # 1 => s.todo # <<>>
    BY <1>9, <1>10, TodoTail
  <2> QED
    BY <1>1, <1>10, <2>1
<1>12. RunShape(to, s, file', chef)
  BY <1>1, <1>3, <1>9, <1>10, <1>11 DEF RunShape
<1>13. ASSUME alone[r]
       PROVE  Follows(to, s, file', before[r], chef)
  <2>1. file.profiles = NoFile.profiles /\ ~file.garbled /\ DOMAIN NoFile.profiles = {}
    BY <1>3, <1>13 DEF Follows, NoFile
  <2>2. ~tail /\ file'.profiles = run[r].next /\ ~file'.garbled
    BY <1>5, <2>1
  <2>3. CASE s.kind # "migrate"
    <3>1. run[r].next = Result(before[r], s.answers) /\ ~NewProfileFails(s.answers.url, s.answers.site, s.answers.client)
      BY <1>3, <1>9, <1>13, <2>3 DEF Follows
    <3> QED
      BY <1>11, <2>2, <2>3, <3>1 DEF Follows
  <2>4. CASE s.kind = "migrate"
    <3>1. Migrating(chef, run[r].next, s.todo)
      BY <1>3, <1>9, <1>13, <2>4 DEF Follows, todo
    <3>2. CASE to = "done"
      BY <1>11, <2>2, <2>4, <3>1, <3>2 DEF Follows
    <3>3. CASE to = "decode"
      BY <2>2, <2>4, <3>1, <3>3 DEF Follows
    <3> QED
      BY <1>1, <3>2, <3>3
  <2> QED
    BY <2>3, <2>4
<1>14. RunOK(r)'
  BY <1>3, <1>4, <1>12, <1>13 DEF RunOK, s
<1>15. Change(r, file')
  BY <1>2 DEF Change
<1> QED
  BY <1>1, <1>4, <1>5, <1>8, <1>9, <1>14, <1>15, Stays

LEMMA CrashStays ==
    ASSUME Undisturbed, NEW r \in Runs, Crash(r)
    PROVE  Undisturbed'
<1> DEFINE s == run'[r]
<1>1. /\ Go(r, pc[r], "crashed") /\ run' = [run EXCEPT ![r] = Idle] /\ UNCHANGED <<file, chef, before, alone>>
      /\ "crashed" \in Places
  BY DEF Crash, Go, Places
<1>2. /\ pc'[r] = "crashed" /\ IsFile(file) /\ DOMAIN run = Runs
  BY <1>1, Goes
<1>3. DOMAIN run' = Runs /\ s = Idle /\ \A q \in Runs \ {r} : run'[q] = run[q]
  BY <1>1, <1>2
<1>4. Idle.kind = "none" /\ ~Idle.renamed
  BY DEF Idle
<1>5. RunShape("crashed", Idle, file, chef) /\ Follows("crashed", Idle, file, before[r], chef)
  BY <1>4 DEF RunShape, Follows
<1>6. RunOK(r)'
  BY <1>1, <1>2, <1>3, <1>5 DEF RunOK
<1> QED
  BY <1>1, <1>2, <1>3, <1>6, Stays

LEMMA InitUndisturbed == ASSUME Init PROVE Undisturbed
<1>1. /\ pc = [r \in Runs |-> "idle"] /\ run = [r \in Runs |-> Idle]
      /\ before = [r \in Runs |-> NoFile] /\ alone = [r \in Runs |-> TRUE]
  BY DEF Init
<1>2. FilesAreFiles
  <2>1. IsFile(NoFile) /\ DOMAIN NoFile.profiles = {}
    BY DEF IsFile, NoFile
  <2>2. file \in FileSeeds /\ (chef = NoFile \/ chef \in ChefSeeds)
    BY DEF Init
  <2> QED
    BY <2>1, <2>2, SeedsAssumption, FS_EmptySet DEF FilesAreFiles
<1>3. ASSUME NEW r \in Runs
      PROVE  RunOK(r)
  <2>1. Idle.kind = "none" /\ ~Idle.renamed
    BY DEF Idle
  <2>2. RunShape("idle", Idle, file, chef) /\ Follows("idle", Idle, file, NoFile, chef)
    BY <2>1 DEF RunShape, Follows
  <2> QED
    BY <1>1, <2>2 DEF RunOK
<1> QED
  BY <1>1, <1>2, <1>3 DEF Undisturbed, Domains, Places

LEMMA StepUndisturbed == Undisturbed /\ [Next]_vars => Undisturbed'
<1> SUFFICES ASSUME Undisturbed, [Next]_vars PROVE Undisturbed'
  OBVIOUS
<1>1. ASSUME NEW r \in Runs, Step(r)
      PROVE  Undisturbed'
  BY <1>1, CreateWithFlagsStays, StartStays, MenuStays, ClearStays, LoadStays, MigrateStays, DecodeStays, OpenStays,
     ChmodStays, WriteStays, CrashStays DEF Step
<1>2. CASE UNCHANGED vars
  BY <1>2 DEF vars, Undisturbed, FilesAreFiles, Domains, RunOK
<1> QED
  BY <1>1, <1>2 DEF Next

LEMMA UndisturbedHolds == Spec => []Undisturbed
<1> QED
  BY InitUndisturbed, StepUndisturbed, PTL DEF Spec

\* What a run that has been alone has made of the file.
LEMMA ResultIsRight ==
    ASSUME Undisturbed, NEW r \in Runs, Fresh(r), run[r].kind # "migrate",
           NEW a, a = run[r].answers, NEW old, old = Old(before[r], a), NEW e, e = EntryOf(old, a.name)
    PROVE  /\ ~NewProfileFails(a.url, a.site, a.client)
           /\ DOMAIN file.profiles = DOMAIN old \cup {a.name}
           /\ \A n \in DOMAIN old \ {a.name} : file.profiles[n] = old[n]
           /\ file.profiles[a.name] = Updated(e, a)
           /\ run[r].renamed => a.name = "supermarket" /\ IsSupermarketOnly(a)
<1>1. RunShape("done", run[r], file, chef) /\ Follows("done", run[r], file, before[r], chef)
  BY DEF Undisturbed, RunOK, Fresh
<1>2. ~NewProfileFails(a.url, a.site, a.client) /\ file.profiles = Result(before[r], a)
  BY <1>1 DEF Follows
<1>3. file.profiles = Put(old, a.name, Updated(e, a))
  BY <1>2 DEF Result
<1>4. run[r].renamed => a.name = "supermarket" /\ IsSupermarketOnly(a)
  BY <1>1 DEF RunShape
<1> QED
  BY <1>2, <1>3, <1>4 DEF Put

\* A run that nobody disturbs updates its profile and no other, keeps the keys it does
\* not cover, has the copy of the URL that knife reads follow, and where cinc chose the
\* name, the supermarket commands find it (UpdateProfile, WriteProfile, createProfile).
THEOREM UpdatesAreRight == Spec => []UpdateIsRight
<1>1. Undisturbed => TypeOK
  <2> SUFFICES ASSUME Undisturbed PROVE TypeOK
    OBVIOUS
  <2>1. file.mode \in {"0600", "0644"} /\ file.garbled \in BOOLEAN /\ (file.garbled => DOMAIN file.profiles = {})
    BY DEF Undisturbed, FilesAreFiles, IsFile, NoFile
  <2>2. pc \in [Runs -> {"idle", "menu", "clear", "load", "migrate", "decode", "open", "chmod", "write",
                        "done", "failed", "declined", "crashed"}]
    BY DEF Undisturbed, Domains, Places
  <2>3. \A r \in Runs : pc[r] \in {"decode", "open", "chmod", "write"} => run[r].todo # <<>>
    BY DEF Undisturbed, RunOK, RunShape
  <2> QED
    BY <2>1, <2>2, <2>3 DEF TypeOK
<1>2. Undisturbed => UpdateIsLocal
  <2> SUFFICES ASSUME Undisturbed, NEW r \in Runs, Fresh(r), run[r].kind # "migrate"
               PROVE  LET a == run[r].answers
                          old == IF a.replace THEN NoFile.profiles ELSE before[r].profiles
                          p == Resolve(file.profiles[a.name])
                      IN  /\ DOMAIN file.profiles = DOMAIN old \cup {a.name}
                          /\ \A n \in DOMAIN old \ {a.name} : file.profiles[n] = old[n]
                          /\ \A key \in {"secret_file", Foreign} :
                                Get(file.profiles[a.name], key) = Get(EntryOf(old, a.name), key)
                          /\ p.client = a.client /\ p.ssl = a.ssl
                          /\ IsServerUrl(a.url) => p.server = a.url /\ p.site = a.site
                          /\ ~IsServerUrl(a.url) /\ a.url # Unset => p.site = a.url
    BY DEF UpdateIsLocal
  <2> DEFINE a == run[r].answers  old == Old(before[r], a)  e == EntryOf(old, a.name)
  <2>1. /\ ~NewProfileFails(a.url, a.site, a.client)
        /\ DOMAIN file.profiles = DOMAIN old \cup {a.name}
        /\ \A n \in DOMAIN old \ {a.name} : file.profiles[n] = old[n]
        /\ file.profiles[a.name] = Updated(e, a)
    BY ResultIsRight
  <2>2. old = IF a.replace THEN NoFile.profiles ELSE before[r].profiles
    BY DEF Old
  <2> HIDE DEF e, old, a
  <2>3. LET new == Updated(e, a)  p == Resolve(new) IN
           /\ \A key \in {"secret_file", Foreign} : Get(new, key) = Get(e, key)
           /\ p.client = a.client /\ p.ssl = a.ssl
           /\ IsServerUrl(a.url) => p.server = a.url /\ p.site = a.site
           /\ ~IsServerUrl(a.url) /\ a.url # Unset => p.site = a.url
    BY <2>1, UpdatedIsRight
  <2> QED
    BY <2>1, <2>2, <2>3 DEF e, a
<1>3. Undisturbed => KnifeFollows
  <2> SUFFICES ASSUME Undisturbed, NEW r \in Runs, Fresh(r), ~run[r].answers.replace, run[r].kind # "migrate"
               PROVE  LET name == run[r].answers.name
                          old == EntryOf(before[r].profiles, name)
                          new == file.profiles[name]
                      IN  /\ "chef_server_url" \in DOMAIN old <=> "chef_server_url" \in DOMAIN new
                          /\ {"cinc_server_url", "chef_server_url"} \subseteq DOMAIN new
                                => new["cinc_server_url"] = new["chef_server_url"]
    BY DEF KnifeFollows
  <2> DEFINE a == run[r].answers  e == EntryOf(Old(before[r], a), a.name)
  <2>1. ~NewProfileFails(a.url, a.site, a.client) /\ file.profiles[a.name] = Updated(e, a)
    BY ResultIsRight
  <2>2. e = EntryOf(before[r].profiles, a.name)
    BY DEF Old
  <2> HIDE DEF e, a
  <2>3. LET new == Updated(e, a) IN
           /\ "chef_server_url" \in DOMAIN e <=> "chef_server_url" \in DOMAIN new
           /\ {"cinc_server_url", "chef_server_url"} \subseteq DOMAIN new
                 => new["cinc_server_url"] = new["chef_server_url"]
    BY <2>1, UpdatedIsRight
  <2> QED
    BY <2>1, <2>2, <2>3 DEF a
<1>4. Undisturbed => RenamedIsFound
  <2> SUFFICES ASSUME Undisturbed, NEW r \in Runs, Fresh(r), run[r].renamed
               PROVE  LET picked == SupermarketProfile(file.profiles, Unset)
                      IN  picked \in DOMAIN file.profiles /\ Resolve(file.profiles[picked]).site = Public
    BY DEF RenamedIsFound
  <2> DEFINE a == run[r].answers  e == EntryOf(Old(before[r], a), a.name)
  <2>1. /\ ~NewProfileFails(a.url, a.site, a.client) /\ a.name \in DOMAIN file.profiles
        /\ file.profiles[a.name] = Updated(e, a) /\ a.name = "supermarket" /\ IsSupermarketOnly(a)
    <3>1. run[r].kind # "migrate"
      BY DEF Undisturbed, RunOK, RunShape
    <3> QED
      BY <3>1, ResultIsRight
  <2>2. Resolve(Updated(e, a)).site = Public
    BY <2>1, UpdatedIsRight
  <2> HIDE DEF a
  <2>3. SupermarketProfile(file.profiles, Unset) = "supermarket"
    BY <2>1 DEF SupermarketProfile
  <2> QED
    BY <2>1, <2>2, <2>3
<1> QED
  BY <1>1, <1>2, <1>3, <1>4, UndisturbedHolds, PTL DEF UpdateIsRight

\* A migration that nobody disturbs writes every profile of the knife file or fails
\* before the first, and each is read back as knife's is (MigrateChef).
THEOREM MigrationHolds == Spec => []MigrationIsWhole
<1>1. Undisturbed => MigrationIsWhole
  <2> SUFFICES ASSUME Undisturbed, NEW r \in Runs, run[r].kind = "migrate", alone[r]
               PROVE  /\ pc[r] = "failed" => file = before[r]
                      /\ Fresh(r) =>
                          /\ DOMAIN file.profiles = DOMAIN chef.profiles
                          /\ \A n \in DOMAIN chef.profiles :
                                /\ Resolve(file.profiles[n]) = Resolve(chef.profiles[n])
                                /\ Get(file.profiles[n], Foreign) = Get(chef.profiles[n], Foreign)
    BY DEF MigrationIsWhole
  <2>1. Follows(pc[r], run[r], file, before[r], chef)
    BY DEF Undisturbed, RunOK
  <2>2. pc[r] = "failed" => file = before[r]
    BY <2>1 DEF Follows
  <2>3. Fresh(r) => Migrating(chef, file.profiles, <<>>)
    BY <2>1 DEF Follows, Fresh
  <2>4. DOMAIN << >> = {}
    OBVIOUS
  <2>5. Fresh(r) => DOMAIN file.profiles = DOMAIN chef.profiles
    BY <2>3, <2>4 DEF Migrating
  <2>6. Fresh(r) => \A n \in DOMAIN file.profiles : Same(file.profiles[n], chef.profiles[n])
    BY <2>3 DEF Migrating
  <2> QED
    BY <2>2, <2>5, <2>6 DEF Same
<1> QED
  BY <1>1, UndisturbedHolds, PTL
=============================================================================
