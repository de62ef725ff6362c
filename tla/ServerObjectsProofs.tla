------------------------ MODULE ServerObjectsProofs ------------------------
(***************************************************************************)
(* Proofs about ServerObjects: what any command writes, says and delivers,  *)
(* whatever runs beside it and whatever fails.                              *)
(*                                                                         *)
(* A run is a list of steps being worked off, so the invariant speaks of    *)
(* what is left of the list: what each later step needs is either so now    *)
(* and will not be undone, or will be made so by a step before it.  Such a   *)
(* statement survives the first step of the list being taken, and holds of   *)
(* the whole list of every command.                                         *)
(*                                                                         *)
(* The second half (Truthful) is the same of what the command is there to   *)
(* do: either its effect is on the server, unless somebody else has written *)
(* there since, or a step that will bring it about is still to come.        *)
(***************************************************************************)
EXTENDS ServerObjects, FiniteSetTheorems, TLAPS

IsList(left) == \E n \in Nat : DOMAIN left = 1..n /\ left = [i \in 1..n |-> left[i]]

\* Nothing of `later` comes after something of `earlier`.
Before(left, earlier, later) ==
    \A j, k \in DOMAIN left : j < k /\ left[j] \in earlier => left[k] \notin later

\* Every user of a fact finds it: it is so now, or made so by an earlier step, and
\* no step in between spoils it.
Settled(left, ok, users, setters, spoilers) ==
    \A j \in DOMAIN left : left[j] \in users =>
        \/ ok /\ \A k \in DOMAIN left : k < j => left[k] \notin spoilers
        \/ \E k \in DOMAIN left : /\ k < j /\ left[k] \in setters
                                  /\ \A m \in DOMAIN left : k < m /\ m < j => left[m] \notin spoilers

\* The same of a user at the end of the list.
Delivered(left, ok, setters, spoilers) ==
    \/ ok /\ \A k \in DOMAIN left : left[k] \notin spoilers
    \/ \E k \in DOMAIN left : left[k] \in setters /\ \A m \in DOMAIN left : k < m => left[m] \notin spoilers
-----------------------------------------------------------------------------
(* The kinds of steps                                                      *)

Permissions == Range(AllPerms)
ObjectSteps == {"put", "post", "erase", "dropkey", "newkey"}
Writers == ObjectSteps \cup {"postbag", "upload"} \cup Permissions
\* What gives up without an error of a request.
Refusers(c) ==
    {"check", "prompt", "flags", "profile", "connect", "secret", "site", "identity", "file", "itemfile", "editor",
     "itemeditor", "compare", "seal", "ask", "hosts", "readacl", "locate", "pack"}
    \cup (IF "dryRun" \in c.opts THEN {"script"} ELSE {})
KeySteps == {"openkey", "chmodkey", "writekey"}

\* The document carries the name the command was given: who needs it, who sees to it.
NameUsers(c) ==
    {"post"} \cup (IF c.noun = "key" THEN {} ELSE {"put"}) \cup (IF c.verb = "share" THEN {"upload"} ELSE {})
NameSetters == {"pin", "blank", "stub", "get", "unseal", "itemfile", "pack", "itemeditor", "change"}
NameSpoilers == {"file", "editor", "locate"}
ReadUsers == {"itemeditor", "change"}
ReadSetters == {"blank", "stub", "get", "unseal"}
\* What replaces the document; the name of a cookbook comes from its metadata.
DocSteps == {"file", "itemfile", "blank", "stub", "editor", "itemeditor", "change", "get", "unseal", "pack", "locate"}
\* A key is made; it is handed over.
Makers(c) ==
    {"genkey", "newkey"} \cup (IF c.noun = "key" THEN {"put"} ELSE {})
    \cup (IF c.noun \in {"client", "user", "key", "org"} /\ "publicKey" \notin c.opts THEN {"post"} ELSE {})
Carriers == {"emit", "session", "writekey"}

\* What a step asks of the command it is a step of.
Fits(c, step) ==
    /\ step \in ObjectSteps \cup {"session"} => Target(c) \in MayWrite(c) /\ c.verb \notin {"upload", "install"}
    /\ step = "postbag" => c.noun = "item" /\ c.verb = "create" /\ <<"databag", None, c.scope>> \in MayWrite(c)
    /\ step = "upload" => \/ c.verb \in {"upload", "install"} /\ c.noun = "cookbook" /\ MayWrite(c) = {x \in Objects : x[1] = "cookbook"}
                          \/ c.verb = "share" /\ c.noun = "shared" /\ c.scope = None /\ Target(c) \in MayWrite(c)
    /\ step \in Permissions => c.noun = "acl" /\ <<"acl", c.scope, step>> \in MayWrite(c)
    /\ step \in {"get", "unseal"} => Target(c) \in Objects
    /\ step = "newkey" => c.noun = "key" /\ c.name = "default"
    /\ step = "readacl" => c.noun = "acl" /\ c.perms \in Seq(Permissions) /\ \A i \in DOMAIN c.perms : <<"acl", c.scope, c.perms[i]>> \in MayWrite(c)
    /\ c.noun = "acl" => step \in {"check", "connect", "list", "search", "readacl"} \cup Permissions
    /\ "secret" \in c.opts => c.noun = "item" /\ step \notin Writers \ {"put", "post"}

\* How the steps of a command are ordered.
Ordered(c, left) ==
    /\ IsList(left)
    /\ \A j \in DOMAIN left : left[j] \in Steps \cup Permissions /\ Fits(c, left[j])
    /\ \A j, k \in DOMAIN left : j < k => left[j] \notin {"emit", "listorgs", "readacl"}
    /\ c.verb # "upload" => /\ Before(left, Writers, Refusers(c))
                            /\ Before(left, Writers, {"postbag", "upload"})
    /\ \A j \in DOMAIN left : left[j] \in KeySteps =>
          left \in {<<"openkey", "chmodkey", "writekey">>, <<"chmodkey", "writekey">>, <<"writekey">>}

\* What later steps need, of a run that has got as far as s.
Answered(s) == s.key = NoKey \/ s.shown = s.key
Named(s) == Settled(s.left, s.doc.name = s.cmd.name, NameUsers(s.cmd), NameSetters, NameSpoilers)
ReadNamed(s) == Settled(s.left, s.read.name = s.cmd.name, ReadUsers, ReadSetters, {})
Located(s) == s.cmd.noun = "cookbook" => Settled(s.left, s.doc.name \in Names, {"upload"}, {"locate"}, DocSteps \cup {"pin", "backfill"})
Sealing(s) == "secret" \in s.cmd.opts => Settled(s.left, s.doc.sealed = 1, {"put", "post"}, {"seal"}, DocSteps)
KeyGoesOut(s) == s.out \in {"running", "ok"} => Delivered(s.left, Answered(s), Carriers, Makers(s.cmd))

\* A run, whatever the server holds.
Shape(s) ==
    /\ DOMAIN s = DOMAIN Idle
    /\ s.out \in Outs /\ (s.left = <<>> <=> s.out # "running")
    /\ {s.key, s.shown} \subseteq Runs \cup {NoKey}
    /\ s.wrote \cup s.told \cup s.others \subseteq Objects
    /\ s.cmd.noun # "acl" => IsDoc(s.doc) /\ IsDoc(s.read)
Quiet(s) ==
    s.cmd.verb # "upload" =>
        /\ s.wrote # {} => \A j \in DOMAIN s.left : s.left[j] \notin Refusers(s.cmd) \cup {"postbag", "upload"}
        /\ s.out \in {"refused", "declined", "unchanged"} => s.wrote = {}
\* What was obeyed and is not said.
Doubt(s) == s.wrote \ s.told
Accounted(s) ==
    /\ s.wrote \subseteq MayWrite(s.cmd) /\ MayWrite(s.cmd) \subseteq Objects
    /\ s.cmd.verb # "upload" => \E x : Doubt(s) \subseteq {x}
    /\ s.cmd.verb # "upload" /\ s.out = "running" => 
          Doubt(s) \subseteq IF s.cmd.noun = "acl" THEN {} ELSE IF s.cmd.verb = "install" THEN Objects ELSE {Target(s.cmd)}
Sound(s) ==
    /\ Shape(s) /\ Ordered(s.cmd, s.left) /\ Quiet(s) /\ Accounted(s)
    /\ Named(s) /\ ReadNamed(s) /\ Located(s) /\ Sealing(s) /\ KeyGoesOut(s)

\* The server keeps a document under its name.
Kept(x, d) == IsDoc(d) /\ (d # Gone /\ x[1] # "acl" => d.name = x[3])
ServerSound == DOMAIN server = Objects /\ \A x \in Objects : Kept(x, server[x])
DiskSound ==
    /\ disk.key \in Runs \cup {NoKey} /\ disk.mode \in {"0600", "0644"} /\ host \in Runs \cup {NoKey}
    /\ disk.key # NoKey \/ (\E r \in Runs : run[r].left = <<"writekey">>) => disk.mode = "0600"
RunsSound == DOMAIN run = Runs /\ \A r \in Runs : Sound(run[r])
IInv == ServerSound /\ DiskSound /\ RunsSound
-----------------------------------------------------------------------------
(* Lemmas about lists                                                      *)

\* The list without its first step is the list moved up by one.
LEMMA ListTail ==
    ASSUME NEW s, IsList(s), s # <<>>
    PROVE  /\ IsList(Tail(s)) /\ Head(s) = s[1]
           /\ Len(s) \in Nat \ {0} /\ DOMAIN s = 1..Len(s) /\ DOMAIN Tail(s) = 1..(Len(s) - 1)
           /\ \A i \in 1..(Len(s) - 1) : Tail(s)[i] = s[i + 1]
           /\ Tail(s) = <<>> <=> Len(s) = 1
<1>1. PICK n \in Nat : DOMAIN s = 1..n /\ s = [i \in 1..n |-> s[i]]
  BY DEF IsList
<1>2. n # 0 /\ Len(s) = n
  BY <1>1
<1>3. DOMAIN Tail(s) = 1..(n - 1) /\ \A i \in 1..(n - 1) : Tail(s)[i] = s[i + 1]
  BY <1>1, <1>2
<1>4. Tail(s) = [i \in 1..(n - 1) |-> Tail(s)[i]] /\ Head(s) = s[1]
  BY <1>1, <1>2
<1>5. IsList(Tail(s))
  BY <1>2, <1>3, <1>4 DEF IsList
<1>6. n = 1 => Tail(s) = <<>>
  BY <1>1
<1>7. n # 1 => Tail(s) # <<>>
  BY <1>1, <1>2
<1> QED
  BY <1>1, <1>2, <1>3, <1>4, <1>5, <1>6, <1>7

\* An order that holds in a list holds in its tail.
LEMMA TailBefore ==
    ASSUME NEW s, IsList(s), s # <<>>, NEW A, NEW B, Before(s, A, B)
    PROVE  Before(Tail(s), A, B)
<1> SUFFICES ASSUME NEW j \in DOMAIN Tail(s), NEW k \in DOMAIN Tail(s), j < k, Tail(s)[j] \in A
             PROVE  Tail(s)[k] \notin B
  BY DEF Before
<1>1. j + 1 \in DOMAIN s /\ k + 1 \in DOMAIN s /\ j + 1 < k + 1 /\ s[j + 1] = Tail(s)[j] /\ s[k + 1] = Tail(s)[k]
  BY ListTail
<1> QED
  BY <1>1 DEF Before

\* A settled fact stays settled, if the step taken makes it so or does not spoil it.
LEMMA TailSettled ==
    ASSUME NEW s, IsList(s), s # <<>>, NEW ok \in BOOLEAN, NEW after \in BOOLEAN, NEW U, NEW S, NEW P,
           Settled(s, ok, U, S, P), s[1] \in S \/ (ok /\ s[1] \notin P) => after
    PROVE  Settled(Tail(s), after, U, S, P)
<1> SUFFICES ASSUME NEW j \in DOMAIN Tail(s), Tail(s)[j] \in U
             PROVE  \/ after /\ \A k \in DOMAIN Tail(s) : k < j => Tail(s)[k] \notin P
                    \/ \E k \in DOMAIN Tail(s) : /\ k < j /\ Tail(s)[k] \in S
                                                 /\ \A m \in DOMAIN Tail(s) : k < m /\ m < j => Tail(s)[m] \notin P
  BY DEF Settled
<1>1. \A i \in DOMAIN Tail(s) : i \in Nat \ {0} /\ i + 1 \in DOMAIN s /\ s[i + 1] = Tail(s)[i]
  BY ListTail
<1>2. 1 \in DOMAIN s /\ \A i \in DOMAIN s : i = 1 \/ (i - 1 \in DOMAIN Tail(s) /\ s[i] = Tail(s)[i - 1])
  BY ListTail
<1>3. DOMAIN s \subseteq Nat \ {0}
  BY ListTail
<1>4. CASE ok /\ \A k \in DOMAIN s : k < j + 1 => s[k] \notin P
  <2>1. after
    BY <1>1, <1>2, <1>4
  <2>2. \A k \in DOMAIN Tail(s) : k < j => Tail(s)[k] \notin P
    BY <1>1, <1>4
  <2> QED
    BY <2>1, <2>2
<1>5. ASSUME NEW k \in DOMAIN s, k < j + 1, s[k] \in S, \A m \in DOMAIN s : k < m /\ m < j + 1 => s[m] \notin P
      PROVE  \/ after /\ \A i \in DOMAIN Tail(s) : i < j => Tail(s)[i] \notin P
             \/ \E i \in DOMAIN Tail(s) : /\ i < j /\ Tail(s)[i] \in S
                                          /\ \A m \in DOMAIN Tail(s) : i < m /\ m < j => Tail(s)[m] \notin P
  <2>1. CASE k = 1
    <3>1. \A i \in DOMAIN Tail(s) : i < j => Tail(s)[i] \notin P
      BY <1>1, <1>3, <1>5, <2>1
    <3> QED
      BY <1>5, <2>1, <3>1
  <2>2. CASE k # 1
    <3>1. k - 1 \in DOMAIN Tail(s) /\ k - 1 < j /\ Tail(s)[k - 1] \in S
      BY <1>1, <1>2, <1>3, <1>5, <2>2
    <3>2. \A m \in DOMAIN Tail(s) : k - 1 < m /\ m < j => Tail(s)[m] \notin P
      BY <1>1, <1>3, <1>5
    <3> QED
      BY <3>1, <3>2
  <2> QED
    BY <2>1, <2>2
<1>6. j + 1 \in DOMAIN s /\ s[j + 1] \in U
  BY <1>1
<1>7. \/ ok /\ \A k \in DOMAIN s : k < j + 1 => s[k] \notin P
      \/ \E k \in DOMAIN s : /\ k < j + 1 /\ s[k] \in S
                             /\ \A m \in DOMAIN s : k < m /\ m < j + 1 => s[m] \notin P
  BY <1>6 DEF Settled
<1> QED
  BY <1>4, <1>5, <1>7

\* The step about to be taken finds what it needs.
LEMMA HeadSettled ==
    ASSUME NEW s, IsList(s), s # <<>>, NEW ok \in BOOLEAN, NEW U, NEW S, NEW P,
           Settled(s, ok, U, S, P), s[1] \in U
    PROVE  ok
<1>1. 1 \in DOMAIN s /\ \A k \in DOMAIN s : ~(k < 1)
  BY ListTail
<1> QED
  BY <1>1 DEF Settled

LEMMA TailDelivered ==
    ASSUME NEW s, IsList(s), s # <<>>, NEW ok \in BOOLEAN, NEW after \in BOOLEAN, NEW S, NEW P,
           Delivered(s, ok, S, P), s[1] \in S \/ (ok /\ s[1] \notin P) => after
    PROVE  Delivered(Tail(s), after, S, P)
<1>1. \A i \in DOMAIN Tail(s) : i \in Nat \ {0} /\ i + 1 \in DOMAIN s /\ s[i + 1] = Tail(s)[i]
  BY ListTail
<1>2. 1 \in DOMAIN s /\ \A i \in DOMAIN s : i = 1 \/ (i - 1 \in DOMAIN Tail(s) /\ s[i] = Tail(s)[i - 1])
  BY ListTail
<1>3. DOMAIN s \subseteq Nat \ {0}
  BY ListTail
<1>4. CASE ok /\ \A k \in DOMAIN s : s[k] \notin P
  BY <1>1, <1>2, <1>4 DEF Delivered
<1>5. ASSUME NEW k \in DOMAIN s, s[k] \in S, \A m \in DOMAIN s : k < m => s[m] \notin P
      PROVE  Delivered(Tail(s), after, S, P)
  <2>1. CASE k = 1
    <3>1. \A i \in DOMAIN Tail(s) : Tail(s)[i] \notin P
      BY <1>1, <1>3, <1>5, <2>1
    <3> QED
      BY <1>5, <2>1, <3>1 DEF Delivered
  <2>2. CASE k # 1
    <3>1. k - 1 \in DOMAIN Tail(s) /\ Tail(s)[k - 1] \in S
      BY <1>2, <1>5, <2>2
    <3>2. \A m \in DOMAIN Tail(s) : k - 1 < m => Tail(s)[m] \notin P
      BY <1>1, <1>3, <1>5
    <3> QED
      BY <3>1, <3>2 DEF Delivered
  <2> QED
    BY <2>1, <2>2
<1> QED
  BY <1>4, <1>5 DEF Delivered
-----------------------------------------------------------------------------
(* The commands                                                            *)

\* What holds of a command before its first step.
Ready(c) ==
    /\ c.steps # <<>> /\ Ordered(c, c.steps) /\ \A j \in DOMAIN c.steps : c.steps[j] \notin KeySteps
    /\ Settled(c.steps, FALSE, NameUsers(c), NameSetters, NameSpoilers)
    /\ Settled(c.steps, FALSE, ReadUsers, ReadSetters, {})
    /\ c.noun = "cookbook" => Settled(c.steps, FALSE, {"upload"}, {"locate"}, DocSteps \cup {"pin", "backfill"})
    /\ "secret" \in c.opts => Settled(c.steps, FALSE, {"put", "post"}, {"seal"}, DocSteps)
    /\ Delivered(c.steps, TRUE, Carriers, Makers(c))

\* The objects a command addresses are among Objects.
Addressed(c) ==
    MayWrite(c) \subseteq Objects /\ (Range(c.steps) \cap {"get", "unseal"} # {} => Target(c) \in Objects)


\* The commands are made of few lists.  What is said of a list by itself:
\* who uses a name finds the right one, and a key made by one of the makers goes out.
Well(left, users, makers) ==
    /\ IsList(left) /\ left # <<>>
    /\ \A j \in DOMAIN left : left[j] \in Steps \ KeySteps
    /\ Before(left, {"emit", "listorgs", "readacl"}, Steps)
    /\ Before(left, Writers \ Permissions, Refusers(Nothing))
    /\ Before(left, Writers \ Permissions, {"postbag", "upload"})
    /\ Settled(left, FALSE, users, NameSetters, NameSpoilers)
    /\ Settled(left, FALSE, ReadUsers, ReadSetters, {})
    /\ Delivered(left, TRUE, Carriers, makers)

ReadingLists ==
    {<<"check", "connect", "get">>, <<"check", "connect", "list">>, <<"check", "connect", "search">>,
     <<"check", "connect", "listorgs">>, <<"check", "prompt">>, <<"check", "prompt", "connect", "hosts">>,
     <<"check", "prompt", "flags", "profile", "script">>, <<"check", "secret", "connect", "unseal">>,
     <<"connect", "get", "save">>, <<"check", "site", "cookbooks">>, <<"check", "site", "cookbooks", "universe">>,
     <<"check", "site", "check", "matches">>, <<"check", "site", "check", "matches", "universe">>,
     <<"check", "site", "record">>, <<"check", "pack">>, <<"check", "connect", "readacl">>}
KeyLists ==
    {<<"connect", "erase">>, <<"connect", "ask", "erase">>, <<"connect", "check", "blank", "post", "emit">>,
     <<"connect", "blank", "post", "emit">>, <<"connect", "dropkey", "newkey", "emit">>,
     <<"check", "prompt", "flags", "profile", "connect", "genkey", "blank", "post", "script", "session">>,
     <<"check", "profile", "identity", "pack", "upload">>, <<"check", "profile", "identity", "category", "pack", "upload">>}
KeyEditLists ==
    {<<"connect", "file", "backfill", "put", "emit">>,
     <<"connect", "get", "editor", "compare", "backfill", "put", "emit">>}
InstallLists ==
    {<<"check", "connect", "site", "record", "download", "locate", "upload">>,
     <<"connect", "site", "record", "download", "locate", "upload">>}
EditLists ==
    {<<"connect", "file", "pin", "put">>, <<"connect", "get", "editor", "compare", "pin", "put">>,
     <<"connect", "prompt", "get", "change", "put">>, <<"check", "connect", "get", "change", "compare", "put", "readback">>,
     <<"connect", "get", "editor", "pin", "compare", "put">>, <<"check", "connect", "get", "change", "compare", "put">>,
     <<"connect", "get", "change", "compare", "put">>, <<"connect", "itemfile", "put">>,
     <<"connect", "get", "itemeditor", "compare", "put">>}
SecretEditLists ==
    {<<"secret", "connect", "itemfile", "seal", "put">>,
     <<"secret", "connect", "unseal", "itemeditor", "compare", "seal", "put">>}
CreateLists ==
    {<<"connect", "file", "pin", "post">>, <<"connect", "blank", "post">>, <<"check", "connect", "file", "pin", "post">>,
     <<"check", "connect", "blank", "post">>, <<"connect", "itemfile", "postbag", "post">>,
     <<"connect", "stub", "itemeditor", "postbag", "post">>, <<"connect", "itemfile", "post">>,
     <<"connect", "stub", "itemeditor", "post">>}
SecretCreateLists ==
    {<<"secret", "connect", "itemfile", "seal", "post">>, <<"secret", "connect", "stub", "itemeditor", "seal", "post">>}

LEMMA ListsAreWell ==
    /\ \A left \in ReadingLists \cup KeyLists : Well(left, {"put", "post", "upload"}, {"genkey", "newkey", "put", "post"})
    /\ \A left \in KeyEditLists : Well(left, {"post"}, {"genkey", "newkey", "put", "post"})
    /\ \A left \in InstallLists : Well(left, {"put", "post"}, {"genkey", "newkey", "put", "post"})
    /\ \A left \in EditLists \cup SecretEditLists : Well(left, {"put", "post", "upload"}, {"genkey", "newkey", "post"})
    /\ \A left \in CreateLists \cup SecretCreateLists : Well(left, {"put", "post", "upload"}, {"genkey", "newkey"})
<1> USE DEF Well, IsList, Before, Settled, Delivered, KeySteps, Steps, Writers, ObjectSteps, Refusers,
            NameSetters, NameSpoilers, ReadUsers, ReadSetters, Carriers, Nothing, Plain, Command
<1>1. \A left \in ReadingLists \cup KeyLists : Well(left, {"put", "post", "upload"}, {"genkey", "newkey", "put", "post"})
  <2> DEFINE W(left) == Well(left, {"put", "post", "upload"}, {"genkey", "newkey", "put", "post"})
  <2>1. /\ W(<<"check", "connect", "get">>)
       /\ W(<<"check", "connect", "list">>)
       /\ W(<<"check", "connect", "search">>)
       /\ W(<<"check", "connect", "listorgs">>)
    OBVIOUS
  <2>2. /\ W(<<"check", "prompt">>)
       /\ W(<<"check", "prompt", "connect", "hosts">>)
       /\ W(<<"check", "prompt", "flags", "profile", "script">>)
       /\ W(<<"check", "secret", "connect", "unseal">>)
    OBVIOUS
  <2>3. /\ W(<<"connect", "get", "save">>)
       /\ W(<<"check", "site", "cookbooks">>)
       /\ W(<<"check", "site", "cookbooks", "universe">>)
       /\ W(<<"check", "site", "check", "matches">>)
    OBVIOUS
  <2>4. /\ W(<<"check", "site", "check", "matches", "universe">>)
       /\ W(<<"check", "site", "record">>)
       /\ W(<<"check", "pack">>)
       /\ W(<<"check", "connect", "readacl">>)
    OBVIOUS
  <2>5. /\ W(<<"connect", "erase">>)
       /\ W(<<"connect", "ask", "erase">>)
       /\ W(<<"connect", "check", "blank", "post", "emit">>)
       /\ W(<<"connect", "blank", "post", "emit">>)
    OBVIOUS
  <2>6. /\ W(<<"connect", "dropkey", "newkey", "emit">>)
       /\ W(<<"check", "prompt", "flags", "profile", "connect", "genkey", "blank", "post", "script", "session">>)
       /\ W(<<"check", "profile", "identity", "pack", "upload">>)
       /\ W(<<"check", "profile", "identity", "category", "pack", "upload">>)
    OBVIOUS
  <2> HIDE DEF Well, W
  <2>7. \A left \in ReadingLists \cup KeyLists : W(left)
    BY <2>1, <2>2, <2>3, <2>4, <2>5, <2>6 DEF ReadingLists, KeyLists
  <2> QED
    BY <2>7 DEF W
<1>2. \A left \in KeyEditLists : Well(left, {"post"}, {"genkey", "newkey", "put", "post"})
  <2> DEFINE W(left) == Well(left, {"post"}, {"genkey", "newkey", "put", "post"})
  <2>1. /\ W(<<"connect", "file", "backfill", "put", "emit">>)
       /\ W(<<"connect", "get", "editor", "compare", "backfill", "put", "emit">>)
    OBVIOUS
  <2> HIDE DEF Well, W
  <2>2. \A left \in KeyEditLists : W(left)
    BY <2>1 DEF KeyEditLists
  <2> QED
    BY <2>2 DEF W
<1>3. \A left \in InstallLists : Well(left, {"put", "post"}, {"genkey", "newkey", "put", "post"})
  <2> DEFINE W(left) == Well(left, {"put", "post"}, {"genkey", "newkey", "put", "post"})
  <2>1. /\ W(<<"check", "connect", "site", "record", "download", "locate", "upload">>)
       /\ W(<<"connect", "site", "record", "download", "locate", "upload">>)
    OBVIOUS
  <2> HIDE DEF Well, W
  <2>2. \A left \in InstallLists : W(left)
    BY <2>1 DEF InstallLists
  <2> QED
    BY <2>2 DEF W
<1>4. \A left \in EditLists \cup SecretEditLists : Well(left, {"put", "post", "upload"}, {"genkey", "newkey", "post"})
  <2> DEFINE W(left) == Well(left, {"put", "post", "upload"}, {"genkey", "newkey", "post"})
  <2>1. /\ W(<<"connect", "file", "pin", "put">>)
       /\ W(<<"connect", "get", "editor", "compare", "pin", "put">>)
       /\ W(<<"connect", "prompt", "get", "change", "put">>)
       /\ W(<<"check", "connect", "get", "change", "compare", "put", "readback">>)
    OBVIOUS
  <2>2. /\ W(<<"connect", "get", "editor", "pin", "compare", "put">>)
       /\ W(<<"check", "connect", "get", "change", "compare", "put">>)
       /\ W(<<"connect", "get", "change", "compare", "put">>)
       /\ W(<<"connect", "itemfile", "put">>)
    OBVIOUS
  <2>3. /\ W(<<"connect", "get", "itemeditor", "compare", "put">>)
       /\ W(<<"secret", "connect", "itemfile", "seal", "put">>)
       /\ W(<<"secret", "connect", "unseal", "itemeditor", "compare", "seal", "put">>)
    OBVIOUS
  <2> HIDE DEF Well, W
  <2>4. \A left \in EditLists \cup SecretEditLists : W(left)
    BY <2>1, <2>2, <2>3 DEF EditLists, SecretEditLists
  <2> QED
    BY <2>4 DEF W
<1>5. \A left \in CreateLists \cup SecretCreateLists : Well(left, {"put", "post", "upload"}, {"genkey", "newkey"})
  <2> DEFINE W(left) == Well(left, {"put", "post", "upload"}, {"genkey", "newkey"})
  <2>1. /\ W(<<"connect", "file", "pin", "post">>)
       /\ W(<<"connect", "blank", "post">>)
       /\ W(<<"check", "connect", "file", "pin", "post">>)
       /\ W(<<"check", "connect", "blank", "post">>)
    OBVIOUS
  <2>2. /\ W(<<"connect", "itemfile", "postbag", "post">>)
       /\ W(<<"connect", "stub", "itemeditor", "postbag", "post">>)
       /\ W(<<"connect", "itemfile", "post">>)
       /\ W(<<"connect", "stub", "itemeditor", "post">>)
    OBVIOUS
  <2>3. /\ W(<<"secret", "connect", "itemfile", "seal", "post">>)
       /\ W(<<"secret", "connect", "stub", "itemeditor", "seal", "post">>)
    OBVIOUS
  <2> HIDE DEF Well, W
  <2>4. \A left \in CreateLists \cup SecretCreateLists : W(left)
    BY <2>1, <2>2, <2>3 DEF CreateLists, SecretCreateLists
  <2> QED
    BY <2>4 DEF W
<1> QED
  BY <1>1, <1>2, <1>3, <1>4, <1>5

LEMMA FewerSpoilers ==
    ASSUME NEW s, NEW S, NEW P, NEW Q, P \subseteq Q, Delivered(s, TRUE, S, Q)
    PROVE  Delivered(s, TRUE, S, P)
  BY DEF Delivered
LEMMA FewerUsers ==
    ASSUME NEW s, NEW S, NEW P, NEW U, NEW V, U \subseteq V, Settled(s, FALSE, V, S, P)
    PROVE  Settled(s, FALSE, U, S, P)
  BY DEF Settled

\* What is left to show of a command, when its list is one of those above.
Fitting(c) == \A j \in DOMAIN c.steps : Fits(c, c.steps[j])
LEMMA WellIsReady ==
    ASSUME NEW c, NEW users, NEW makers, Well(c.steps, users, makers), Fitting(c),
           NameUsers(c) \subseteq users, Makers(c) \subseteq makers,
           "dryRun" \in c.opts => \A j \in DOMAIN c.steps : c.steps[j] \notin Writers,
           c.noun = "cookbook" => Settled(c.steps, FALSE, {"upload"}, {"locate"}, DocSteps \cup {"pin", "backfill"}),
           "secret" \in c.opts => Settled(c.steps, FALSE, {"put", "post"}, {"seal"}, DocSteps)
    PROVE  Ready(c)
<1> DEFINE s == c.steps
<1>1. \A j \in DOMAIN s : s[j] \in Steps /\ s[j] \notin KeySteps /\ s[j] \notin Permissions /\ Fits(c, s[j])
  BY PermsAssumption DEF Well, Permissions, Fitting
<1>2. \A j, k \in DOMAIN s : j < k => s[j] \notin {"emit", "listorgs", "readacl"}
  BY <1>1 DEF Well, Before
<1>3. Before(s, Writers, Refusers(c))
  <2>1. CASE "dryRun" \in c.opts
    BY <2>1 DEF Before
  <2>2. CASE "dryRun" \notin c.opts
    <3>1. Refusers(c) = Refusers(Nothing)
      BY <2>2 DEF Refusers, Nothing, Plain, Command
    <3> QED
      BY <1>1, <3>1 DEF Before, Well
  <2> QED
    BY <2>1, <2>2
<1>4. Before(s, Writers, {"postbag", "upload"})
  BY <1>1 DEF Before, Well
<1>5. Ordered(c, s)
  BY <1>1, <1>2, <1>3, <1>4 DEF Ordered, Well
<1>6. Settled(s, FALSE, NameUsers(c), NameSetters, NameSpoilers) /\ Delivered(s, TRUE, Carriers, Makers(c))
  BY FewerUsers, FewerSpoilers DEF Well
<1> QED
  BY <1>1, <1>5, <1>6 DEF Ready, Well

\* A step that is not one of the few that ask for more fits any command on an object.
LEMMA FitsOwn ==
    ASSUME NEW c, c.noun # "acl", "secret" \notin c.opts, Addressed(c),
           \A j \in DOMAIN c.steps : c.steps[j] \in Steps \ {"postbag", "upload", "newkey", "readacl"},
           \/ Target(c) \in MayWrite(c) /\ c.verb \notin {"upload", "install"}
           \/ \A j \in DOMAIN c.steps : c.steps[j] \notin ObjectSteps \cup {"session"}
    PROVE  Fitting(c)
<1> SUFFICES ASSUME NEW j \in DOMAIN c.steps
             PROVE  Fits(c, c.steps[j])
  BY DEF Fitting
<1>1. c.steps[j] \in {"get", "unseal"} => Target(c) \in Objects
  BY DEF Addressed, Range
<1>2. c.steps[j] \notin Permissions
  BY PermsAssumption DEF Permissions
<1> QED
  BY <1>1, <1>2 DEF Fits

LEMMA ReadingReady ==
    ASSUME NEW c, Addressed(c), "secret" \notin c.opts, c.steps \in ReadingLists, \A j \in DOMAIN c.steps : c.steps[j] # "readacl",
           c.noun = "acl" => c.steps \in {<<"check", "connect", "list">>, <<"check", "connect", "search">>}
    PROVE  Ready(c)
<1>1. Well(c.steps, {"put", "post", "upload"}, {"genkey", "newkey", "put", "post"})
  BY ListsAreWell
<1>2. \A j \in DOMAIN c.steps : c.steps[j] \notin Writers \cup {"session", "newkey", "readacl"}
  BY PermsAssumption DEF ReadingLists, Writers, ObjectSteps, Permissions, Steps
<1>3. Fitting(c)
  <2>1. CASE c.noun # "acl"
    BY <1>1, <1>2, <2>1, FitsOwn DEF Well, Writers
  <2>2. CASE c.noun = "acl"
    BY <2>2, PermsAssumption DEF Fitting, Fits, Permissions, Steps, ObjectSteps
  <2> QED
    BY <2>1, <2>2
<1>4. Settled(c.steps, FALSE, {"upload"}, {"locate"}, DocSteps \cup {"pin", "backfill"})
  BY <1>2 DEF Settled, Writers
<1> QED
  BY <1>1, <1>2, <1>3, <1>4, WellIsReady DEF NameUsers, Makers

\* A command that writes to its own object.
LEMMA WritingReady ==
    ASSUME NEW c, Addressed(c), c.opts \cap {"secret", "dryRun"} = {}, c.noun # "acl",
           Target(c) \in MayWrite(c), c.verb \notin {"upload", "install", "share"},
           c.noun = "cookbook" => c.steps = <<"connect", "erase">>,
           \/ c.steps \in KeyLists /\ \A j \in DOMAIN c.steps : c.steps[j] \notin {"upload", "newkey"}
           \/ c.steps \in KeyEditLists /\ c.noun = "key"
           \/ c.steps \in EditLists /\ c.noun # "key"
           \/ /\ c.steps \in CreateLists /\ c.noun \notin {"client", "user", "key", "org"}
              /\ \A j \in DOMAIN c.steps : c.steps[j] # "postbag"
    PROVE  Ready(c)
<1>1. c.noun = "cookbook" => Settled(c.steps, FALSE, {"upload"}, {"locate"}, DocSteps \cup {"pin", "backfill"})
  BY DEF Settled
<1>2. ASSUME \A j \in DOMAIN c.steps : c.steps[j] \in Steps \ {"postbag", "upload", "newkey", "readacl"}
      PROVE  Fitting(c)
  BY <1>2, FitsOwn
<1>3. CASE c.steps \in KeyLists /\ \A j \in DOMAIN c.steps : c.steps[j] \notin {"upload", "newkey"}
  <2>1. \A j \in DOMAIN c.steps : c.steps[j] \in Steps \ {"postbag", "upload", "newkey", "readacl"}
    BY <1>3 DEF KeyLists, Steps
  <2>2. Well(c.steps, {"put", "post", "upload"}, {"genkey", "newkey", "put", "post"})
    BY <1>3, ListsAreWell
  <2> QED
    BY <1>1, <1>2, <2>1, <2>2, WellIsReady DEF NameUsers, Makers
<1>4. CASE c.steps \in KeyEditLists /\ c.noun = "key"
  <2>1. \A j \in DOMAIN c.steps : c.steps[j] \in Steps \ {"postbag", "upload", "newkey", "readacl"}
    BY <1>4 DEF KeyEditLists, Steps
  <2>2. Well(c.steps, {"post"}, {"genkey", "newkey", "put", "post"})
    BY <1>4, ListsAreWell
  <2> QED
    BY <1>1, <1>2, <1>4, <2>1, <2>2, WellIsReady DEF NameUsers, Makers
<1>5. CASE c.steps \in EditLists /\ c.noun # "key"
  <2>1. \A j \in DOMAIN c.steps : c.steps[j] \in Steps \ {"postbag", "upload", "newkey", "readacl"}
    BY <1>5 DEF EditLists, Steps
  <2>2. Well(c.steps, {"put", "post", "upload"}, {"genkey", "newkey", "post"})
    BY <1>5, ListsAreWell
  <2> QED
    BY <1>1, <1>2, <1>5, <2>1, <2>2, WellIsReady DEF NameUsers, Makers
<1>6. CASE /\ c.steps \in CreateLists /\ c.noun \notin {"client", "user", "key", "org"}
           /\ \A j \in DOMAIN c.steps : c.steps[j] # "postbag"
  <2>1. \A j \in DOMAIN c.steps : c.steps[j] \in Steps \ {"postbag", "upload", "newkey", "readacl"}
    BY <1>6 DEF CreateLists, Steps
  <2>2. Well(c.steps, {"put", "post", "upload"}, {"genkey", "newkey"})
    BY <1>6, ListsAreWell
  <2> QED
    BY <1>1, <1>2, <1>6, <2>1, <2>2, WellIsReady DEF NameUsers, Makers
<1> QED
  BY <1>3, <1>4, <1>5, <1>6

(* The shapes most commands have. *)

LEMMA ShowReady ==
    ASSUME NEW c, NEW noun, NEW scope, NEW n, noun # "acl", c = Show(noun, scope, n), Addressed(c)
    PROVE  Ready(c)
<1>1. c.noun = noun /\ c.opts = {} /\ c.steps = <<"check", "connect", "get">>
  BY DEF Show, Command
<1>2. c.steps \in ReadingLists /\ \A j \in DOMAIN c.steps : c.steps[j] # "readacl"
  BY <1>1 DEF ReadingLists
<1> QED
  BY <1>1, <1>2, ReadingReady
LEMMA ListingReady ==
    ASSUME NEW c, Addressed(c), c.opts = {}, c.steps = <<"check", "connect", "list">>
    PROVE  Ready(c)
<1>1. c.steps \in ReadingLists /\ \A j \in DOMAIN c.steps : c.steps[j] # "readacl"
  BY DEF ReadingLists
<1> QED
  BY <1>1, ReadingReady
LEMMA ListReady ==
    ASSUME NEW c, NEW noun, c = List(noun), Addressed(c)
    PROVE  Ready(c)
<1>1. c.opts = {} /\ c.steps = <<"check", "connect", "list">>
  BY DEF List, Plain, Command
<1> QED
  BY <1>1, ListingReady
LEMMA DeleteReady ==
    ASSUME NEW c, NEW noun, NEW scope, NEW n, noun # "acl", c = Delete(noun, scope, n), Addressed(c)
    PROVE  Ready(c)
<1>1. c.verb = "delete" /\ c.noun = noun /\ c.opts = {} /\ c.steps = <<"connect", "erase">>
  BY DEF Delete, Command
<1>2. c.steps \in KeyLists /\ \A j \in DOMAIN c.steps : c.steps[j] \notin {"upload", "newkey"}
  BY <1>1 DEF KeyLists
<1>3. Target(c) \in MayWrite(c)
  BY <1>1 DEF MayWrite
<1> QED
  BY <1>1, <1>2, <1>3, WritingReady
LEMMA EditReady ==
    ASSUME NEW c, NEW noun, NEW n, NEW o, noun \notin {"acl", "key", "cookbook"}, o \subseteq {"file"},
           c = Edit(noun, n, o), Addressed(c)
    PROVE  Ready(c)
<1>1. c.verb = "edit" /\ c.noun = noun /\ c.opts = o /\ c.steps \in EditLists
  BY DEF Edit, Plain, Command, EditLists
<1>2. Target(c) \in MayWrite(c)
  BY <1>1 DEF MayWrite
<1> QED
  BY <1>1, <1>2, WritingReady
LEMMA CreateReady ==
    ASSUME NEW c, NEW noun, NEW n, NEW o, o \subseteq {"file"}, c = Create(noun, n, o), Addressed(c),
           noun \notin {"acl", "key", "cookbook", "client", "user", "org", "item"}
    PROVE  Ready(c)
<1>1. c.verb = "create" /\ c.noun = noun /\ c.opts = o
  BY DEF Create, Plain, Command
<1>2. c.steps \in {<<"connect", "file", "pin", "post">>, <<"connect", "blank", "post">>}
  BY DEF Create, Plain, Command
<1>4. c.steps \in CreateLists /\ \A j \in DOMAIN c.steps : c.steps[j] # "postbag"
  BY <1>2 DEF CreateLists
<1>3. Target(c) \in MayWrite(c)
  BY <1>1 DEF MayWrite
<1> QED
  BY <1>1, <1>3, <1>4, WritingReady
LEMMA CreateWithKeyReady ==
    ASSUME NEW c, NEW noun, NEW n, NEW o, noun \notin {"acl", "item", "cookbook"}, o \subseteq {"keyFile", "publicKey"},
           c.verb = "create", c.noun = noun, c.opts = o, c.steps = CreateWithKey(noun, n, o).steps, Addressed(c)
    PROVE  Ready(c)
<1>1. c.steps \in KeyLists /\ \A j \in DOMAIN c.steps : c.steps[j] \notin {"upload", "newkey"}
  BY DEF CreateWithKey, Plain, Command, KeyLists
<1>2. Target(c) \in MayWrite(c)
  BY DEF MayWrite
<1> QED
  BY <1>1, <1>2, WritingReady
-----------------------------------------------------------------------------
(* The commands, noun by noun                                              *)

LEMMA ClientReady ==
    ASSUME NEW c, NEW n, NEW o, IsClientCommand(c, n, o), c.noun = "client", Addressed(c)
    PROVE  Ready(c)
<1>1. CASE c \in {ClientShow(n), ClientDelete(n), ClientList}
  BY <1>1, ShowReady, DeleteReady, ListReady DEF ClientShow, ClientDelete, ClientList
<1>2. CASE o \subseteq {"file"} /\ c = ClientEdit(n, o)
  BY <1>2, EditReady DEF ClientEdit
<1>3. CASE o \subseteq {"keyFile", "publicKey"} /\ c = ClientCreate(n, o)
  <2>1. c.verb = "create" /\ c.opts = o
    BY <1>3 DEF ClientCreate, CreateWithKey, Plain, Command
  <2>2. c.steps = CreateWithKey("client", n, o).steps
    BY <1>3 DEF ClientCreate
  <2> QED
    BY <1>3, <2>1, <2>2, CreateWithKeyReady
<1>4. CASE o \subseteq {"publicKey", "dryRun"} /\ c = NodeBootstrap(n, o)
  <2>1. c.verb = "bootstrap" /\ c.opts = o \cup {"publicKey"}
    BY <1>4 DEF NodeBootstrap, Plain, Command
  <2>2. CASE "dryRun" \in o
    <3>1. c.steps = <<"check", "prompt", "flags", "profile", "script">>
      BY <1>4, <2>2 DEF NodeBootstrap, Plain, Command
    <3>2. c.steps \in ReadingLists /\ \A j \in DOMAIN c.steps : c.steps[j] # "readacl"
      BY <3>1 DEF ReadingLists
    <3>3. "secret" \notin c.opts
      BY <1>4, <2>1
    <3> QED
      BY <1>4, <2>1, <3>2, <3>3, ReadingReady
  <2>3. CASE "dryRun" \notin o
    <3>1. c.steps = <<"check", "prompt", "flags", "profile", "connect", "genkey", "blank", "post", "script", "session">>
      BY <1>4, <2>3 DEF NodeBootstrap, Plain, Command
    <3>2. c.steps \in KeyLists /\ \A j \in DOMAIN c.steps : c.steps[j] \notin {"upload", "newkey"}
      BY <3>1 DEF KeyLists
    <3>3. Target(c) \in MayWrite(c)
      BY <1>4, <2>1, <2>3 DEF MayWrite
    <3> QED
      BY <1>4, <2>1, <2>3, <3>2, <3>3, WritingReady
  <2> QED
    BY <2>2, <2>3
<1> QED
  BY <1>1, <1>2, <1>3, <1>4 DEF IsClientCommand

LEMMA UserReady ==
    ASSUME NEW c, NEW n, NEW o, IsUserCommand(c, n, o), c.noun = "user", Addressed(c)
    PROVE  Ready(c)
<1>1. CASE c \in {UserShow(n), UserList}
  BY <1>1, ShowReady, ListReady DEF UserShow, UserList
<1>2. CASE c = UserPassword(n)
  <2>1. c.verb = "add" /\ c.opts = {} /\ c.steps = <<"connect", "prompt", "get", "change", "put">>
    BY <1>2 DEF UserPassword, Command
  <2>2. Target(c) \in MayWrite(c) /\ c.steps \in EditLists
    BY <2>1 DEF MayWrite, EditLists
  <2> QED
    BY <2>1, <2>2, WritingReady
<1>3. CASE o \subseteq {"file"} /\ c = UserEdit(n, o)
  BY <1>3, EditReady DEF UserEdit
<1>4. CASE o \subseteq {"keyFile", "publicKey"} /\ c = UserCreate(n, o)
  <2>1. c.verb = "create" /\ c.opts = o
    BY <1>4 DEF UserCreate, CreateWithKey, Plain, Command
  <2>2. c.steps = CreateWithKey("user", n, o).steps
    BY <1>4 DEF UserCreate
  <2> QED
    BY <1>4, <2>1, <2>2, CreateWithKeyReady
<1>5. CASE o \subseteq {"yes"} /\ c = UserDelete(n, o)
  <2>1. c.verb = "delete" /\ c.opts = o /\ c.steps \in {<<"connect", "ask", "erase">>, <<"connect", "erase">>}
    BY <1>5 DEF UserDelete, Plain, Command
  <2>2. c.steps \in KeyLists /\ \A j \in DOMAIN c.steps : c.steps[j] \notin {"upload", "newkey"}
    BY <2>1 DEF KeyLists
  <2>3. Target(c) \in MayWrite(c)
    BY <1>5, <2>1 DEF MayWrite
  <2> QED
    BY <1>5, <2>1, <2>2, <2>3, WritingReady
<1> QED
  BY <1>1, <1>2, <1>3, <1>4, <1>5 DEF IsUserCommand

LEMMA KeyReady ==
    ASSUME NEW c, NEW owner, NEW n, NEW o, IsKeyCommand(c, owner, n, o), c.noun = "key", Addressed(c)
    PROVE  Ready(c)
<1>1. CASE c = KeyList(owner)
  BY <1>1, ListingReady DEF KeyList, Command
<1>2. CASE c \in {KeyShow(owner, n), KeyDelete(owner, n)}
  BY <1>2, ShowReady, DeleteReady DEF KeyShow, KeyDelete
<1>3. CASE o \subseteq {"keyFile", "publicKey"} /\ c = KeyCreate(owner, n, o)
  <2>1. c.verb = "create" /\ c.opts = o /\ c.steps = CreateWithKey("key", n, o).steps
    BY <1>3 DEF KeyCreate, CreateWithKey, Plain, Command
  <2> QED
    BY <1>3, <2>1, CreateWithKeyReady
<1>4. CASE o \subseteq {"file", "keyFile"} /\ c = KeyEdit(owner, n, o)
  <2>1. c.verb = "edit" /\ c.opts = o /\ c.steps \in KeyEditLists
    BY <1>4 DEF KeyEdit, Command, KeyEditLists
  <2>2. Target(c) \in MayWrite(c)
    BY <1>4, <2>1 DEF MayWrite
  <2> QED
    BY <1>4, <2>1, <2>2, WritingReady
<1>5. CASE o \subseteq {"keyFile", "publicKey"} /\ c.verb = "rotate" /\ c = ClientReregister(owner[2], o)
  <2>1. c.name = "default" /\ c.opts = o /\ c.steps = <<"connect", "dropkey", "newkey", "emit">>
    BY <1>5 DEF ClientReregister, Command
  <2>2. Target(c) \in MayWrite(c)
    BY <1>5, <2>1 DEF MayWrite
  <2>3. Well(c.steps, {"put", "post", "upload"}, {"genkey", "newkey", "put", "post"})
    BY <2>1, ListsAreWell DEF KeyLists
  <2>4. Fitting(c)
    <3> SUFFICES ASSUME NEW j \in DOMAIN c.steps
                 PROVE  Fits(c, c.steps[j])
      BY DEF Fitting
    <3>1. c.steps[j] \in {"connect", "dropkey", "newkey", "emit"} /\ c.steps[j] \notin Permissions
      BY <2>1, PermsAssumption DEF Permissions, Steps
    <3> QED
      BY <1>5, <2>1, <2>2, <3>1 DEF Fits, ObjectSteps
  <2> QED
    <3>1. c.noun # "cookbook" /\ "dryRun" \notin c.opts /\ "secret" \notin c.opts
      BY <1>5, <2>1
    <3>2. NameUsers(c) \subseteq {"put", "post", "upload"} /\ Makers(c) \subseteq {"genkey", "newkey", "put", "post"}
      BY DEF NameUsers, Makers
    <3> QED
      BY <2>3, <2>4, <3>1, <3>2, WellIsReady
<1> QED
  BY <1>1, <1>2, <1>3, <1>4, <1>5 DEF IsKeyCommand

LEMMA RoleReady ==
    ASSUME NEW c, NEW n, NEW o, IsRoleCommand(c, n, o), c.noun = "role", Addressed(c)
    PROVE  Ready(c)
<1>1. CASE c \in {RoleShow(n), RoleDelete(n), RoleList}
  BY <1>1, ShowReady, DeleteReady, ListReady DEF RoleShow, RoleDelete, RoleList
<1>2. CASE o \subseteq {"file"} /\ c \in {RoleCreate(n, o), RoleEdit(n, o)}
  BY <1>2, CreateReady, EditReady DEF RoleCreate, RoleEdit
<1> QED
  BY <1>1, <1>2 DEF IsRoleCommand

LEMMA EnvironmentReady ==
    ASSUME NEW c, NEW n, NEW o, IsEnvironmentCommand(c, n, o), c.noun = "environment", Addressed(c)
    PROVE  Ready(c)
<1>1. CASE c \in {EnvironmentShow(n), EnvironmentDelete(n), EnvironmentList}
  BY <1>1, ShowReady, DeleteReady, ListReady DEF EnvironmentShow, EnvironmentDelete, EnvironmentList
<1>2. CASE o \subseteq {"file"} /\ c \in {EnvironmentCreate(n, o), EnvironmentEdit(n, o)}
  BY <1>2, CreateReady, EditReady DEF EnvironmentCreate, EnvironmentEdit
<1> QED
  BY <1>1, <1>2 DEF IsEnvironmentCommand

LEMMA GroupReady ==
    ASSUME NEW c, NEW n, NEW o, IsGroupCommand(c, n, o), c.noun = "group", Addressed(c)
    PROVE  Ready(c)
<1>1. CASE c \in {GroupShow(n), GroupCreate(n), GroupDelete(n), GroupList}
  <2>1. c = GroupCreate(n) => Ready(c)
    <3>1. c = GroupCreate(n) => c = Create("group", n, {})
      BY DEF GroupCreate
    <3> QED
      BY <3>1, CreateReady
  <2> QED
    BY <1>1, <2>1, ShowReady, DeleteReady, ListReady DEF GroupShow, GroupDelete, GroupList
<1>2. CASE o \subseteq {"file"} /\ c = GroupEdit(n, o)
  BY <1>2, EditReady DEF GroupEdit
<1>3. ASSUME NEW add, NEW m, c = GroupMemberChange(n, add, m)
      PROVE  Ready(c)
  <2>1. /\ c.verb \in {"add", "remove"} /\ c.opts = {}
        /\ c.steps = <<"check", "connect", "get", "change", "compare", "put", "readback">>
    BY <1>3 DEF GroupMemberChange, Command
  <2>2. Target(c) \in MayWrite(c) /\ c.steps \in EditLists
    BY <2>1 DEF MayWrite, EditLists
  <2> QED
    BY <2>1, <2>2, WritingReady
<1> QED
  BY <1>1, <1>2, <1>3 DEF IsGroupCommand

LEMMA OrgReady ==
    ASSUME NEW c, NEW n, NEW o, IsOrgCommand(c, n, o), c.noun \in {"org", "member", "invite"}, Addressed(c)
    PROVE  Ready(c)
<1>1. CASE c = OrgList
  <2>1. c.opts = {} /\ c.noun = "org" /\ c.steps = <<"check", "connect", "listorgs">>
    BY <1>1 DEF OrgList, Plain, Command
  <2>2. c.steps \in ReadingLists /\ \A j \in DOMAIN c.steps : c.steps[j] # "readacl"
    BY <2>1 DEF ReadingLists
  <2> QED
    BY <2>1, <2>2, ReadingReady
<1>2. CASE c \in {OrgShow(n), OrgDelete(n), OrgMemberList, OrgMemberAdd(n), OrgMemberRemove(n)}
  <2>1. c = OrgMemberAdd(n) => Ready(c)
    <3>1. c = OrgMemberAdd(n) => c = Create("member", n, {})
      BY DEF OrgMemberAdd
    <3> QED
      BY <3>1, CreateReady
  <2>2. c \in {OrgDelete(n), OrgMemberRemove(n)} => Ready(c)
    BY DeleteReady DEF OrgDelete, OrgMemberRemove
  <2> QED
    BY <1>2, <2>1, <2>2, ShowReady, ListReady DEF OrgShow, OrgMemberList
<1>3. CASE c \in {OrgInviteList, OrgInviteCreate(n), OrgInviteRescind(n)}
  <2>1. c = OrgInviteCreate(n) => Ready(c)
    <3>1. c = OrgInviteCreate(n) => c = Create("invite", n, {})
      BY DEF OrgInviteCreate
    <3> QED
      BY <3>1, CreateReady
  <2> QED
    BY <1>3, <2>1, DeleteReady, ListReady DEF OrgInviteList, OrgInviteRescind
<1>4. CASE o \subseteq {"file"} /\ c = OrgEdit(n, o)
  <2>1. c = Edit("org", n, o)
    BY <1>4 DEF OrgEdit
  <2> QED
    BY <1>4, <2>1, EditReady
<1>5. CASE o \subseteq {"keyFile", "publicKey"} /\ c = OrgCreate(n, o)
  <2>1. c.verb = "create" /\ c.noun = "org" /\ c.opts = o \ {"publicKey"}
    BY <1>5 DEF OrgCreate, CreateWithKey, Plain, Command
  <2>2. c.steps = CreateWithKey("org", n, o \ {"publicKey"}).steps
    BY <1>5 DEF OrgCreate
  <2> QED
    BY <1>5, <2>1, <2>2, CreateWithKeyReady
<1> QED
  BY <1>1, <1>2, <1>3, <1>4, <1>5 DEF IsOrgCommand

LEMMA AclReady ==
    ASSUME NEW c, NEW object, IsAclCommand(c, object), c.noun = "acl", Addressed(c)
    PROVE  Ready(c)
<1>1. CASE c = AclShow(object)
  BY <1>1, ListingReady DEF AclShow, Command
<1>2. ASSUME NEW grant, NEW perms \in Seq(Permissions), NEW m, c = AclChange(object, grant, perms, m)
      PROVE  Ready(c)
  <2>1. /\ c.verb \in {"add", "remove"} /\ c.opts = {} /\ c.perms = perms
        /\ c.steps = <<"check", "connect", "readacl">>
    BY <1>2 DEF AclChange, Command
  <2>2. MayWrite(c) = {<<"acl", c.scope, perms[i]>> : i \in DOMAIN perms}
    BY <2>1 DEF MayWrite
  <2>3. Fitting(c)
    <3> SUFFICES ASSUME NEW j \in DOMAIN c.steps
                 PROVE  Fits(c, c.steps[j])
      BY DEF Fitting
    <3>1. c.steps[j] \in {"check", "connect", "readacl"} /\ c.steps[j] \notin Permissions
      BY <2>1, PermsAssumption DEF Permissions, Steps
    <3> QED
      BY <1>2, <2>1, <2>2, <3>1 DEF Fits, ObjectSteps
  <2>4. Well(c.steps, {"put", "post", "upload"}, {"genkey", "newkey", "put", "post"})
    BY <2>1, ListsAreWell DEF ReadingLists
  <2> QED
    BY <2>1, <2>3, <2>4, WellIsReady DEF NameUsers, Makers
<1>3. c.perms \in Seq(Permissions) /\ c = AclChange(object, c.verb = "add", c.perms, c.entries) => Ready(c)
  BY <1>2
<1> QED
  BY <1>1, <1>3 DEF IsAclCommand, Permissions

LEMMA NodeReady ==
    ASSUME NEW c, NEW n, NEW o, IsNodeCommand(c, n, o), c.noun = "node", Addressed(c)
    PROVE  Ready(c)
<1>1. CASE c \in {NodeShow(n), NodeDelete(n), NodeList}
  BY <1>1, ShowReady, DeleteReady, ListReady DEF NodeShow, NodeDelete, NodeList
<1>2. CASE c = NodeStatus
  <2>1. c.opts = {"query"} /\ c.steps = <<"check", "connect", "search">>
    BY <1>2 DEF NodeStatus, Plain, Command
  <2>2. c.steps \in ReadingLists /\ \A j \in DOMAIN c.steps : c.steps[j] # "readacl"
    BY <2>1 DEF ReadingLists
  <2> QED
    BY <2>1, <2>2, ReadingReady
<1>3. CASE o \subseteq {"file"} /\ c = NodeCreate(n, o)
  <2>1. /\ c.verb = "create" /\ c.opts = o
        /\ c.steps \in {<<"check", "connect", "file", "pin", "post">>, <<"check", "connect", "blank", "post">>}
    BY <1>3 DEF NodeCreate, Plain, Command
  <2>2. c.steps \in CreateLists /\ \A j \in DOMAIN c.steps : c.steps[j] # "postbag"
    BY <2>1 DEF CreateLists
  <2>3. Target(c) \in MayWrite(c)
    BY <1>3, <2>1 DEF MayWrite
  <2> QED
    BY <1>3, <2>1, <2>2, <2>3, WritingReady
<1>4. CASE o \subseteq {"file"} /\ c = NodeEdit(n, o)
  <2>1. c.verb = "edit" /\ c.opts = o /\ c.steps \in EditLists
    BY <1>4 DEF NodeEdit, Plain, Command, EditLists
  <2>2. Target(c) \in MayWrite(c)
    BY <1>4, <2>1 DEF MayWrite
  <2> QED
    BY <1>4, <2>1, <2>2, WritingReady
<1>5. CASE o \subseteq {"skipSearch"} /\ c = NodeSSH(o)
  <2>1. c.opts = o /\ c.steps \in {<<"check", "prompt">>, <<"check", "prompt", "connect", "hosts">>}
    BY <1>5 DEF NodeSSH, Plain, Command
  <2>2. c.steps \in ReadingLists /\ \A j \in DOMAIN c.steps : c.steps[j] # "readacl"
    BY <2>1 DEF ReadingLists
  <2> QED
    BY <1>5, <2>1, <2>2, ReadingReady
<1>6. ASSUME NEW verb \in {"add", "remove", "set"}, NEW family, NEW m,
             NEW steps \in {<<"check", "connect", "get", "change", "compare", "put">>, <<"connect", "get", "change", "compare", "put">>},
             c = Modify(verb, n, family, m, steps)
      PROVE  Ready(c)
  <2>1. c.verb = verb /\ c.opts = {} /\ c.steps = steps
    BY <1>6 DEF Modify, Command
  <2>2. c.steps \in EditLists
    BY <1>6, <2>1 DEF EditLists
  <2>3. Target(c) \in MayWrite(c)
    BY <1>6, <2>1 DEF MayWrite
  <2> QED
    BY <2>1, <2>2, <2>3, WritingReady
<1>7. c.verb \in {"add", "remove", "set"} /\ c = NodeListField(c.verb, n, c.entries) => Ready(c)
  BY <1>6 DEF NodeListField
<1>8. \A e : c \in {NodeEnvironmentSet(n, e), NodePolicySet(n, e)} => Ready(c)
  BY <1>6 DEF NodeEnvironmentSet, NodePolicySet, Setting
<1> QED
  BY <1>1, <1>2, <1>3, <1>4, <1>5, <1>7, <1>8 DEF IsNodeCommand

LEMMA BagReady ==
    ASSUME NEW c, NEW n, IsBagCommand(c, n), c.noun = "databag", Addressed(c)
    PROVE  Ready(c)
<1>1. c = DataBagCreate(n) => Ready(c)
  <2>1. c = DataBagCreate(n) => c = Create("databag", n, {})
    BY DEF DataBagCreate
  <2> QED
    BY <2>1, CreateReady
<1> QED
  BY <1>1, DeleteReady, ListReady DEF IsBagCommand, DataBagDelete, DataBagList

LEMMA ItemReady ==
    ASSUME NEW c, NEW bag, NEW n, NEW o, IsItemCommand(c, bag, n, o), c.noun = "item", Addressed(c)
    PROVE  Ready(c)
<1>1. CASE c = ItemList(bag)
  BY <1>1, ListingReady DEF ItemList, Command
<1>2. CASE c \in {ItemShow(bag, n), ItemDelete(bag, n)}
  BY <1>2, ShowReady, DeleteReady DEF ItemShow, ItemDelete
<1>3. CASE c = SecretShow(bag, n)
  <2>1. c.verb = "show" /\ c.opts = {"secret"} /\ c.steps = <<"check", "secret", "connect", "unseal">>
    BY <1>3 DEF SecretShow, Secret, Command
  <2>2. Fitting(c)
    <3> SUFFICES ASSUME NEW j \in DOMAIN c.steps
                 PROVE  Fits(c, c.steps[j])
      BY DEF Fitting
    <3>1. c.steps[j] \in {"check", "secret", "connect", "unseal"} /\ c.steps[j] \notin Permissions
      BY <2>1, PermsAssumption DEF Permissions, Steps
    <3>2. c.steps[j] = "unseal" => Target(c) \in Objects
      BY DEF Addressed, Range
    <3> QED
      BY <3>1, <3>2 DEF Fits, ObjectSteps, Writers
  <2>3. Well(c.steps, {"put", "post", "upload"}, {"genkey", "newkey", "put", "post"})
    BY <2>1, ListsAreWell DEF ReadingLists
  <2>4. Settled(c.steps, FALSE, {"put", "post"}, {"seal"}, DocSteps)
    BY <2>1 DEF Settled
  <2>5. NameUsers(c) \subseteq {"put", "post", "upload"} /\ Makers(c) \subseteq {"genkey", "newkey", "put", "post"}
    BY DEF NameUsers, Makers
  <2> QED
    BY <2>1, <2>2, <2>3, <2>4, <2>5, WellIsReady
<1>4. CASE o \subseteq {"file"} /\ c = DataBagCreateWithItem(bag, n, o)
  <2>1. /\ c.verb = "create" /\ c.opts = o /\ c.scope = bag
        /\ c.steps \in {<<"connect", "itemfile", "postbag", "post">>, <<"connect", "stub", "itemeditor", "postbag", "post">>}
    BY <1>4 DEF DataBagCreateWithItem, Command
  <2>2. Target(c) \in MayWrite(c) /\ <<"databag", None, c.scope>> \in MayWrite(c)
    BY <1>4, <2>1 DEF MayWrite
  <2>6. "secret" \notin c.opts /\ "dryRun" \notin c.opts /\ c.noun = "item"
    BY <1>4, <2>1
  <2>3. Fitting(c)
    <3> SUFFICES ASSUME NEW j \in DOMAIN c.steps
                 PROVE  Fits(c, c.steps[j])
      BY DEF Fitting
    <3>1. c.steps[j] \in {"connect", "itemfile", "stub", "itemeditor", "postbag", "post"} /\ c.steps[j] \notin Permissions
      BY <2>1, PermsAssumption DEF Permissions, Steps
    <3> QED
      BY <2>1, <2>2, <2>6, <3>1 DEF Fits, ObjectSteps, Writers
  <2>4. Well(c.steps, {"put", "post", "upload"}, {"genkey", "newkey"})
    BY <2>1, ListsAreWell DEF CreateLists
  <2>5. NameUsers(c) \subseteq {"put", "post", "upload"} /\ Makers(c) \subseteq {"genkey", "newkey"}
    BY DEF NameUsers, Makers
  <2> QED
    BY <2>3, <2>4, <2>5, <2>6, WellIsReady
<1>5. CASE o \subseteq {"file"} /\ c = ItemCreate(bag, n, o)
  <2>1. /\ c.verb = "create" /\ c.opts = o
        /\ c.steps \in {<<"connect", "itemfile", "post">>, <<"connect", "stub", "itemeditor", "post">>}
    BY <1>5 DEF ItemCreate, Command
  <2>2. c.steps \in CreateLists /\ \A j \in DOMAIN c.steps : c.steps[j] # "postbag"
    BY <2>1 DEF CreateLists
  <2>3. Target(c) \in MayWrite(c)
    BY <1>5, <2>1 DEF MayWrite
  <2> QED
    BY <1>5, <2>1, <2>2, <2>3, WritingReady
<1>6. CASE o \subseteq {"file"} /\ c = ItemEdit(bag, n, o)
  <2>1. c.verb = "edit" /\ c.opts = o /\ c.steps \in EditLists
    BY <1>6 DEF ItemEdit, Command, EditLists
  <2>2. Target(c) \in MayWrite(c)
    BY <1>6, <2>1 DEF MayWrite
  <2> QED
    BY <1>6, <2>1, <2>2, WritingReady
<1>7. CASE o \subseteq {"file", "secret"} /\ c \in {SecretCreate(bag, n, o), SecretEdit(bag, n, o)}
  <2>1. c.verb \in {"create", "edit"} /\ c.opts = o \cup {"secret"}
    BY <1>7 DEF SecretCreate, SecretEdit, Secret, Command
  <2>2. c.steps \in SecretCreateLists \cup SecretEditLists
    BY <1>7 DEF SecretCreate, SecretEdit, Secret, Command, SecretCreateLists, SecretEditLists
  <2>3. Target(c) \in MayWrite(c)
    BY <1>7, <2>1 DEF MayWrite
  <2>4. Fitting(c)
    <3> SUFFICES ASSUME NEW j \in DOMAIN c.steps
                 PROVE  Fits(c, c.steps[j])
      BY DEF Fitting
    <3>1. c.steps[j] \in {"secret", "connect", "itemfile", "seal", "post", "stub", "itemeditor", "unseal", "compare", "put"}
      BY <2>2 DEF SecretCreateLists, SecretEditLists
    <3>2. c.steps[j] \notin Permissions /\ (c.steps[j] = "unseal" => Target(c) \in Objects)
      BY <3>1, PermsAssumption DEF Permissions, Steps, Addressed, Range
    <3> QED
      BY <2>1, <2>3, <3>1, <3>2 DEF Fits, ObjectSteps, Writers
  <2>5. Settled(c.steps, FALSE, {"put", "post"}, {"seal"}, DocSteps)
    <3>1. \A left \in SecretCreateLists \cup SecretEditLists : Settled(left, FALSE, {"put", "post"}, {"seal"}, DocSteps)
      <4> DEFINE S(left) == Settled(left, FALSE, {"put", "post"}, {"seal"}, DocSteps)
      <4>1. /\ S(<<"secret", "connect", "itemfile", "seal", "put">>)
            /\ S(<<"secret", "connect", "unseal", "itemeditor", "compare", "seal", "put">>)
            /\ S(<<"secret", "connect", "itemfile", "seal", "post">>)
            /\ S(<<"secret", "connect", "stub", "itemeditor", "seal", "post">>)
        BY DEF Settled, DocSteps
      <4> HIDE DEF S
      <4>2. \A left \in SecretCreateLists \cup SecretEditLists : S(left)
        BY <4>1 DEF SecretCreateLists, SecretEditLists
      <4> QED
        BY <4>2 DEF S
    <3> QED
      BY <2>2, <3>1
  <2>6. Makers(c) \subseteq {"genkey", "newkey"} /\ NameUsers(c) \subseteq {"put", "post", "upload"}
    BY DEF NameUsers, Makers
  <2>7. \/ Well(c.steps, {"put", "post", "upload"}, {"genkey", "newkey"})
        \/ Well(c.steps, {"put", "post", "upload"}, {"genkey", "newkey", "post"})
    BY <2>2, ListsAreWell
  <2>8. "dryRun" \notin c.opts /\ c.noun # "cookbook"
    BY <1>7, <2>1
  <2>9. Makers(c) \subseteq {"genkey", "newkey", "post"}
    BY <2>6
  <2> QED
    BY <2>4, <2>5, <2>6, <2>7, <2>8, <2>9, WellIsReady
<1> QED
  BY <1>1, <1>2, <1>3, <1>4, <1>5, <1>6, <1>7 DEF IsItemCommand

\* Several cookbooks are located and uploaded one after the other.
LEMMA UploadReady ==
    ASSUME NEW c, NEW count \in Nat, c = CookbookUpload(count), Addressed(c)
    PROVE  Ready(c)
<1> DEFINE s == c.steps
<1>1. c.verb = "upload" /\ c.noun = "cookbook" /\ c.opts = {}
  BY DEF CookbookUpload, Plain, Command
<1>2. s = [i \in 1..(2 + 2 * count) |-> CASE i = 1 -> "check" [] i = 2 -> "connect"
                                          [] i > 2 /\ i % 2 = 1 -> "locate" [] i > 2 /\ i % 2 = 0 -> "upload"]
  BY DEF CookbookUpload, Plain, Command
<1> HIDE DEF s
<1>3. DOMAIN s = 1..(2 + 2 * count) /\ IsList(s)
  BY <1>2 DEF IsList
<1>4. /\ s[1] = "check" /\ s[2] = "connect"
      /\ \A j \in DOMAIN s : j \in Nat /\ s[j] \in {"check", "connect", "locate", "upload"}
  BY <1>2, <1>3
<1>5. \A j \in DOMAIN s : s[j] = "upload" => j - 1 \in DOMAIN s /\ s[j - 1] = "locate"
  <2> SUFFICES ASSUME NEW j \in DOMAIN s, s[j] = "upload"
               PROVE  j - 1 \in DOMAIN s /\ s[j - 1] = "locate"
    OBVIOUS
  <2>1. j \in Nat /\ j > 2 /\ j <= 2 + 2 * count /\ j % 2 = 0
    BY <1>2, <1>3
  <2>2. j - 1 > 2 /\ (j - 1) % 2 = 1 /\ j - 1 \in 1..(2 + 2 * count)
    BY <2>1
  <2> QED
    BY <1>2, <1>3, <2>2
<1>6. s # <<>>
  BY <1>3
<1>7. \A j \in DOMAIN s : s[j] \notin Permissions /\ s[j] \in Steps
  BY <1>4, PermsAssumption DEF Permissions, Steps
<1>8. MayWrite(c) = {x \in Objects : x[1] = "cookbook"}
  BY <1>1 DEF MayWrite
<1>9. Ordered(c, s)
  <2>1. \A j \in DOMAIN s : Fits(c, s[j])
    BY <1>1, <1>4, <1>7, <1>8 DEF Fits, ObjectSteps
  <2>2. \A j \in DOMAIN s : s[j] \notin KeySteps /\ s[j] \notin {"emit", "listorgs", "readacl"}
    BY <1>4 DEF KeySteps
  <2> QED
    BY <1>1, <1>3, <1>7, <2>1, <2>2 DEF Ordered
<1>10. NameUsers(c) = {"post", "put"}
  BY <1>1 DEF NameUsers
<1>11. /\ Settled(s, FALSE, NameUsers(c), NameSetters, NameSpoilers)
       /\ Settled(s, FALSE, ReadUsers, ReadSetters, {})
  BY <1>4, <1>10 DEF Settled, ReadUsers
<1>12. Settled(s, FALSE, {"upload"}, {"locate"}, DocSteps \cup {"pin", "backfill"})
  BY <1>4, <1>5 DEF Settled
<1>13. Delivered(s, TRUE, Carriers, Makers(c))
  BY <1>1, <1>4 DEF Delivered, Makers
<1>14. \A j \in DOMAIN s : s[j] \notin KeySteps
  BY <1>4 DEF KeySteps
<1> QED
  BY <1>1, <1>6, <1>9, <1>11, <1>12, <1>13, <1>14 DEF Ready, s

LEMMA InstallReady ==
    ASSUME NEW c, NEW n, c \in {SupermarketInstall(n), SupermarketExplore(n)}, Addressed(c)
    PROVE  Ready(c)
<1>1. /\ c.verb = "install" /\ c.noun = "cookbook" /\ c.opts = {}
      /\ c.steps \in {<<"check", "connect", "site", "record", "download", "locate", "upload">>,
                     <<"connect", "site", "record", "download", "locate", "upload">>}
  <2>1. CASE c = SupermarketInstall(n)
    BY <2>1 DEF SupermarketInstall, Installing, Plain, Command
  <2>2. CASE c = SupermarketExplore(n)
    BY <2>2 DEF SupermarketExplore, Installing, Plain, Command
  <2> QED
    BY <2>1, <2>2
<1>7. c.steps \in InstallLists
  BY <1>1 DEF InstallLists
<1>2. MayWrite(c) = {x \in Objects : x[1] = "cookbook"}
  BY <1>1 DEF MayWrite
<1>3. Fitting(c)
  <2> SUFFICES ASSUME NEW j \in DOMAIN c.steps
               PROVE  Fits(c, c.steps[j])
    BY DEF Fitting
  <2>1. c.steps[j] \in {"check", "connect", "site", "record", "download", "locate", "upload"} /\ c.steps[j] \notin Permissions
    BY <1>1, PermsAssumption DEF Permissions, Steps
  <2> QED
    BY <1>1, <1>2, <2>1 DEF Fits, ObjectSteps
<1>4. Settled(c.steps, FALSE, {"upload"}, {"locate"}, DocSteps \cup {"pin", "backfill"})
  <2> DEFINE S(left) == Settled(left, FALSE, {"upload"}, {"locate"}, DocSteps \cup {"pin", "backfill"})
  <2>1. /\ S(<<"check", "connect", "site", "record", "download", "locate", "upload">>)
        /\ S(<<"connect", "site", "record", "download", "locate", "upload">>)
    BY DEF Settled, DocSteps
  <2> HIDE DEF S
  <2>2. S(c.steps)
    BY <1>1, <2>1
  <2> QED
    BY <2>2 DEF S
<1>5. Well(c.steps, {"put", "post"}, {"genkey", "newkey", "put", "post"})
  BY <1>7, ListsAreWell
<1>6. NameUsers(c) \subseteq {"put", "post"} /\ Makers(c) \subseteq {"genkey", "newkey", "put", "post"}
  BY <1>1 DEF NameUsers, Makers
<1> QED
  BY <1>1, <1>3, <1>4, <1>5, <1>6, WellIsReady

LEMMA CookbookReady ==
    ASSUME NEW c, NEW n, IsCookbookCommand(c, n), c.noun = "cookbook", Addressed(c)
    PROVE  Ready(c)
<1>1. CASE c = CookbookDownload(n)
  <2>1. c.opts = {} /\ c.steps = <<"connect", "get", "save">>
    BY <1>1 DEF CookbookDownload, Plain, Command
  <2>2. c.steps \in ReadingLists /\ \A j \in DOMAIN c.steps : c.steps[j] # "readacl"
    BY <2>1 DEF ReadingLists
  <2> QED
    BY <2>1, <2>2, ReadingReady
<1>2. CASE c \in {CookbookShow(n), CookbookDelete(n), CookbookList}
  BY <1>2, ShowReady, DeleteReady, ListReady DEF CookbookShow, CookbookDelete, CookbookList
<1>3. \A count \in 1..Len(c.steps) : c = CookbookUpload(count) => Ready(c)
  <2>1. \A count \in 1..Len(c.steps) : count \in Nat
    OBVIOUS
  <2> QED
    BY <2>1, UploadReady
<1> QED
  BY <1>1, <1>2, <1>3, InstallReady DEF IsCookbookCommand

LEMMA PolicyReady ==
    ASSUME NEW c, NEW n, IsPolicyCommand(c, n), Addressed(c)
    PROVE  Ready(c)
<1>1. CASE c \in {PolicyDelete(n), PolicyShow(n), PolicyList}
  BY <1>1, ShowReady, DeleteReady, ListReady DEF PolicyShow, PolicyDelete, PolicyList
<1>2. CASE c \in {PolicyGroupDelete(n), PolicyGroupShow(n), PolicyGroupList}
  BY <1>2, ShowReady, DeleteReady, ListReady DEF PolicyGroupShow, PolicyGroupDelete, PolicyGroupList
<1> QED
  BY <1>1, <1>2 DEF IsPolicyCommand

LEMMA SharedReady ==
    ASSUME NEW c, NEW n, NEW o, IsSharedCommand(c, n, o), c.noun = "shared", Addressed(c)
    PROVE  Ready(c)
<1>1. CASE c = SupermarketShow(n)
  <2>1. c.opts = {} /\ c.steps = <<"check", "site", "record">>
    BY <1>1 DEF SupermarketShow, Plain, Command
  <2>2. c.steps \in ReadingLists /\ \A j \in DOMAIN c.steps : c.steps[j] # "readacl"
    BY <2>1 DEF ReadingLists
  <2> QED
    BY <2>1, <2>2, ReadingReady
<1>2. CASE o \subseteq {"verbose"} /\ c = SupermarketList(o)
  <2>1. c.opts = o /\ c.steps \in {<<"check", "site", "cookbooks">>, <<"check", "site", "cookbooks", "universe">>}
    BY <1>2 DEF SupermarketList, Listing, Plain, Command
  <2>2. c.steps \in ReadingLists /\ \A j \in DOMAIN c.steps : c.steps[j] # "readacl"
    BY <2>1 DEF ReadingLists
  <2> QED
    BY <1>2, <2>1, <2>2, ReadingReady
<1>3. CASE o \subseteq {"verbose", "query"} /\ c = SupermarketSearch(o)
  <2>1. c.opts = o \cup {"query"} /\ c.steps \in {<<"check", "site", "check", "matches">>, <<"check", "site", "check", "matches", "universe">>}
    BY <1>3 DEF SupermarketSearch, Searching, Plain, Command
  <2>2. c.steps \in ReadingLists /\ \A j \in DOMAIN c.steps : c.steps[j] # "readacl"
    BY <2>1 DEF ReadingLists
  <2> QED
    BY <1>3, <2>1, <2>2, ReadingReady
<1>4. CASE o \subseteq {"category", "dryRun"} /\ c = SupermarketShare(n, o)
  <2>1. c.verb = "share" /\ c.scope = None /\ c.opts = o
    BY <1>4 DEF SupermarketShare, Plain, Command
  <2>4. "secret" \notin c.opts
    <3>1. o \subseteq {"category", "dryRun"} => "secret" \notin o
      OBVIOUS
    <3> QED
      BY <1>4, <2>1, <3>1
  <2>2. CASE "dryRun" \in o
    <3>1. c.steps = <<"check", "pack">>
      BY <1>4, <2>2 DEF SupermarketShare, Sharing, Plain, Command
    <3>2. c.steps \in ReadingLists /\ \A j \in DOMAIN c.steps : c.steps[j] # "readacl"
      BY <3>1 DEF ReadingLists
    <3> QED
      BY <2>4, <3>2, ReadingReady
  <2>3. CASE "dryRun" \notin o
    <3>1. c.steps \in {<<"check", "profile", "identity", "pack", "upload">>, <<"check", "profile", "identity", "category", "pack", "upload">>}
      BY <1>4, <2>3 DEF SupermarketShare, Sharing, Plain, Command
    <3>2. Target(c) \in MayWrite(c)
      BY <2>1, <2>3 DEF MayWrite
    <3>3. Fitting(c)
      <4> SUFFICES ASSUME NEW j \in DOMAIN c.steps
                   PROVE  Fits(c, c.steps[j])
        BY DEF Fitting
      <4>1. c.steps[j] \in {"check", "profile", "identity", "category", "pack", "upload"} /\ c.steps[j] \notin Permissions
        BY <3>1, PermsAssumption DEF Permissions, Steps
      <4> QED
        BY <2>1, <2>4, <3>2, <4>1 DEF Fits, ObjectSteps
    <3>4. Well(c.steps, {"put", "post", "upload"}, {"genkey", "newkey", "put", "post"})
      BY <3>1, ListsAreWell DEF KeyLists
    <3>5. NameUsers(c) \subseteq {"put", "post", "upload"} /\ Makers(c) \subseteq {"genkey", "newkey", "put", "post"}
      BY DEF NameUsers, Makers
    <3> QED
      BY <1>4, <2>1, <2>3, <3>3, <3>4, <3>5, WellIsReady
  <2> QED
    BY <2>2, <2>3
<1> QED
  BY <1>1, <1>2, <1>3, <1>4 DEF IsSharedCommand

LEMMA SearchReady ==
    ASSUME NEW c, NEW index, c = Search(index), Addressed(c)
    PROVE  Ready(c)
<1>1. c.opts = {"query"} /\ c.steps = <<"check", "connect", "search">>
  BY DEF Search, Plain, Command
<1>2. c.steps \in ReadingLists /\ \A j \in DOMAIN c.steps : c.steps[j] # "readacl"
  BY <1>1 DEF ReadingLists
<1> QED
  BY <1>1, <1>2, ReadingReady

\* Every command, whatever its arguments and flags, is ready to be run: in the list of
\* its RunE, what a step needs a step before it sees to, what may give up comes before
\* what is sent, and a private key that is made is handed over.
THEOREM CommandsReady ==
    ASSUME NEW r \in Runs, NEW c \in CommandsOf[r]
    PROVE  Ready(c) /\ MayWrite(c) \subseteq Objects
<1>1. IsCommand(c) /\ Addressed(c)
  BY CommandsAssumption, ObjectsAssumption DEF Addressed
<1> SUFFICES Ready(c)
  BY <1>1 DEF Addressed
<1>2. CASE c.noun = "client" /\ IsClientCommand(c, c.name, c.opts)
  BY <1>1, <1>2, ClientReady
<1>3. CASE c.noun = "user" /\ IsUserCommand(c, c.name, c.opts)
  BY <1>1, <1>3, UserReady
<1>4. CASE c.noun = "key" /\ IsKeyCommand(c, c.scope, c.name, c.opts)
  BY <1>1, <1>4, KeyReady
<1>5. CASE c.noun = "role" /\ IsRoleCommand(c, c.name, c.opts)
  BY <1>1, <1>5, RoleReady
<1>6. CASE c.noun = "environment" /\ IsEnvironmentCommand(c, c.name, c.opts)
  BY <1>1, <1>6, EnvironmentReady
<1>7. CASE c.noun = "group" /\ IsGroupCommand(c, c.name, c.opts)
  BY <1>1, <1>7, GroupReady
<1>8. CASE c.noun \in {"org", "member", "invite"} /\ IsOrgCommand(c, c.name, c.opts)
  BY <1>1, <1>8, OrgReady
<1>9. CASE c.noun = "acl" /\ IsAclCommand(c, c.scope)
  BY <1>1, <1>9, AclReady
<1>10. CASE c.noun = "node" /\ IsNodeCommand(c, c.name, c.opts)
  BY <1>1, <1>10, NodeReady
<1>11. CASE c.noun = "databag" /\ IsBagCommand(c, c.name)
  BY <1>1, <1>11, BagReady
<1>12. CASE c.noun = "item" /\ IsItemCommand(c, c.scope, c.name, c.opts)
  BY <1>1, <1>12, ItemReady
<1>13. CASE c.noun = "cookbook" /\ IsCookbookCommand(c, c.name)
  BY <1>1, <1>13, CookbookReady
<1>14. CASE c.noun \in {"policy", "policygroup"} /\ IsPolicyCommand(c, c.name)
  BY <1>1, <1>14, PolicyReady
<1>15. CASE c.noun = "shared" /\ IsSharedCommand(c, c.name, c.opts)
  BY <1>1, <1>15, SharedReady
<1>16. CASE c.verb = "list" /\ c.opts = {"query"} /\ c = Search(c.noun)
  BY <1>1, <1>16, SearchReady
<1> QED
  BY <1>1, <1>2, <1>3, <1>4, <1>5, <1>6, <1>7, <1>8, <1>9, <1>10, <1>11, <1>12, <1>13, <1>14, <1>15, <1>16
     DEF IsCommand
-----------------------------------------------------------------------------
(* One run, from step to step                                              *)

\* What no step is needed for holds of a list whatever is so now.
LEMMA SettledAnyway ==
    ASSUME NEW left, NEW U, NEW S, NEW P, NEW ok, Settled(left, FALSE, U, S, P)
    PROVE  Settled(left, ok, U, S, P)
  BY DEF Settled

\* Nothing is left to need anything.
LEMMA EmptyIsSound ==
    ASSUME NEW s, Shape(s), Quiet(s), Accounted(s), s.left = <<>>, KeyGoesOut(s)
    PROVE  Sound(s)
<1>1. IsList(<<>>) /\ DOMAIN <<>> = {}
  <2>1. 0 \in Nat /\ 1..0 = {} /\ DOMAIN <<>> = 1..0
    OBVIOUS
  <2>2. <<>> = [i \in 1..0 |-> <<>>[i]]
    OBVIOUS
  <2> QED
    BY <2>1, <2>2 DEF IsList
<1>2. Ordered(s.cmd, s.left)
  BY <1>1 DEF Ordered, Before
<1>3. Named(s) /\ ReadNamed(s) /\ Located(s) /\ Sealing(s)
  BY <1>1 DEF Named, ReadNamed, Located, Sealing, Settled
<1> QED
  BY <1>2, <1>3 DEF Sound

LEMMA IdleIsSound == Sound(Idle)
<1>1. IsDoc(Gone)
  BY DEF IsDoc, Gone, Doc
<1>2. Shape(Idle)
  BY <1>1 DEF Shape, Idle, Outs
<1>3. MayWrite(Nothing) = {}
  BY DEF MayWrite, Nothing, Plain, Command
<1>4. Quiet(Idle) /\ Accounted(Idle)
  BY <1>3 DEF Quiet, Accounted, Idle, Doubt
<1>5. KeyGoesOut(Idle) /\ Idle.left = <<>>
  BY DEF KeyGoesOut, Idle
<1> QED
  BY <1>2, <1>4, <1>5, EmptyIsSound

\* A run that starts.
LEMMA StartIsSound ==
    ASSUME NEW c, Ready(c), MayWrite(c) \subseteq Objects
    PROVE  Sound([Idle EXCEPT !.cmd = c, !.left = c.steps, !.out = "running"])
<1> DEFINE t == [Idle EXCEPT !.cmd = c, !.left = c.steps, !.out = "running"]
<1>1. /\ DOMAIN t = DOMAIN Idle /\ t.cmd = c /\ t.left = c.steps /\ t.out = "running"
      /\ t.read = Gone /\ t.doc = Gone /\ t.key = NoKey /\ t.shown = NoKey
      /\ t.wrote = {} /\ t.told = {} /\ t.others = {}
  BY DEF Idle
<1> HIDE DEF t
<1>2. Shape(t)
  BY <1>1 DEF Shape, Outs, Ready, IsDoc, Gone, Doc
<1>3. Ordered(c, t.left)
  BY <1>1 DEF Ready
<1>4. Quiet(t) /\ Accounted(t)
  BY <1>1 DEF Quiet, Accounted, Doubt
<1>5. Named(t) /\ ReadNamed(t)
  BY <1>1, SettledAnyway DEF Ready, Named, ReadNamed
<1>6. Located(t) /\ Sealing(t)
  BY <1>1, SettledAnyway DEF Ready, Located, Sealing
<1>7. Answered(t) = TRUE
  BY <1>1 DEF Answered
<1>8. KeyGoesOut(t)
  BY <1>1, <1>7 DEF Ready, KeyGoesOut
<1>9. Sound(t)
  BY <1>1, <1>2, <1>3, <1>4, <1>5, <1>6, <1>8 DEF Sound
<1> QED
  BY <1>9 DEF t

\* What else the list says, its tail says.
LEMMA TailOrdered ==
    ASSUME NEW c, NEW s, Ordered(c, s), s # <<>>
    PROVE  Ordered(c, Tail(s)) /\ (Tail(s) = <<"writekey">> => s[1] = "chmodkey")
<1>1. IsList(s)
  BY DEF Ordered
<1>2. \A j \in DOMAIN Tail(s) : j \in Nat \ {0} /\ j + 1 \in DOMAIN s /\ Tail(s)[j] = s[j + 1]
  BY <1>1, ListTail
<1>3. IsList(Tail(s))
  BY <1>1, ListTail
<1>4. \A j \in DOMAIN Tail(s) : Tail(s)[j] \in Steps \cup Permissions /\ Fits(c, Tail(s)[j])
  BY <1>2 DEF Ordered
<1>5. \A j, k \in DOMAIN Tail(s) : j < k => Tail(s)[j] \notin {"emit", "listorgs", "readacl"}
  BY <1>2 DEF Ordered
<1>6. c.verb # "upload" => /\ Before(Tail(s), Writers, Refusers(c))
                           /\ Before(Tail(s), Writers, {"postbag", "upload"})
  BY <1>1, TailBefore DEF Ordered
<1>7. ASSUME NEW j \in DOMAIN Tail(s), Tail(s)[j] \in KeySteps
      PROVE  /\ Tail(s) \in {<<"openkey", "chmodkey", "writekey">>, <<"chmodkey", "writekey">>, <<"writekey">>}
             /\ Tail(s) = <<"writekey">> => s[1] = "chmodkey"
  <2>1. s \in {<<"openkey", "chmodkey", "writekey">>, <<"chmodkey", "writekey">>, <<"writekey">>}
    BY <1>2, <1>7 DEF Ordered
  <2>2. s = <<"openkey", "chmodkey", "writekey">> => Tail(s) = <<"chmodkey", "writekey">>
    OBVIOUS
  <2>3. s = <<"chmodkey", "writekey">> => Tail(s) = <<"writekey">> /\ s[1] = "chmodkey"
    OBVIOUS
  <2>4. s # <<"writekey">>
    BY <1>1, <1>2, <1>7
  <2>5. <<"chmodkey", "writekey">> # <<"writekey">>
    <3>1. Len(<<"chmodkey", "writekey">>) = 2 /\ Len(<<"writekey">>) = 1
      OBVIOUS
    <3> QED
      BY <3>1
  <2> QED
    BY <2>1, <2>2, <2>3, <2>4, <2>5
<1>8. Tail(s) = <<"writekey">> => s[1] = "chmodkey"
  <2>1. \A q : q = <<"writekey">> => 1 \in DOMAIN q /\ q[1] \in KeySteps
    BY DEF KeySteps
  <2> QED
    BY <1>7, <2>1
<1> QED
  BY <1>3, <1>4, <1>5, <1>6, <1>7, <1>8 DEF Ordered

\* A step taken: u is the run with what the step changed, before it moves on.
Same(s, u) == DOMAIN u = DOMAIN Idle /\ u.cmd = s.cmd /\ u.left = s.left /\ u.out = s.out /\ u.others = s.others
DocMoves(s, u) ==
    LET h == s.left[1] IN
    /\ s.cmd.noun # "acl" => IsDoc(u.doc) /\ IsDoc(u.read)
    /\ h \in NameSetters \/ (s.doc.name = s.cmd.name /\ h \notin NameSpoilers) => u.doc.name = s.cmd.name
    /\ h \in ReadSetters \/ s.read.name = s.cmd.name => u.read.name = s.cmd.name
    /\ s.cmd.noun = "cookbook" =>
          (h = "locate" \/ (s.doc.name \in Names /\ h \notin DocSteps \cup {"pin", "backfill"}) => u.doc.name \in Names)
    /\ "secret" \in s.cmd.opts => (h = "seal" \/ (s.doc.sealed = 1 /\ h \notin DocSteps) => u.doc.sealed = 1)
KeyMoves(s, u) ==
    /\ {u.key, u.shown} \subseteq Runs \cup {NoKey}
    /\ s.left[1] \in Carriers \/ (Answered(s) /\ s.left[1] \notin Makers(s.cmd)) => Answered(u)
\* What was obeyed, and whether it is said at once.
IsWrite(s, object) ==
    /\ s.left[1] \in Writers /\ object \in MayWrite(s.cmd)
    /\ s.cmd.noun = "acl" \/ s.left[1] \in {"postbag", "upload"} \/ object = Target(s.cmd)
WriteMoves(s, u) ==
    \/ u.wrote = s.wrote /\ u.told = s.told
    \/ \E object : /\ IsWrite(s, object) /\ u.wrote = s.wrote \cup {object}
                   /\ \/ u.told = s.told \cup {object}
                      \/ u.told = s.told /\ s.cmd.noun # "acl" /\ (object = Target(s.cmd) \/ s.cmd.verb \in {"upload", "install"})

LEMMA Moved ==
    ASSUME NEW u, DOMAIN u = DOMAIN Idle
    PROVE  LET t == Next1(u) IN
           /\ DOMAIN t = DOMAIN Idle /\ t.cmd = u.cmd /\ t.left = Tail(u.left)
           /\ t.out = IF Len(u.left) = 1 THEN "ok" ELSE u.out
           /\ t.read = u.read /\ t.doc = u.doc /\ t.key = u.key /\ t.shown = u.shown
           /\ t.wrote = u.wrote /\ t.told = u.told /\ t.others = u.others
  BY DEF Next1, Idle

\* At most one object is in doubt before a write, and after it.
LEMMA OneDoubt ==
    ASSUME NEW s, Quiet(s), Accounted(s), s.out = "running", Ordered(s.cmd, s.left), s.left # <<>>,
           s.cmd.verb # "upload", NEW object, IsWrite(s, object)
    PROVE  Doubt(s) \subseteq {object}
<1>1. 1 \in DOMAIN s.left /\ Fits(s.cmd, s.left[1])
  BY ListTail DEF Ordered
<1>2. CASE s.left[1] \in {"postbag", "upload"}
  BY <1>1, <1>2 DEF Quiet, Doubt
<1>3. CASE s.left[1] \notin {"postbag", "upload"} /\ s.cmd.noun = "acl"
  BY <1>3 DEF Accounted
<1>4. CASE s.left[1] \notin {"postbag", "upload"} /\ s.cmd.noun # "acl"
  <2>1. object = Target(s.cmd)
    BY <1>4 DEF IsWrite
  <2>2. s.left[1] \in ObjectSteps
    BY <1>1, <1>4 DEF IsWrite, Writers, Fits
  <2>3. s.cmd.verb # "install"
    BY <1>1, <2>2 DEF Fits
  <2> QED
    BY <1>4, <2>1, <2>3 DEF Accounted
<1> QED
  BY <1>2, <1>3, <1>4

LEMMA Moves ==
    ASSUME NEW s, NEW u, Sound(s), s.out = "running", Same(s, u), DocMoves(s, u), KeyMoves(s, u), WriteMoves(s, u)
    PROVE  Sound(Next1(u)) /\ (Next1(u).left = <<"writekey">> => s.left[1] = "chmodkey")
<1> DEFINE t == Next1(u)  h == s.left[1]
<1>1. /\ IsList(s.left) /\ s.left # <<>> /\ Ordered(s.cmd, s.left)
      /\ Shape(s) /\ Quiet(s) /\ Accounted(s)
  BY DEF Sound, Shape, Ordered
<1>2. /\ DOMAIN t = DOMAIN Idle /\ t.cmd = s.cmd /\ t.left = Tail(s.left)
      /\ t.out = (IF Len(s.left) = 1 THEN "ok" ELSE s.out)
      /\ t.read = u.read /\ t.doc = u.doc /\ t.key = u.key /\ t.shown = u.shown
      /\ t.wrote = u.wrote /\ t.told = u.told /\ t.others = s.others
  BY Moved DEF Same
<1> HIDE DEF t
<1>3. /\ 1 \in DOMAIN s.left /\ h \in Steps \cup Permissions /\ Fits(s.cmd, h)
      /\ (Tail(s.left) = <<>> <=> Len(s.left) = 1)
      /\ \A j \in DOMAIN t.left : j + 1 \in DOMAIN s.left /\ t.left[j] = s.left[j + 1] /\ 1 < j + 1
  BY <1>1, <1>2, ListTail DEF Ordered
<1>4. Ordered(t.cmd, t.left) /\ (t.left = <<"writekey">> => h = "chmodkey")
  BY <1>1, <1>2, TailOrdered
<1>5. Named(t)
  <2>1. (s.doc.name = s.cmd.name) \in BOOLEAN /\ (u.doc.name = s.cmd.name) \in BOOLEAN
    OBVIOUS
  <2>2. h \in NameSetters \/ (s.doc.name = s.cmd.name /\ h \notin NameSpoilers) => u.doc.name = s.cmd.name
    BY DEF DocMoves
  <2>3. Settled(s.left, s.doc.name = s.cmd.name, NameUsers(s.cmd), NameSetters, NameSpoilers)
    BY DEF Sound, Named
  <2>4. Settled(Tail(s.left), u.doc.name = s.cmd.name, NameUsers(s.cmd), NameSetters, NameSpoilers)
    BY <1>1, <2>1, <2>2, <2>3, TailSettled
  <2> QED
    BY <1>2, <2>4 DEF Named
<1>6. ReadNamed(t)
  <2>1. h \in ReadSetters \/ (s.read.name = s.cmd.name /\ h \notin {}) => u.read.name = s.cmd.name
    BY DEF DocMoves
  <2>2. Settled(s.left, s.read.name = s.cmd.name, ReadUsers, ReadSetters, {})
    BY DEF Sound, ReadNamed
  <2>3. Settled(Tail(s.left), u.read.name = s.cmd.name, ReadUsers, ReadSetters, {})
    BY <1>1, <2>1, <2>2, TailSettled
  <2> QED
    BY <1>2, <2>3 DEF ReadNamed
<1>7. Located(t)
  <2> SUFFICES ASSUME s.cmd.noun = "cookbook"
               PROVE  Settled(t.left, t.doc.name \in Names, {"upload"}, {"locate"}, DocSteps \cup {"pin", "backfill"})
    BY <1>2 DEF Located
  <2>1. h \in {"locate"} \/ (s.doc.name \in Names /\ h \notin DocSteps \cup {"pin", "backfill"}) => u.doc.name \in Names
    BY DEF DocMoves
  <2>2. Settled(s.left, s.doc.name \in Names, {"upload"}, {"locate"}, DocSteps \cup {"pin", "backfill"})
    BY DEF Sound, Located
  <2>4. (s.doc.name \in Names) \in BOOLEAN /\ (u.doc.name \in Names) \in BOOLEAN
    OBVIOUS
  <2>3. Settled(Tail(s.left), u.doc.name \in Names, {"upload"}, {"locate"}, DocSteps \cup {"pin", "backfill"})
    BY <1>1, <2>1, <2>2, <2>4, TailSettled
  <2> QED
    BY <1>2, <2>3
<1>8. Sealing(t)
  <2> SUFFICES ASSUME "secret" \in s.cmd.opts
               PROVE  Settled(t.left, t.doc.sealed = 1, {"put", "post"}, {"seal"}, DocSteps)
    BY <1>2 DEF Sealing
  <2>1. h \in {"seal"} \/ (s.doc.sealed = 1 /\ h \notin DocSteps) => u.doc.sealed = 1
    BY DEF DocMoves
  <2>2. Settled(s.left, s.doc.sealed = 1, {"put", "post"}, {"seal"}, DocSteps)
    BY DEF Sound, Sealing
  <2>3. Settled(Tail(s.left), u.doc.sealed = 1, {"put", "post"}, {"seal"}, DocSteps)
    BY <1>1, <2>1, <2>2, TailSettled
  <2> QED
    BY <1>2, <2>3
<1>9. KeyGoesOut(t)
  <2>1. Answered(s) \in BOOLEAN /\ Answered(u) \in BOOLEAN
    BY DEF Answered
  <2>2. h \in Carriers \/ (Answered(s) /\ h \notin Makers(s.cmd)) => Answered(u)
    BY DEF KeyMoves
  <2>3. Delivered(s.left, Answered(s), Carriers, Makers(s.cmd))
    BY DEF Sound, KeyGoesOut
  <2>4. Delivered(Tail(s.left), Answered(u), Carriers, Makers(s.cmd))
    BY <1>1, <2>1, <2>2, <2>3, TailDelivered
  <2>5. Answered(t) <=> Answered(u)
    BY <1>2 DEF Answered
  <2> QED
    BY <1>2, <2>1, <2>4, <2>5 DEF KeyGoesOut, Answered
<1>10. Quiet(t)
  <2> SUFFICES ASSUME s.cmd.verb # "upload"
               PROVE  /\ t.wrote # {} => \A j \in DOMAIN t.left : t.left[j] \notin Refusers(s.cmd) \cup {"postbag", "upload"}
                      /\ t.out \notin {"refused", "declined", "unchanged"}
    BY <1>2 DEF Quiet
  <2>1. t.out \notin {"refused", "declined", "unchanged"}
    BY <1>2
  <2>2. CASE u.wrote = s.wrote
    BY <1>1, <1>2, <1>3, <2>1, <2>2 DEF Quiet
  <2>3. CASE h \in Writers
    <3>1. Before(s.left, Writers, Refusers(s.cmd)) /\ Before(s.left, Writers, {"postbag", "upload"})
      BY <1>1 DEF Ordered
    <3>2. \A j \in DOMAIN t.left : t.left[j] \notin Refusers(s.cmd) \cup {"postbag", "upload"}
      BY <1>3, <2>3, <3>1 DEF Before
    <3> QED
      BY <2>1, <3>2
  <2> QED
    BY <2>2, <2>3 DEF WriteMoves, IsWrite
<1>11. Accounted(t) /\ t.wrote \cup t.told \cup t.others \subseteq Objects
  <2>1. CASE u.wrote = s.wrote /\ u.told = s.told
    BY <1>1, <1>2, <2>1 DEF Accounted, Doubt, Shape
  <2>2. ASSUME NEW object, IsWrite(s, object), u.wrote = s.wrote \cup {object},
               u.told = s.told \cup {object} \/ (u.told = s.told /\ s.cmd.noun # "acl" /\ (object = Target(s.cmd) \/ s.cmd.verb \in {"upload", "install"}))
        PROVE  Accounted(t) /\ t.wrote \cup t.told \cup t.others \subseteq Objects
    <3>1. object \in MayWrite(s.cmd) /\ object \in Objects
      BY <1>1, <2>2 DEF IsWrite, Accounted
    <3>2. t.wrote \subseteq MayWrite(t.cmd) /\ MayWrite(t.cmd) \subseteq Objects
      BY <1>1, <1>2, <2>2, <3>1 DEF Accounted
    <3>3. t.wrote \cup t.told \cup t.others \subseteq Objects
      BY <1>1, <1>2, <2>2, <3>1 DEF Shape
    <3>4. s.cmd.verb # "upload" => Doubt(t) \subseteq {object}
      BY <1>1, <1>2, <2>2, OneDoubt DEF Doubt
    <3>5. s.cmd.verb # "upload" /\ u.told = s.told \cup {object} => Doubt(t) = {}
      BY <1>2, <3>4 DEF Doubt
    <3>6. s.cmd.verb # "upload" => 
             Doubt(t) \subseteq IF s.cmd.noun = "acl" THEN {} ELSE IF s.cmd.verb = "install" THEN Objects ELSE {Target(s.cmd)}
      BY <2>2, <3>1, <3>4, <3>5
    <3> QED
      BY <1>2, <3>2, <3>3, <3>4, <3>6 DEF Accounted
  <2> QED
    BY <2>1, <2>2 DEF WriteMoves
<1>12. Shape(t)
  <2>1. t.out \in Outs /\ (t.left = <<>> <=> t.out # "running")
    BY <1>2, <1>3 DEF Outs
  <2>2. {t.key, t.shown} \subseteq Runs \cup {NoKey}
    BY <1>2 DEF KeyMoves
  <2>3. t.cmd.noun # "acl" => IsDoc(t.doc) /\ IsDoc(t.read)
    BY <1>2 DEF DocMoves
  <2> QED
    BY <1>2, <1>11, <2>1, <2>2, <2>3 DEF Shape
<1> QED
  BY <1>4, <1>5, <1>6, <1>7, <1>8, <1>9, <1>10, <1>11, <1>12 DEF Sound, t

\* A run that stops, because of a step that may, or with an error.
LEMMA StoppedFields ==
    ASSUME NEW s, DOMAIN s = DOMAIN Idle, NEW out
    PROVE  LET t == Stopped(s, out) IN
           /\ DOMAIN t = DOMAIN Idle /\ t.cmd = s.cmd /\ t.left = <<>> /\ t.out = out
           /\ t.read = s.read /\ t.doc = s.doc /\ t.key = s.key /\ t.shown = s.shown
           /\ t.wrote = s.wrote /\ t.told = s.told /\ t.others = s.others
  BY DEF Stopped, Idle

LEMMA Stops ==
    ASSUME NEW s, NEW u, NEW out, Sound(s), s.out = "running",
           DOMAIN u = DOMAIN Idle, u.cmd = s.cmd, u.read = s.read, u.doc = s.doc, u.key = s.key, u.shown = s.shown,
           u.others = s.others,
           \/ out \in {"refused", "declined", "unchanged"} /\ s.left[1] \in Refusers(s.cmd) /\ u.wrote = s.wrote /\ u.told = s.told
           \/ out = "error" /\ u.wrote = s.wrote /\ s.told \subseteq u.told /\ u.told \subseteq Objects
           \/ out = "error" /\ u.told = s.told /\ \E object : IsWrite(s, object) /\ u.wrote = s.wrote \cup {object}
    PROVE  Sound(Stopped(u, out))
<1> DEFINE t == Stopped(u, out)
<1>1. /\ IsList(s.left) /\ s.left # <<>> /\ Ordered(s.cmd, s.left)
      /\ Shape(s) /\ Quiet(s) /\ Accounted(s) /\ 1 \in DOMAIN s.left
  BY ListTail DEF Sound, Shape, Ordered
<1>2. /\ DOMAIN t = DOMAIN Idle /\ t.cmd = s.cmd /\ t.left = <<>> /\ t.out = out
      /\ t.read = s.read /\ t.doc = s.doc /\ t.key = s.key /\ t.shown = s.shown
      /\ t.wrote = u.wrote /\ t.told = u.told /\ t.others = s.others
  BY StoppedFields
<1> HIDE DEF t
<1>3. out \in Outs \ {"idle", "running", "ok"}
  BY DEF Outs
<1>4. KeyGoesOut(t)
  BY <1>2, <1>3 DEF KeyGoesOut
<1>5. Quiet(t)
  <2>1. s.left[1] \in Refusers(s.cmd) /\ s.cmd.verb # "upload" => s.wrote = {}
    BY <1>1 DEF Quiet
  <2>2. DOMAIN t.left = {}
    BY <1>2
  <2> QED
    BY <1>2, <2>1, <2>2 DEF Quiet
<1>6. Accounted(t) /\ t.wrote \cup t.told \cup t.others \subseteq Objects
  <2>1. CASE u.wrote = s.wrote /\ s.told \subseteq u.told /\ u.told \subseteq Objects
    <3>1. Doubt(t) \subseteq Doubt(s)
      BY <1>2, <2>1 DEF Doubt
    <3> QED
      BY <1>1, <1>2, <1>3, <2>1, <3>1 DEF Accounted, Shape
  <2>2. ASSUME NEW object, IsWrite(s, object), u.wrote = s.wrote \cup {object}, u.told = s.told
        PROVE  Accounted(t) /\ t.wrote \cup t.told \cup t.others \subseteq Objects
    <3>1. object \in MayWrite(s.cmd) /\ object \in Objects
      BY <1>1, <2>2 DEF IsWrite, Accounted
    <3>2. s.cmd.verb # "upload" => Doubt(t) \subseteq {object}
      BY <1>1, <1>2, <2>2, OneDoubt DEF Doubt
    <3> QED
      BY <1>1, <1>2, <1>3, <2>2, <3>1, <3>2 DEF Accounted, Shape
  <2>3. u.told = s.told => u.told \subseteq Objects
    BY <1>1 DEF Shape
  <2> QED
    BY <2>1, <2>2, <2>3
<1>7. Shape(t)
  BY <1>1, <1>2, <1>3, <1>6 DEF Shape
<1> QED
  BY <1>2, <1>4, <1>5, <1>6, <1>7, EmptyIsSound DEF t
-----------------------------------------------------------------------------
(* All runs, the server and this machine                                   *)

\* A step of one run that changes nothing else.
LEMMA LocalKeeps ==
    ASSUME IInv, NEW r \in Runs, NEW t, Sound(t), t.left # <<"writekey">>, Local(r, t)
    PROVE  IInv'
<1>1. DOMAIN run' = Runs /\ \A q \in Runs : run'[q] = IF q = r THEN t ELSE run[q]
  BY DEF Local, Becomes, IInv, RunsSound
<1>2. server' = server /\ disk' = disk /\ host' = host
  BY DEF Local
<1>3. ServerSound'
  BY <1>2 DEF IInv, ServerSound
<1>4. RunsSound'
  BY <1>1 DEF IInv, RunsSound
<1>5. DiskSound'
  BY <1>1, <1>2 DEF IInv, DiskSound
<1> QED
  BY <1>3, <1>4, <1>5 DEF IInv

\* Others learn that objects changed, which is all.
LEMMA OthersAreSound ==
    ASSUME NEW s, Sound(s), NEW more, more \subseteq Objects
    PROVE  LET t == [s EXCEPT !.others = @ \cup more] IN Sound(t) /\ t.left = s.left
<1> DEFINE t == [s EXCEPT !.others = @ \cup more]
<1>1. DOMAIN s = DOMAIN Idle /\ s.others \subseteq Objects
  BY DEF Sound, Shape
<1>2. /\ DOMAIN t = DOMAIN Idle /\ t.cmd = s.cmd /\ t.left = s.left /\ t.out = s.out
      /\ t.read = s.read /\ t.doc = s.doc /\ t.key = s.key /\ t.shown = s.shown
      /\ t.wrote = s.wrote /\ t.told = s.told /\ t.others = s.others \cup more
  BY <1>1 DEF Idle
<1> HIDE DEF t
<1>3. Shape(t)
  BY <1>2 DEF Sound, Shape
<1>4. Ordered(t.cmd, t.left) /\ Quiet(t) /\ Accounted(t)
  BY <1>2 DEF Sound, Quiet, Accounted, Doubt
<1>5. Named(t) /\ ReadNamed(t) /\ Located(t) /\ Sealing(t)
  BY <1>2 DEF Sound, Named, ReadNamed, Located, Sealing
<1>6. KeyGoesOut(t)
  BY <1>2 DEF Sound, KeyGoesOut, Answered
<1>7. Sound(t) /\ t.left = s.left
  BY <1>2, <1>3, <1>4, <1>5, <1>6 DEF Sound
<1> QED
  BY <1>7 DEF t

\* A request the server obeys.
LEMMA AppliedKeeps ==
    ASSUME IInv, NEW r \in Runs, NEW to, NEW t, Sound(t), t.left # <<"writekey">>,
           DOMAIN to = Objects, \A x \in Objects : Kept(x, to[x]), Applied(r, to, t)
    PROVE  IInv'
<1>1. server' = to /\ disk' = disk /\ host' = host
  BY DEF Applied
<1>2. DOMAIN run' = Runs /\ \A q \in Runs : run'[q] = IF q = r THEN t
        ELSE IF run[q].out = "running" THEN [run[q] EXCEPT !.others = @ \cup Touched(to)] ELSE run[q]
  BY DEF Applied
<1>3. Touched(to) \subseteq Objects
  BY DEF Touched
<1>4. \A q \in Runs : Sound(run'[q]) /\ (run'[q].left = <<"writekey">> => run[q].left = <<"writekey">>)
  <2> SUFFICES ASSUME NEW q \in Runs
               PROVE  Sound(run'[q]) /\ (run'[q].left = <<"writekey">> => run[q].left = <<"writekey">>)
    OBVIOUS
  <2>1. Sound(run[q])
    BY DEF IInv, RunsSound
  <2>2. CASE q = r
    BY <1>2, <2>2
  <2>3. CASE q # r /\ run[q].out = "running"
    <3> DEFINE t2 == [run[q] EXCEPT !.others = @ \cup Touched(to)]
    <3>1. run'[q] = t2
      BY <1>2, <2>3
    <3>2. Sound(t2) /\ t2.left = run[q].left
      BY <1>3, <2>1, OthersAreSound
    <3> QED
      BY <3>1, <3>2
  <2>4. CASE q # r /\ run[q].out # "running"
    BY <1>2, <2>1, <2>4
  <2> QED
    BY <2>2, <2>3, <2>4
<1>5. ServerSound' /\ RunsSound'
  BY <1>1, <1>2, <1>4 DEF IInv, ServerSound, RunsSound
<1>6. DiskSound'
  BY <1>1, <1>4 DEF IInv, DiskSound
<1> QED
  BY <1>5, <1>6 DEF IInv

\* What is known of a run whose next step is one of these.
LEMMA AtStep ==
    ASSUME IInv, NEW r \in Runs, NEW steps, At(r, steps)
    PROVE  LET s == run[r] IN
           /\ Sound(s) /\ Same(s, s) /\ s.out = "running" /\ s.left # <<>> /\ IsList(s.left) /\ Head(s.left) = s.left[1]
           /\ s.left[1] \in steps /\ Fits(s.cmd, s.left[1]) /\ s.left[1] \in Steps \cup Permissions /\ 1 \in DOMAIN s.left
           /\ DOMAIN s = DOMAIN Idle /\ {s.key, s.shown} \subseteq Runs \cup {NoKey}
           /\ s.cmd.noun # "acl" => IsDoc(s.doc) /\ IsDoc(s.read)
<1> DEFINE s == run[r]
<1>1. Sound(s) /\ s.out = "running" /\ s.left # <<>> /\ Head(s.left) \in steps
  BY DEF At, IInv, RunsSound
<1>2. Ordered(s.cmd, s.left) /\ Shape(s)
  BY <1>1 DEF Sound
<1>3. IsList(s.left)
  BY <1>2 DEF Ordered
<1>4. Head(s.left) = s.left[1] /\ 1 \in DOMAIN s.left
  BY <1>1, <1>3, ListTail
<1>5. Fits(s.cmd, s.left[1]) /\ s.left[1] \in Steps \cup Permissions
  BY <1>2, <1>4 DEF Ordered
<1> QED
  BY <1>1, <1>2, <1>3, <1>4, <1>5 DEF Shape, Same

\* A step that leaves the document, the keys and the requests alone.
LEMMA PlainMoves ==
    ASSUME NEW s, Sound(s), s.out = "running", DOMAIN s = DOMAIN Idle, NEW u, Same(s, u), 
           u.doc = s.doc, u.read = s.read, s.left[1] \notin DocSteps \cup {"pin", "seal"}
    PROVE  DocMoves(s, u)
  BY DEF DocMoves, DocSteps, NameSetters, ReadSetters, Sound, Shape, Same
LEMMA KeysMove ==
    ASSUME NEW s, Sound(s), NEW u, u.key = s.key, u.shown = s.shown, s.left[1] \notin Carriers
    PROVE  KeyMoves(s, u)
  BY DEF KeyMoves, Sound, Shape, Answered

LEMMA MovesOn ==
    ASSUME IInv, NEW r \in Runs, run[r].left[1] \notin DocSteps \cup {"pin", "seal", "chmodkey"} \cup Carriers,
           run[r].out = "running", Local(r, Next1(run[r]))
    PROVE  IInv'
<1> DEFINE s == run[r]
<1>1. Sound(s) /\ DOMAIN s = DOMAIN Idle
  BY DEF IInv, RunsSound, Sound, Shape
<1>2. Same(s, s) /\ WriteMoves(s, s)
  BY <1>1 DEF Same, WriteMoves
<1>3. DocMoves(s, s)
  BY <1>1, <1>2, PlainMoves
<1>4. KeyMoves(s, s)
  BY <1>1, KeysMove
<1>5. Sound(Next1(s)) /\ (Next1(s).left = <<"writekey">> => s.left[1] = "chmodkey")
  BY <1>1, <1>2, <1>3, <1>4, Moves
<1> QED
  BY <1>5, LocalKeeps

LEMMA Refuses ==
    ASSUME IInv, NEW r \in Runs, run[r].out = "running", NEW out \in {"refused", "declined", "unchanged"},
           run[r].left[1] \in Refusers(run[r].cmd), Local(r, Stopped(run[r], out))
    PROVE  IInv'
<1> DEFINE s == run[r]
<1>1. Sound(s) /\ DOMAIN s = DOMAIN Idle
  BY DEF IInv, RunsSound, Sound, Shape
<1>2. Sound(Stopped(s, out)) /\ Stopped(s, out).left = <<>>
  BY <1>1, Stops, StoppedFields
<1>3. <<>> # <<"writekey">>
  OBVIOUS
<1> QED
  BY <1>2, <1>3, LocalKeeps

LEMMA Fails ==
    ASSUME IInv, NEW r \in Runs, run[r].out = "running", Fail(r)
    PROVE  IInv'
<1> DEFINE s == run[r]
<1>1. Sound(s) /\ DOMAIN s = DOMAIN Idle /\ s.told \subseteq Objects
  BY DEF IInv, RunsSound, Sound, Shape
<1>2. Sound(Stopped(s, "error")) /\ Stopped(s, "error").left = <<>>
  BY <1>1, Stops, StoppedFields
<1>3. <<>> # <<"writekey">>
  OBVIOUS
<1> QED
  BY <1>2, <1>3, LocalKeeps DEF Fail

\* A request that changes the server: it is obeyed, its answer may be lost, or it fails.
LEMMA WriteIsMoved ==
    ASSUME NEW u, DOMAIN u = DOMAIN Idle, NEW more
    PROVE  [Next1(u) EXCEPT !.wrote = @ \cup more] = Next1([u EXCEPT !.wrote = @ \cup more])
  BY DEF Next1, Idle

LEMMA Writes ==
    ASSUME IInv, NEW r \in Runs, run[r].out = "running", NEW object, NEW to, NEW u,
           Write(r, object, to, Next1(u)), IsWrite(run[r], object),
           DOMAIN to = Objects, \A x \in Objects : Kept(x, to[x]),
           Same(run[r], u), DocMoves(run[r], u), KeyMoves(run[r], u), u.wrote = run[r].wrote, run[r].left[1] # "chmodkey",
           \/ u.told = run[r].told \cup {object}
           \/ /\ u.told = run[r].told /\ run[r].cmd.noun # "acl"
              /\ object = Target(run[r].cmd) \/ run[r].cmd.verb \in {"upload", "install"}
    PROVE  IInv'
<1> DEFINE s == run[r]  v == [u EXCEPT !.wrote = @ \cup {object}]  w == [s EXCEPT !.wrote = @ \cup {object}]
<1>1. Sound(s) /\ DOMAIN s = DOMAIN Idle /\ DOMAIN u = DOMAIN Idle
  BY DEF IInv, RunsSound, Sound, Shape, Same
<1>2. CASE Applied(r, to, [Next1(u) EXCEPT !.wrote = @ \cup {object}])
  <2>1. /\ DOMAIN v = DOMAIN Idle /\ v.cmd = u.cmd /\ v.left = u.left /\ v.out = u.out /\ v.others = u.others
        /\ v.doc = u.doc /\ v.read = u.read /\ v.key = u.key /\ v.shown = u.shown
        /\ v.wrote = s.wrote \cup {object} /\ v.told = u.told
    BY <1>1 DEF Idle
  <2>2. Applied(r, to, Next1(v))
    BY <1>1, <1>2, WriteIsMoved
  <2> HIDE DEF v
  <2>3. Same(s, v) /\ DocMoves(s, v)
    BY <2>1 DEF Same, DocMoves
  <2>4. KeyMoves(s, v)
    BY <2>1 DEF KeyMoves, Answered
  <2>5. WriteMoves(s, v)
    BY <2>1 DEF WriteMoves
  <2>6. Sound(Next1(v)) /\ Next1(v).left # <<"writekey">>
    BY <1>1, <2>3, <2>4, <2>5, Moves
  <2> QED
    BY <2>2, <2>6, AppliedKeeps
<1>3. CASE Applied(r, to, Stopped(w, "error"))
  <2>1. /\ DOMAIN w = DOMAIN Idle /\ w.cmd = s.cmd /\ w.others = s.others
        /\ w.doc = s.doc /\ w.read = s.read /\ w.key = s.key /\ w.shown = s.shown
        /\ w.wrote = s.wrote \cup {object} /\ w.told = s.told
    BY <1>1 DEF Idle
  <2> HIDE DEF w
  <2>2. Sound(Stopped(w, "error"))
    BY <1>1, <2>1, Stops
  <2>3. Stopped(w, "error").left = <<>> /\ <<>> # <<"writekey">>
    BY <2>1, StoppedFields
  <2> QED
    BY <1>3, <2>2, <2>3, AppliedKeeps
<1>4. CASE Fail(r)
  BY <1>4, Fails
<1> QED
  BY <1>2, <1>3, <1>4 DEF Write
-----------------------------------------------------------------------------
(* The actions                                                             *)

LEMMA StartKeeps ==
    ASSUME IInv, NEW r \in Runs, Start(r)
    PROVE  IInv'
<1>1. PICK c \in CommandsOf[r] : run' = [run EXCEPT ![r] = [Idle EXCEPT !.cmd = c, !.left = c.steps, !.out = "running"]]
  BY DEF Start
<1> DEFINE t == [Idle EXCEPT !.cmd = c, !.left = c.steps, !.out = "running"]
<1>2. Ready(c) /\ MayWrite(c) \subseteq Objects
  BY CommandsReady
<1>3. Sound(t) /\ t.left = c.steps
  <2>1. t.left = c.steps
    BY DEF Idle
  <2> QED
    BY <1>2, <2>1, StartIsSound
<1>4. t.left # <<"writekey">>
  <2>1. \A q : q = <<"writekey">> => 1 \in DOMAIN q /\ q[1] \in KeySteps
    BY DEF KeySteps
  <2> QED
    BY <1>2, <1>3, <2>1 DEF Ready
<1>5. Local(r, t)
  BY <1>1 DEF Start, Local, Becomes
<1> QED
  BY <1>3, <1>4, <1>5, LocalKeeps

\* What may be found wanting, and what may fail.
TrySteps == {"check", "prompt", "flags", "profile", "connect", "secret", "site", "identity"}
AskSteps == {"list", "search", "cookbooks", "matches", "universe", "category", "record", "download", "memberorgs", "save"}
LEMMA TryKeeps ==
    ASSUME IInv, NEW r \in Runs, NEW step \in TrySteps, Try(r, step)
    PROVE  IInv'
<1>1. At(r, {step})
  BY DEF Try
<1>2. run[r].out = "running" /\ run[r].left[1] = step
  BY <1>1, AtStep
<1>3. run[r].left[1] \in Refusers(run[r].cmd)
  BY <1>2 DEF Refusers, TrySteps
<1>4. run[r].left[1] \notin DocSteps \cup {"pin", "seal", "chmodkey"} \cup Carriers
  BY <1>2 DEF TrySteps, DocSteps, Carriers
<1> QED
  BY <1>2, <1>3, <1>4, MovesOn, Refuses DEF Try, Refuse

LEMMA AskKeeps ==
    ASSUME IInv, NEW r \in Runs, NEW step \in AskSteps, Ask(r, step)
    PROVE  IInv'
<1>1. At(r, {step})
  BY DEF Ask
<1>2. run[r].out = "running" /\ run[r].left[1] = step
  BY <1>1, AtStep
<1>3. run[r].left[1] \notin DocSteps \cup {"pin", "seal", "chmodkey"} \cup Carriers
  BY <1>2 DEF AskSteps, DocSteps, Carriers
<1> QED
  BY <1>2, <1>3, MovesOn, Fails DEF Ask

LEMMA HostsKeep ==
    ASSUME IInv, NEW r \in Runs, NodeSSHTargets(r)
    PROVE  IInv'
<1>1. At(r, {"hosts"})
  BY DEF NodeSSHTargets
<1>2. run[r].out = "running" /\ run[r].left[1] = "hosts"
  BY <1>1, AtStep
<1>3. run[r].left[1] \in Refusers(run[r].cmd) /\ run[r].left[1] \notin DocSteps \cup {"pin", "seal", "chmodkey"} \cup Carriers
  BY <1>2 DEF Refusers, DocSteps, Carriers
<1> QED
  BY <1>2, <1>3, MovesOn, Refuses, Fails DEF NodeSSHTargets, Refuse

\* A step that changes the document, or what was read.
OnlyDocs(s, u) == Same(s, u) /\ u.key = s.key /\ u.shown = s.shown /\ u.wrote = s.wrote /\ u.told = s.told
LEMMA DocFields ==
    ASSUME NEW s, DOMAIN s = DOMAIN Idle, NEW d, NEW u, u = [s EXCEPT !.doc = d]
    PROVE  OnlyDocs(s, u) /\ u.doc = d /\ u.read = s.read
  BY DEF Idle, OnlyDocs, Same

LEMMA DocKeeps ==
    ASSUME IInv, NEW r \in Runs, run[r].out = "running", NEW u, OnlyDocs(run[r], u), DocMoves(run[r], u),
           run[r].left[1] \in DocSteps \cup {"pin", "seal", "backfill", "ask"}, Local(r, Next1(u))
    PROVE  IInv'
<1> DEFINE s == run[r]
<1>1. Sound(s)
  BY DEF IInv, RunsSound
<1>2. Same(s, u) /\ WriteMoves(s, u)
  BY DEF OnlyDocs, WriteMoves
<1>3. s.left[1] \notin Carriers /\ s.left[1] # "chmodkey"
  BY DEF Carriers, DocSteps
<1>4. KeyMoves(s, u)
  BY <1>1, <1>3, KeysMove DEF OnlyDocs
<1>5. Sound(Next1(u)) /\ Next1(u).left # <<"writekey">>
  BY <1>1, <1>2, <1>3, <1>4, Moves
<1> QED
  BY <1>5, LocalKeeps

LEMMA ConfirmKeeps ==
    ASSUME IInv, NEW r \in Runs, ConfirmDeletePivotal(r)
    PROVE  IInv'
<1> DEFINE s == run[r]  u == [s EXCEPT !.agreed = TRUE]
<1>1. At(r, {"ask"})
  BY DEF ConfirmDeletePivotal
<1>2. s.out = "running" /\ s.left[1] = "ask" /\ Sound(s) /\ DOMAIN s = DOMAIN Idle
  BY <1>1, AtStep
<1>3. s.left[1] \in Refusers(s.cmd) /\ s.left[1] \notin DocSteps \cup {"pin", "seal"}
  BY <1>2 DEF Refusers, DocSteps
<1>4. OnlyDocs(s, u) /\ u.doc = s.doc /\ u.read = s.read
  BY <1>2 DEF OnlyDocs, Same, Idle
<1> HIDE DEF u
<1>5. DocMoves(s, u)
  BY <1>2, <1>3, <1>4, PlainMoves DEF OnlyDocs
<1>6. CASE Local(r, Next1(u))
  BY <1>2, <1>4, <1>5, <1>6, DocKeeps
<1>7. CASE Local(r, Stopped(s, "declined"))
  BY <1>2, <1>3, <1>7, Refuses
<1> QED
  BY <1>6, <1>7 DEF ConfirmDeletePivotal, u

\* Only reading commands and grants are about an ACL, which has no document.
LEMMA HasDoc ==
    ASSUME NEW s, Sound(s), s.left # <<>>, IsList(s.left), Fits(s.cmd, s.left[1]),
           s.left[1] \in Steps \ {"check", "connect", "list", "search", "readacl"}
    PROVE  s.cmd.noun # "acl" /\ IsDoc(s.doc) /\ IsDoc(s.read)
<1>1. s.cmd.noun # "acl"
  BY PermsAssumption DEF Fits, Permissions
<1> QED
  BY <1>1 DEF Sound, Shape

LEMMA FilesAreDocs ==
    ASSUME NEW noun, NEW d \in FileDocs(noun)
    PROVE  IsDoc(d)
  BY DEF FileDocs, Doc, IsDoc

LEMMA ReadFileKeeps ==
    ASSUME IInv, NEW r \in Runs, ReadFile(r)
    PROVE  IInv'
<1> DEFINE s == run[r]
<1>1. At(r, {"file"})
  BY DEF ReadFile
<1>2. s.out = "running" /\ s.left[1] = "file" /\ Sound(s) /\ DOMAIN s = DOMAIN Idle /\ IsDoc(s.read)
  BY <1>1, AtStep, HasDoc DEF Steps
<1>3. s.left[1] \in Refusers(s.cmd) /\ s.left[1] \in DocSteps /\ s.left[1] \notin NameSetters \cup ReadSetters \cup {"locate", "seal"}
  BY <1>2 DEF Refusers, DocSteps, NameSetters, ReadSetters
<1>4. ASSUME NEW d \in FileDocs(s.cmd.noun), Local(r, Next1([s EXCEPT !.doc = d]))
      PROVE  IInv'
  <2> DEFINE u == [s EXCEPT !.doc = d]
  <2>1. OnlyDocs(s, u) /\ u.doc = d /\ u.read = s.read
    BY <1>2, DocFields
  <2>2. IsDoc(d)
    BY FilesAreDocs
  <2> HIDE DEF u
  <2>3. DocMoves(s, u)
    BY <1>2, <1>3, <2>1, <2>2 DEF DocMoves, NameSpoilers
  <2>4. Local(r, Next1(u))
    BY <1>4 DEF u
  <2> QED
    BY <1>2, <1>3, <2>1, <2>3, <2>4, DocKeeps
<1> QED
  BY <1>2, <1>3, <1>4, Refuses DEF ReadFile, Refuse

LEMMA ReadItemFileKeeps ==
    ASSUME IInv, NEW r \in Runs, ReadItemFile(r)
    PROVE  IInv'
<1> DEFINE s == run[r]
<1>1. At(r, {"itemfile"})
  BY DEF ReadItemFile
<1>2. s.out = "running" /\ s.left[1] = "itemfile" /\ Sound(s) /\ DOMAIN s = DOMAIN Idle /\ IsDoc(s.read)
  BY <1>1, AtStep, HasDoc DEF Steps
<1>3. s.left[1] \in Refusers(s.cmd) /\ s.left[1] \in DocSteps /\ s.left[1] \notin ReadSetters \cup {"locate", "seal"}
  BY <1>2 DEF Refusers, DocSteps, ReadSetters
<1>4. ASSUME NEW n, n = s.cmd.name, NEW k \in {0, 1}, NEW d, d = [Doc(n, {"b"}) EXCEPT !.sealed = k],
             Local(r, Next1([s EXCEPT !.doc = d]))
      PROVE  IInv'
  <2> DEFINE u == [s EXCEPT !.doc = d]
  <2>1. OnlyDocs(s, u) /\ u.doc = d /\ u.read = s.read
    BY <1>2, DocFields
  <2>2. IsDoc(d) /\ d.name = s.cmd.name
    BY <1>4 DEF Doc, IsDoc
  <2> HIDE DEF u
  <2>3. DocMoves(s, u)
    BY <1>2, <1>3, <2>1, <2>2 DEF DocMoves
  <2>4. Local(r, Next1(u))
    BY <1>4 DEF u
  <2> QED
    BY <1>2, <1>3, <2>1, <2>3, <2>4, DocKeeps
<1>5. CASE Refuse(r)
  BY <1>2, <1>3, <1>5, Refuses DEF Refuse
<1> QED
  BY <1>4, <1>5 DEF ReadItemFile

LEMMA BlankKeeps ==
    ASSUME IInv, NEW r \in Runs, Blank(r)
    PROVE  IInv'
<1> DEFINE s == run[r]  d == Doc(s.cmd.name, {})  u == [s EXCEPT !.doc = d, !.read = d]
<1>1. At(r, {"blank", "stub"})
  BY DEF Blank
<1>2. s.out = "running" /\ s.left[1] \in {"blank", "stub"} /\ Sound(s) /\ DOMAIN s = DOMAIN Idle
  BY <1>1, AtStep
<1>3. s.left[1] \in DocSteps /\ s.left[1] \notin {"locate", "seal"}
  BY <1>2 DEF DocSteps
<1>4. IsDoc(d) /\ d.name = s.cmd.name
  BY DEF Doc, IsDoc
<1>6. Local(r, Next1(u)) /\ u = [s EXCEPT !.doc = d, !.read = d]
  BY DEF Blank
<1> HIDE DEF u, d
<1>5. OnlyDocs(s, u) /\ u.doc = d /\ u.read = d
  BY <1>2, <1>6 DEF Idle, OnlyDocs, Same
<1>7. DocMoves(s, u)
  BY <1>3, <1>4, <1>5 DEF DocMoves
<1> QED
  BY <1>2, <1>3, <1>5, <1>6, <1>7, DocKeeps

LEMMA EditorKeeps ==
    ASSUME IInv, NEW r \in Runs, Editor(r)
    PROVE  IInv'
<1> DEFINE s == run[r]
<1>1. At(r, {"editor"})
  BY DEF Editor
<1>2. s.out = "running" /\ s.left[1] = "editor" /\ Sound(s) /\ DOMAIN s = DOMAIN Idle /\ IsDoc(s.read)
  BY <1>1, AtStep, HasDoc DEF Steps
<1>3. s.left[1] \in Refusers(s.cmd) /\ s.left[1] \in DocSteps /\ s.left[1] \notin NameSetters \cup ReadSetters \cup {"locate", "seal"}
  BY <1>2 DEF Refusers, DocSteps, NameSetters, ReadSetters
<1>4. ASSUME NEW n, NEW v, NEW d, d = [s.read EXCEPT !.name = n, !.val = v], Local(r, Next1([s EXCEPT !.doc = d]))
      PROVE  IInv'
  <2> DEFINE u == [s EXCEPT !.doc = d]
  <2>1. OnlyDocs(s, u) /\ u.doc = d /\ u.read = s.read
    BY <1>2, DocFields
  <2>2. IsDoc(d)
    BY <1>2, <1>4 DEF IsDoc
  <2> HIDE DEF u
  <2>3. DocMoves(s, u)
    BY <1>2, <1>3, <2>1, <2>2 DEF DocMoves, NameSpoilers
  <2>4. Local(r, Next1(u))
    BY <1>4 DEF u
  <2> QED
    BY <1>2, <1>3, <2>1, <2>3, <2>4, DocKeeps
<1>5. CASE Refuse(r)
  BY <1>2, <1>3, <1>5, Refuses DEF Refuse
<1> QED
  BY <1>4, <1>5 DEF Editor

\* What an edit of a read document reads has the name the command was given.
LEMMA ReadIsNamed ==
    ASSUME NEW s, Sound(s), s.left # <<>>, IsList(s.left), s.left[1] \in ReadUsers
    PROVE  s.read.name = s.cmd.name
<1>1. (s.read.name = s.cmd.name) \in BOOLEAN
  OBVIOUS
<1>2. Settled(s.left, s.read.name = s.cmd.name, ReadUsers, ReadSetters, {})
  BY DEF Sound, ReadNamed
<1> QED
  BY <1>1, <1>2, HeadSettled

LEMMA ItemEditorKeeps ==
    ASSUME IInv, NEW r \in Runs, ItemEditor(r)
    PROVE  IInv'
<1> DEFINE s == run[r]
<1>1. At(r, {"itemeditor"})
  BY DEF ItemEditor
<1>2. s.out = "running" /\ s.left[1] = "itemeditor" /\ Sound(s) /\ DOMAIN s = DOMAIN Idle /\ IsDoc(s.read)
  BY <1>1, AtStep, HasDoc DEF Steps
<1>3. s.left[1] \in Refusers(s.cmd) /\ s.left[1] \in DocSteps /\ s.left[1] \notin ReadSetters \cup {"locate", "seal"}
  BY <1>2 DEF Refusers, DocSteps, ReadSetters
<1>6. s.read.name = s.cmd.name
  BY <1>1, <1>2, AtStep, ReadIsNamed DEF ReadUsers
<1>4. ASSUME NEW v, NEW d, d = [s.read EXCEPT !.val = v], Local(r, Next1([s EXCEPT !.doc = d]))
      PROVE  IInv'
  <2> DEFINE u == [s EXCEPT !.doc = d]
  <2>1. OnlyDocs(s, u) /\ u.doc = d /\ u.read = s.read
    BY <1>2, DocFields
  <2>2. IsDoc(d) /\ d.name = s.cmd.name
    BY <1>2, <1>4, <1>6 DEF IsDoc
  <2> HIDE DEF u
  <2>3. DocMoves(s, u)
    BY <1>2, <1>3, <1>6, <2>1, <2>2 DEF DocMoves
  <2>4. Local(r, Next1(u))
    BY <1>4 DEF u
  <2> QED
    BY <1>2, <1>3, <2>1, <2>3, <2>4, DocKeeps
<1>5. CASE Refuse(r)
  BY <1>2, <1>3, <1>5, Refuses DEF Refuse
<1> QED
  BY <1>4, <1>5 DEF ItemEditor

LEMMA CompareKeeps ==
    ASSUME IInv, NEW r \in Runs, Compare(r)
    PROVE  IInv'
<1>1. At(r, {"compare"})
  BY DEF Compare
<1>2. run[r].out = "running" /\ run[r].left[1] = "compare"
  BY <1>1, AtStep
<1>3. run[r].left[1] \in Refusers(run[r].cmd) /\ run[r].left[1] \notin DocSteps \cup {"pin", "seal", "chmodkey"} \cup Carriers
  BY <1>2 DEF Refusers, DocSteps, Carriers
<1>4. Local(r, Stopped(run[r], "unchanged")) \/ Local(r, Next1(run[r]))
  BY DEF Compare
<1> QED
  BY <1>2, <1>3, <1>4, MovesOn, Refuses

LEMMA PinKeeps ==
    ASSUME IInv, NEW r \in Runs, Pin(r)
    PROVE  IInv'
<1> DEFINE s == run[r]  u == [s EXCEPT !.doc.name = s.cmd.name]
<1>1. At(r, {"pin", "backfill"})
  BY DEF Pin
<1>2. /\ s.out = "running" /\ s.left[1] \in {"pin", "backfill"} /\ Sound(s) /\ DOMAIN s = DOMAIN Idle
      /\ IsDoc(s.read) /\ IsDoc(s.doc) /\ Head(s.left) = s.left[1]
  BY <1>1, AtStep, HasDoc DEF Steps
<1>3. s.left[1] \notin DocSteps \cup {"seal", "chmodkey"} \cup Carriers
  BY <1>2 DEF DocSteps, Carriers
<1>4. OnlyDocs(s, u) /\ u.read = s.read /\ IsDoc(u.doc) /\ u.doc.name = s.cmd.name /\ u.doc.sealed = s.doc.sealed
  <2> DEFINE d == [s.doc EXCEPT !.name = s.cmd.name]
  <2>1. u = [s EXCEPT !.doc = d]
    OBVIOUS
  <2>2. IsDoc(d) /\ d.name = s.cmd.name /\ d.sealed = s.doc.sealed
    BY <1>2 DEF IsDoc
  <2> HIDE DEF u, d
  <2> QED
    BY <1>2, <2>1, <2>2, DocFields
<1>5. CASE Local(r, Next1(u))
  <2> HIDE DEF u
  <2>1. DocMoves(s, u)
    BY <1>2, <1>3, <1>4 DEF DocMoves, DocSteps, ReadSetters
  <2> QED
    BY <1>2, <1>4, <1>5, <2>1, DocKeeps
<1>6. CASE s.left[1] = "backfill" /\ Local(r, Next1(s))
  BY <1>2, <1>3, <1>6, MovesOn
<1>7. \/ Local(r, Next1(u))
      \/ s.left[1] = "backfill" /\ Local(r, Next1(s))
  BY <1>2 DEF Pin
<1> QED
  BY <1>5, <1>6, <1>7

LEMMA ChangeKeeps ==
    ASSUME IInv, NEW r \in Runs, Change(r)
    PROVE  IInv'
<1> DEFINE s == run[r]
<1>1. At(r, {"change"})
  BY DEF Change
<1>2. s.out = "running" /\ s.left[1] = "change" /\ Sound(s) /\ DOMAIN s = DOMAIN Idle /\ IsDoc(s.read)
  BY <1>1, AtStep, HasDoc DEF Steps
<1>3. s.left[1] \in DocSteps /\ s.left[1] \notin ReadSetters \cup {"locate", "seal"}
  BY <1>2 DEF DocSteps, ReadSetters
<1>6. s.read.name = s.cmd.name
  BY <1>1, <1>2, AtStep, ReadIsNamed DEF ReadUsers
<1>4. ASSUME NEW v, NEW d, d = [s.read EXCEPT !.val = v], Local(r, Next1([s EXCEPT !.doc = d]))
      PROVE  IInv'
  <2> DEFINE u == [s EXCEPT !.doc = d]
  <2>1. OnlyDocs(s, u) /\ u.doc = d /\ u.read = s.read
    BY <1>2, DocFields
  <2>2. IsDoc(d) /\ d.name = s.cmd.name
    BY <1>2, <1>4, <1>6 DEF IsDoc
  <2> HIDE DEF u
  <2>3. DocMoves(s, u)
    BY <1>2, <1>3, <1>6, <2>1, <2>2 DEF DocMoves
  <2>4. Local(r, Next1(u))
    BY <1>4 DEF u
  <2> QED
    BY <1>2, <1>3, <2>1, <2>3, <2>4, DocKeeps
<1> QED
  BY <1>4 DEF Change

LEMMA SealKeeps ==
    ASSUME IInv, NEW r \in Runs, Seal(r)
    PROVE  IInv'
<1> DEFINE s == run[r]  u == [s EXCEPT !.doc.sealed = 1]
<1>1. At(r, {"seal"})
  BY DEF Seal
<1>2. s.out = "running" /\ s.left[1] = "seal" /\ Sound(s) /\ DOMAIN s = DOMAIN Idle /\ IsDoc(s.read) /\ IsDoc(s.doc)
  BY <1>1, AtStep, HasDoc DEF Steps
<1>3. s.left[1] \in Refusers(s.cmd) /\ s.left[1] \notin DocSteps \cup NameSetters \cup ReadSetters \cup {"locate"}
  BY <1>2 DEF Refusers, DocSteps, NameSetters, ReadSetters
<1>4. OnlyDocs(s, u) /\ u.read = s.read /\ IsDoc(u.doc) /\ u.doc.name = s.doc.name /\ u.doc.sealed = 1
  <2> DEFINE d == [s.doc EXCEPT !.sealed = 1]
  <2>1. u = [s EXCEPT !.doc = d]
    OBVIOUS
  <2>2. IsDoc(d) /\ d.name = s.doc.name /\ d.sealed = 1
    BY <1>2 DEF IsDoc
  <2> HIDE DEF u, d
  <2> QED
    BY <1>2, <2>1, <2>2, DocFields
<1>5. CASE Local(r, Next1(u))
  <2> HIDE DEF u
  <2>1. DocMoves(s, u)
    BY <1>2, <1>3, <1>4 DEF DocMoves
  <2> QED
    BY <1>2, <1>4, <1>5, <2>1, DocKeeps
<1>6. CASE Refuse(r)
  BY <1>2, <1>3, <1>6, Refuses DEF Refuse
<1> QED
  BY <1>5, <1>6 DEF Seal

\* A document read from the server is under its own name.
LEMMA ReadKeeps ==
    ASSUME IInv, NEW r \in Runs, NEW d, At(r, {"get", "unseal"}), IsDoc(d), d.name = run[r].cmd.name,
           Local(r, Next1([run[r] EXCEPT !.read = d, !.doc = d]))
    PROVE  IInv'
<1> DEFINE s == run[r]  u == [s EXCEPT !.read = d, !.doc = d]
<1>1. s.out = "running" /\ s.left[1] \in {"get", "unseal"} /\ Sound(s) /\ DOMAIN s = DOMAIN Idle
  BY AtStep
<1>2. s.left[1] \in DocSteps /\ s.left[1] \notin {"locate", "seal"}
  BY <1>1 DEF DocSteps
<1>3. Local(r, Next1(u)) /\ u = [s EXCEPT !.read = d, !.doc = d]
  OBVIOUS
<1> HIDE DEF u
<1>4. OnlyDocs(s, u) /\ u.doc = d /\ u.read = d
  BY <1>1, <1>3 DEF Idle, OnlyDocs, Same
<1>5. DocMoves(s, u)
  BY <1>2, <1>4 DEF DocMoves
<1> QED
  BY <1>1, <1>2, <1>3, <1>4, <1>5, DocKeeps

LEMMA GetKeeps ==
    ASSUME IInv, NEW r \in Runs, Get(r)
    PROVE  IInv'
<1> DEFINE s == run[r]  d == server[Target(s.cmd)]
<1>1. At(r, {"get"})
  BY DEF Get
<1>7. s.out = "running" /\ s.left[1] \in {"get", "unseal"} /\ Fits(s.cmd, s.left[1]) /\ s.cmd.noun # "acl"
  BY <1>1, AtStep, HasDoc DEF Steps
<1>2. s.out = "running" /\ Target(s.cmd) \in Objects /\ s.cmd.noun # "acl"
  BY <1>7 DEF Fits
<1>3. At(r, {"get", "unseal"})
  BY <1>1 DEF At
<1>4. Kept(Target(s.cmd), d)
  BY <1>2 DEF IInv, ServerSound
<1>5. d # Gone => IsDoc(d) /\ d.name = s.cmd.name
  BY <1>2, <1>4 DEF Kept, Target
<1>6. \/ d # Gone /\ Local(r, Next1([s EXCEPT !.read = d, !.doc = d]))
      \/ Fail(r)
  BY DEF Get, Aimed
<1> HIDE DEF d
<1> QED
  BY <1>2, <1>3, <1>5, <1>6, ReadKeeps, Fails

LEMMA UnsealKeeps ==
    ASSUME IInv, NEW r \in Runs, Unseal(r)
    PROVE  IInv'
<1> DEFINE s == run[r]  d == server[Target(s.cmd)]  plain == [d EXCEPT !.sealed = 0]
<1>1. At(r, {"unseal"})
  BY DEF Unseal
<1>7. s.out = "running" /\ s.left[1] \in {"get", "unseal"} /\ Fits(s.cmd, s.left[1]) /\ s.cmd.noun # "acl"
  BY <1>1, AtStep, HasDoc DEF Steps
<1>2. s.out = "running" /\ Target(s.cmd) \in Objects /\ s.cmd.noun # "acl"
  BY <1>7 DEF Fits
<1>3. At(r, {"get", "unseal"})
  BY <1>1 DEF At
<1>4. Kept(Target(s.cmd), d)
  BY <1>2 DEF IInv, ServerSound
<1>5. d # Gone => IsDoc(plain) /\ plain.name = s.cmd.name
  BY <1>2, <1>4 DEF Kept, Target, IsDoc
<1>6. \/ d # Gone /\ Local(r, Next1([s EXCEPT !.read = plain, !.doc = plain]))
      \/ Fail(r)
  BY DEF Unseal, Aimed
<1> HIDE DEF plain, d
<1> QED
  BY <1>2, <1>3, <1>5, <1>6, ReadKeeps, Fails

LEMMA LocateKeeps ==
    ASSUME IInv, NEW r \in Runs, LocateCookbook(r)
    PROVE  IInv'
<1> DEFINE s == run[r]
<1>1. At(r, {"locate"})
  BY DEF LocateCookbook
<1>2. s.out = "running" /\ s.left[1] = "locate" /\ Sound(s) /\ DOMAIN s = DOMAIN Idle /\ IsDoc(s.read)
  BY <1>1, AtStep, HasDoc DEF Steps
<1>3. s.left[1] \in Refusers(s.cmd) /\ s.left[1] \in DocSteps /\ s.left[1] \notin NameSetters \cup ReadSetters \cup {"seal"}
  BY <1>2 DEF Refusers, DocSteps, NameSetters, ReadSetters
<1>4. ASSUME NEW n \in Names, NEW d, d = Doc(n, {"b"}), Local(r, Next1([s EXCEPT !.doc = d]))
      PROVE  IInv'
  <2> DEFINE u == [s EXCEPT !.doc = d]
  <2>1. OnlyDocs(s, u) /\ u.doc = d /\ u.read = s.read
    BY <1>2, DocFields
  <2>2. IsDoc(d) /\ d.name \in Names
    BY <1>4 DEF Doc, IsDoc
  <2> HIDE DEF u
  <2>3. DocMoves(s, u)
    BY <1>2, <1>3, <2>1, <2>2 DEF DocMoves, NameSpoilers
  <2>4. Local(r, Next1(u))
    BY <1>4 DEF u
  <2> QED
    BY <1>2, <1>3, <2>1, <2>3, <2>4, DocKeeps
<1>5. CASE Refuse(r)
  BY <1>2, <1>3, <1>5, Refuses DEF Refuse
<1> QED
  BY <1>4, <1>5 DEF LocateCookbook

LEMMA PackKeeps ==
    ASSUME IInv, NEW r \in Runs, PackCookbook(r)
    PROVE  IInv'
<1> DEFINE s == run[r]  d == Doc(s.cmd.name, {"b"})  u == [s EXCEPT !.doc = d]
<1>1. At(r, {"pack"})
  BY DEF PackCookbook
<1>2. s.out = "running" /\ s.left[1] = "pack" /\ Sound(s) /\ DOMAIN s = DOMAIN Idle /\ IsDoc(s.read)
  BY <1>1, AtStep, HasDoc DEF Steps
<1>3. s.left[1] \in Refusers(s.cmd) /\ s.left[1] \in DocSteps /\ s.left[1] \notin ReadSetters \cup {"locate", "seal"}
  BY <1>2 DEF Refusers, DocSteps, ReadSetters
<1>4. IsDoc(d) /\ d.name = s.cmd.name
  BY DEF Doc, IsDoc
<1>5. Local(r, Next1(u)) \/ Refuse(r)
  BY DEF PackCookbook
<1>6. u = [s EXCEPT !.doc = d]
  OBVIOUS
<1> HIDE DEF u, d
<1>7. OnlyDocs(s, u) /\ u.doc = d /\ u.read = s.read
  BY <1>2, <1>6, DocFields
<1>8. DocMoves(s, u)
  BY <1>2, <1>3, <1>4, <1>7 DEF DocMoves
<1>9. CASE Local(r, Next1(u))
  BY <1>2, <1>3, <1>7, <1>8, <1>9, DocKeeps
<1>10. CASE Refuse(r)
  BY <1>2, <1>3, <1>10, Refuses DEF Refuse
<1> QED
  BY <1>5, <1>9, <1>10

LEMMA ReadBackKeeps ==
    ASSUME IInv, NEW r \in Runs, ReadBack(r)
    PROVE  IInv'
<1>1. At(r, {"readback"})
  BY DEF ReadBack
<1>2. run[r].out = "running" /\ run[r].left[1] = "readback"
  BY <1>1, AtStep
<1>3. run[r].left[1] \notin DocSteps \cup {"pin", "seal", "chmodkey"} \cup Carriers
  BY <1>2 DEF DocSteps, Carriers
<1>4. Local(r, Next1(run[r])) \/ Fail(r)
  BY DEF ReadBack, Fail
<1> QED
  BY <1>2, <1>3, <1>4, MovesOn, Fails
-----------------------------------------------------------------------------
(* The requests that change the server                                     *)

LEMMA NameIsRight ==
    ASSUME NEW s, Sound(s), s.left # <<>>, IsList(s.left), s.left[1] \in NameUsers(s.cmd)
    PROVE  s.doc.name = s.cmd.name
<1>1. (s.doc.name = s.cmd.name) \in BOOLEAN
  OBVIOUS
<1>2. Settled(s.left, s.doc.name = s.cmd.name, NameUsers(s.cmd), NameSetters, NameSpoilers)
  BY DEF Sound, Named
<1> QED
  BY <1>1, <1>2, HeadSettled

\* A run that may have been answered a key, and is otherwise as it was.
Rekeyed(s, u) ==
    /\ Same(s, u) /\ u.doc = s.doc /\ u.read = s.read /\ u.shown = s.shown
    /\ u.wrote = s.wrote /\ u.told = s.told
LEMMA KeyFields ==
    ASSUME NEW s, DOMAIN s = DOMAIN Idle, NEW key, NEW u, u = [s EXCEPT !.key = key]
    PROVE  Rekeyed(s, u) /\ u.key = key
  BY DEF Idle, Same, Rekeyed
LEMMA OwnFields == ASSUME NEW s, DOMAIN s = DOMAIN Idle PROVE Rekeyed(s, s)
  BY DEF Same, Rekeyed

\* A request for the object of the command, or for another it may write.
LEMMA OwnWrites ==
    ASSUME IInv, NEW r \in Runs, run[r].out = "running", run[r].left[1] \in ObjectSteps,
           NEW object, object = Target(run[r].cmd), Fits(run[r].cmd, run[r].left[1]),
           NEW u, Rekeyed(run[r], u), u.key \in Runs \cup {NoKey}, u.key = run[r].key \/ run[r].left[1] \in Makers(run[r].cmd),
           NEW to, DOMAIN to = Objects, \A x \in Objects : Kept(x, to[x]),
           Write(r, object, to, Next1(u))
    PROVE  IInv'
<1> DEFINE s == run[r]
<1>1. Sound(s) /\ DOMAIN s = DOMAIN Idle /\ {s.key, s.shown} \subseteq Runs \cup {NoKey}
  BY DEF IInv, RunsSound, Sound, Shape
<1>2. /\ Same(s, u) /\ u.doc = s.doc /\ u.read = s.read /\ u.shown = s.shown
      /\ u.wrote = s.wrote /\ u.told = s.told
  BY DEF Rekeyed
<1>4. s.left[1] \notin DocSteps \cup {"pin", "seal", "chmodkey"} \cup Carriers
  BY DEF ObjectSteps, DocSteps, Carriers
<1>5. DocMoves(s, u)
  BY <1>1, <1>2, <1>4, PlainMoves
<1>6. KeyMoves(s, u)
  BY <1>1, <1>2, <1>4 DEF KeyMoves, Answered
<1>7. s.cmd.noun # "acl"
  <2>1. s.left[1] \notin Permissions \cup {"check", "connect", "list", "search", "readacl"}
    BY PermsAssumption DEF ObjectSteps, Permissions, Steps
  <2> QED
    BY <2>1 DEF Fits
<1>8. IsWrite(s, object)
  BY DEF IsWrite, Writers, Fits
<1> QED
  BY <1>2, <1>4, <1>5, <1>6, <1>7, <1>8, Writes

LEMMA StoredIsKept ==
    ASSUME NEW r, NEW d, IsDoc(d)
    PROVE  IsDoc(Stored(r, d)) /\ Stored(r, d).name = d.name
<1>1. CASE run[r].cmd.noun = "group"
  <2>1. Stored(r, d) = [d EXCEPT !.val = @ \cap Known]
    BY <1>1 DEF Stored
  <2> QED
    BY <2>1 DEF IsDoc
<1>2. CASE run[r].cmd.noun = "key" /\ "create_key" \in d.val
  <2>1. Stored(r, d) = [d EXCEPT !.val = {r}]
    BY <1>2 DEF Stored
  <2> QED
    BY <2>1 DEF IsDoc
<1>3. CASE run[r].cmd.noun # "group" /\ ~(run[r].cmd.noun = "key" /\ "create_key" \in d.val)
  BY <1>3 DEF Stored
<1> QED
  BY <1>1, <1>2, <1>3

LEMMA GoneIsKept == \A x : Kept(x, Gone)
  BY DEF Kept, IsDoc, Gone, Doc

LEMMA UpdateKeeps ==
    ASSUME IInv, NEW r \in Runs, Update(r)
    PROVE  IInv'
<1> DEFINE s == run[r]  at == Put(r)  d == s.doc  new == <<at[1], at[2], d.name>>
           to == [[server EXCEPT ![at] = Gone] EXCEPT ![new] = Stored(r, d)]
           made == s.cmd.noun = "key" /\ "create_key" \in d.val
           key == IF made THEN r ELSE s.key
           u == [s EXCEPT !.key = key]
<1>1. At(r, {"put"})
  BY DEF Update
<1>2. /\ s.out = "running" /\ s.left[1] = "put" /\ Sound(s) /\ DOMAIN s = DOMAIN Idle /\ s.left # <<>> /\ IsList(s.left)
      /\ Fits(s.cmd, "put") /\ s.key \in Runs \cup {NoKey} /\ s.cmd.noun # "acl" /\ IsDoc(d)
  BY <1>1, AtStep, HasDoc DEF Steps
<1>3. at = Target(s.cmd)
  <2>1. CASE s.cmd.noun = "key"
    BY <2>1 DEF Put, Target
  <2>2. CASE s.cmd.noun # "key"
    <3>1. d.name = s.cmd.name
      BY <1>2, <2>2, NameIsRight DEF NameUsers
    <3> QED
      BY <2>2, <3>1 DEF Put, Target
  <2> QED
    BY <2>1, <2>2
<1>4. \/ Write(r, at, to, Next1(u))
      \/ Fail(r)
  BY DEF Update
<1>5. IsDoc(Stored(r, d)) /\ Stored(r, d).name = d.name /\ new[3] = d.name
  BY <1>2, StoredIsKept
<1>6. DOMAIN to = Objects /\ \A x \in Objects : to[x] = IF x = new THEN Stored(r, d) ELSE IF x = at THEN Gone ELSE server[x]
  BY DEF IInv, ServerSound
<1>7. \A x \in Objects : Kept(x, server[x])
  BY DEF IInv, ServerSound
<1>8. Kept(new, Stored(r, d))
  BY <1>5 DEF Kept
<1> HIDE DEF to, new, at
<1>9. \A x \in Objects : Kept(x, to[x])
  BY <1>6, <1>7, <1>8, GoneIsKept
<1>10. key \in Runs \cup {NoKey} /\ (key = s.key \/ s.left[1] \in Makers(s.cmd))
  BY <1>2 DEF Makers
<1> HIDE DEF key
<1>11. Rekeyed(s, u) /\ u.key = key
  BY <1>2 DEF Idle, Same, Rekeyed
<1> HIDE DEF u
<1>12. "put" \in ObjectSteps
  BY DEF ObjectSteps
<1> QED
  BY <1>2, <1>3, <1>4, <1>6, <1>9, <1>10, <1>11, <1>12, OwnWrites, Fails

LEMMA PostKeeps ==
    ASSUME IInv, NEW r \in Runs, Post(r)
    PROVE  IInv'
<1> DEFINE s == run[r]  d == s.doc  at == <<s.cmd.noun, s.cmd.scope, d.name>>
           stored == IF at[1] = "key" THEN Doc(d.name, KeyOf(r)) ELSE d
           to == [x \in Objects |-> IF x = at THEN stored
                                    ELSE IF at[1] \in {"client", "user"} /\ x = DefaultKey(at)
                                    THEN Doc("default", KeyOf(r)) ELSE server[x]]
           key == IF Generates(r) THEN r ELSE s.key
           u == [s EXCEPT !.key = key]
<1>1. At(r, {"post"})
  BY DEF Post
<1>2. /\ s.out = "running" /\ s.left[1] = "post" /\ Sound(s) /\ DOMAIN s = DOMAIN Idle /\ s.left # <<>> /\ IsList(s.left)
      /\ Fits(s.cmd, "post") /\ s.key \in Runs \cup {NoKey} /\ s.cmd.noun # "acl" /\ IsDoc(d)
  BY <1>1, AtStep, HasDoc DEF Steps
<1>3. at = Target(s.cmd)
  <2>1. d.name = s.cmd.name
    BY <1>2, NameIsRight DEF NameUsers
  <2> QED
    BY <2>1 DEF Target
<1>4. \/ Write(r, at, to, Next1(u))
      \/ Fail(r)
  BY DEF Post
<1>5. Kept(at, stored)
  <2>1. at[3] = d.name
    OBVIOUS
  <2>2. IsDoc(stored) /\ stored.name = d.name
    BY <1>2 DEF IsDoc, Doc
  <2> QED
    BY <2>1, <2>2 DEF Kept
<1>6. Kept(DefaultKey(at), Doc("default", KeyOf(r)))
  <2>1. DefaultKey(at)[3] = "default"
    BY DEF DefaultKey
  <2>2. IsDoc(Doc("default", KeyOf(r))) /\ Doc("default", KeyOf(r)).name = "default"
    BY DEF IsDoc, Doc
  <2> QED
    BY <2>1, <2>2 DEF Kept
<1>7. \A x \in Objects : Kept(x, server[x])
  BY DEF IInv, ServerSound
<1> HIDE DEF at, stored
<1>8. DOMAIN to = Objects /\ \A x \in Objects : Kept(x, to[x])
  BY <1>5, <1>6, <1>7
<1> HIDE DEF to
<1>10. key \in Runs \cup {NoKey} /\ (key = s.key \/ s.left[1] \in Makers(s.cmd))
  BY <1>2 DEF Makers, Generates
<1> HIDE DEF key
<1>11. Rekeyed(s, u) /\ u.key = key
  BY <1>2 DEF Idle, Same, Rekeyed
<1> HIDE DEF u
<1>12. "post" \in ObjectSteps
  BY DEF ObjectSteps
<1> QED
  BY <1>2, <1>3, <1>4, <1>8, <1>10, <1>11, <1>12, OwnWrites, Fails

LEMMA DeleteKeeps ==
    ASSUME IInv, NEW r \in Runs, DeleteObject(r)
    PROVE  IInv'
<1> DEFINE s == run[r]  at == Target(s.cmd)
           to == [x \in Objects |-> IF x \in {at} \cup Inside(at) THEN Gone ELSE server[x]]
<1>1. At(r, {"erase"})
  BY DEF DeleteObject
<1>2. /\ s.out = "running" /\ s.left[1] = "erase" /\ DOMAIN s = DOMAIN Idle /\ Fits(s.cmd, "erase") /\ s.key \in Runs \cup {NoKey}
  BY <1>1, AtStep
<1>3. Write(r, at, to, Next1(s)) \/ Fail(r)
  BY DEF DeleteObject, Aimed
<1>4. DOMAIN to = Objects /\ \A x \in Objects : Kept(x, to[x])
  BY GoneIsKept DEF IInv, ServerSound
<1> HIDE DEF to
<1>5. Rekeyed(s, s) /\ "erase" \in ObjectSteps
  BY <1>2, OwnFields DEF ObjectSteps
<1> QED
  BY <1>2, <1>3, <1>4, <1>5, OwnWrites, Fails

LEMMA DropKeyKeeps ==
    ASSUME IInv, NEW r \in Runs, DropKey(r)
    PROVE  IInv'
<1> DEFINE s == run[r]  at == Target(s.cmd)  to == [server EXCEPT ![at] = Gone]
<1>1. At(r, {"dropkey"})
  BY DEF DropKey
<1>2. /\ s.out = "running" /\ s.left[1] = "dropkey" /\ DOMAIN s = DOMAIN Idle /\ Fits(s.cmd, "dropkey") /\ s.key \in Runs \cup {NoKey}
  BY <1>1, AtStep
<1>3. Write(r, at, to, Next1(s)) \/ Fail(r)
  BY DEF DropKey, Aimed
<1>4. DOMAIN to = Objects /\ \A x \in Objects : Kept(x, to[x])
  BY GoneIsKept DEF IInv, ServerSound
<1> HIDE DEF to
<1>5. Rekeyed(s, s) /\ "dropkey" \in ObjectSteps
  BY <1>2, OwnFields DEF ObjectSteps
<1> QED
  BY <1>2, <1>3, <1>4, <1>5, OwnWrites, Fails

LEMMA NewKeyKeeps ==
    ASSUME IInv, NEW r \in Runs, NewKey(r)
    PROVE  IInv'
<1> DEFINE s == run[r]  at == Target(s.cmd)  new == Doc("default", {r})  to == [server EXCEPT ![at] = new]
           u == [s EXCEPT !.key = r]
<1>1. At(r, {"newkey"})
  BY DEF NewKey
<1>2. /\ s.out = "running" /\ s.left[1] = "newkey" /\ DOMAIN s = DOMAIN Idle /\ Fits(s.cmd, "newkey")
  BY <1>1, AtStep
<1>3. Write(r, at, to, Next1(u)) \/ Fail(r)
  BY DEF NewKey, Aimed
<1>4. Kept(at, new)
  <2>1. at[3] = "default"
    BY <1>2 DEF Fits, Target
  <2>2. IsDoc(new) /\ new.name = "default"
    BY DEF IsDoc, Doc
  <2> QED
    BY <2>1, <2>2 DEF Kept
<1> HIDE DEF new
<1>5. DOMAIN to = Objects /\ \A x \in Objects : Kept(x, to[x])
  BY <1>4 DEF IInv, ServerSound
<1>6. Rekeyed(s, u) /\ u.key = r
  BY <1>2, KeyFields
<1> HIDE DEF to, u
<1>7. "newkey" \in ObjectSteps /\ "newkey" \in Makers(s.cmd)
  BY DEF ObjectSteps, Makers
<1> QED
  BY <1>2, <1>3, <1>5, <1>6, <1>7, OwnWrites, Fails

\* What is announced as soon as it is done.
LEMMA ToldFields ==
    ASSUME NEW s, DOMAIN s = DOMAIN Idle, NEW object, NEW u, u = [s EXCEPT !.told = @ \cup {object}]
    PROVE  /\ Same(s, u) /\ u.doc = s.doc /\ u.read = s.read /\ u.key = s.key /\ u.shown = s.shown
           /\ u.wrote = s.wrote /\ u.told = s.told \cup {object}
  BY DEF Idle, Same

LEMMA ToldWrites ==
    ASSUME IInv, NEW r \in Runs, run[r].out = "running",
           run[r].left[1] \notin DocSteps \cup {"pin", "seal", "chmodkey"} \cup Carriers,
           NEW object, IsWrite(run[r], object), NEW to, DOMAIN to = Objects, \A x \in Objects : Kept(x, to[x]),
           Write(r, object, to, Next1([run[r] EXCEPT !.told = @ \cup {object}]))
    PROVE  IInv'
<1> DEFINE s == run[r]  u == [s EXCEPT !.told = @ \cup {object}]
<1>1. Sound(s) /\ DOMAIN s = DOMAIN Idle
  BY DEF IInv, RunsSound, Sound, Shape
<1>2. /\ Same(s, u) /\ u.doc = s.doc /\ u.read = s.read /\ u.key = s.key /\ u.shown = s.shown
      /\ u.wrote = s.wrote /\ u.told = s.told \cup {object}
  BY <1>1, ToldFields
<1>3. Write(r, object, to, Next1(u))
  OBVIOUS
<1> HIDE DEF u
<1>4. DocMoves(s, u) /\ KeyMoves(s, u)
  BY <1>1, <1>2, PlainMoves, KeysMove
<1> QED
  BY <1>2, <1>3, <1>4, Writes

LEMMA PostBagKeeps ==
    ASSUME IInv, NEW r \in Runs, PostBag(r)
    PROVE  IInv'
<1> DEFINE s == run[r]  bag == <<"databag", None, s.cmd.scope>>  new == Doc(bag[3], {})  to == [server EXCEPT ![bag] = new]
           u == [s EXCEPT !.told = @ \cup {bag}]
<1>1. At(r, {"postbag"})
  BY DEF PostBag
<1>2. s.out = "running" /\ s.left[1] = "postbag" /\ Fits(s.cmd, "postbag")
  BY <1>1, AtStep
<1>3. s.left[1] \notin DocSteps \cup {"pin", "seal", "chmodkey"} \cup Carriers
  BY <1>2 DEF DocSteps, Carriers
<1>4. \/ Local(r, Next1(s))
      \/ Write(r, bag, to, Next1(u))
      \/ Fail(r)
  BY DEF PostBag
<1>5. Kept(bag, new)
  <2>1. IsDoc(new) /\ new.name = bag[3]
    BY DEF IsDoc, Doc
  <2> QED
    BY <2>1 DEF Kept
<1>6. IsWrite(s, bag)
  BY <1>2 DEF IsWrite, Writers, Fits
<1> HIDE DEF new, bag
<1>7. DOMAIN to = Objects /\ \A x \in Objects : Kept(x, to[x])
  BY <1>5 DEF IInv, ServerSound
<1> HIDE DEF to
<1> QED
  BY <1>2, <1>3, <1>4, <1>6, <1>7, MovesOn, ToldWrites, Fails

LEMMA PutAceKeeps ==
    ASSUME IInv, NEW r \in Runs, PutAce(r)
    PROVE  IInv'
<1> DEFINE s == run[r]  perm == Head(s.left)  ace == Ace(r, perm)  members == NewAce(s.cmd, s.read[perm])
           to == [server EXCEPT ![ace].val = members]
<1>1. At(r, Permissions)
  BY DEF PutAce, Permissions
<1>2. /\ s.out = "running" /\ s.left[1] = perm /\ perm \in Permissions /\ Fits(s.cmd, perm)
  BY <1>1, AtStep
<1>3. s.left[1] \notin DocSteps \cup {"pin", "seal", "chmodkey"} \cup Carriers
  <2>1. DocSteps \cup {"pin", "seal", "chmodkey"} \cup Carriers \subseteq Steps
    BY DEF DocSteps, Carriers, Steps
  <2> QED
    BY <1>2, <2>1, PermsAssumption DEF Permissions
<1>4. \/ Local(r, Next1(s))
      \/ Write(r, ace, to, Next1([s EXCEPT !.told = @ \cup {ace}]))
      \/ Fail(r)
  BY DEF PutAce
<1>5. ace \in MayWrite(s.cmd) /\ s.cmd.noun = "acl" /\ ace[1] = "acl"
  BY <1>2 DEF Fits, Ace
<1>6. IsWrite(s, ace)
  BY <1>2, <1>5 DEF IsWrite, Writers
<1> HIDE DEF perm, members, ace
<1>7. ace \in Objects => Kept(ace, [server[ace] EXCEPT !.val = members])
  BY <1>5 DEF IInv, ServerSound, Kept, IsDoc
<1>8. DOMAIN to = Objects /\ \A x \in Objects : Kept(x, to[x])
  BY <1>7 DEF IInv, ServerSound
<1> HIDE DEF to
<1> QED
  BY <1>2, <1>3, <1>4, <1>6, <1>8, MovesOn, ToldWrites, Fails

\* A cookbook goes where its metadata says, which is where it was located.
LEMMA UploadKeeps ==
    ASSUME IInv, NEW r \in Runs, UploadCookbook(r)
    PROVE  IInv'
<1> DEFINE s == run[r]  at == <<s.cmd.noun, None, s.doc.name>>  to == [server EXCEPT ![at] = s.doc]
<1>1. At(r, {"upload"})
  BY DEF UploadCookbook
<1>2. /\ s.out = "running" /\ s.left[1] = "upload" /\ Sound(s) /\ DOMAIN s = DOMAIN Idle /\ s.left # <<>> /\ IsList(s.left)
      /\ Fits(s.cmd, "upload") /\ s.cmd.noun # "acl" /\ IsDoc(s.doc)
  BY <1>1, AtStep, HasDoc DEF Steps
<1>3. Write(r, at, to, Next1(s))
  BY DEF UploadCookbook
<1>4. /\ at \in MayWrite(s.cmd) 
      /\ at = Target(s.cmd) \/ s.cmd.verb \in {"upload", "install"}
  <2>1. CASE s.cmd.verb = "share" /\ s.cmd.noun = "shared" /\ s.cmd.scope = None /\ Target(s.cmd) \in MayWrite(s.cmd)
    <3>1. s.doc.name = s.cmd.name
      BY <1>2, <2>1, NameIsRight DEF NameUsers
    <3> QED
      BY <2>1, <3>1 DEF Target
  <2>2. CASE s.cmd.verb \in {"upload", "install"} /\ s.cmd.noun = "cookbook" /\ MayWrite(s.cmd) = {x \in Objects : x[1] = "cookbook"}
    <3>1. (s.doc.name \in Names) \in BOOLEAN
      OBVIOUS
    <3>2. Settled(s.left, s.doc.name \in Names, {"upload"}, {"locate"}, DocSteps \cup {"pin", "backfill"})
      BY <1>2, <2>2 DEF Sound, Located
    <3>3. s.doc.name \in Names
      BY <1>2, <3>1, <3>2, HeadSettled
    <3>4. at \in {"cookbook"} \X {None} \X Names
      BY <2>2, <3>3
    <3>5. at \in Objects
      BY <3>4, ObjectsAssumption
    <3>6. at[1] = "cookbook"
      BY <2>2
    <3> QED
      BY <2>2, <3>5, <3>6
  <2> QED
    BY <1>2, <2>1, <2>2 DEF Fits
<1>5. Kept(at, s.doc)
  <2>1. at[3] = s.doc.name
    OBVIOUS
  <2> QED
    BY <1>2, <2>1 DEF Kept
<1>6. IsWrite(s, at)
  BY <1>2, <1>4 DEF IsWrite, Writers
<1> HIDE DEF at
<1>7. DOMAIN to = Objects /\ \A x \in Objects : Kept(x, to[x])
  BY <1>5 DEF IInv, ServerSound
<1>8. s.left[1] \notin DocSteps \cup {"pin", "seal", "chmodkey"} \cup Carriers
  BY <1>2 DEF DocSteps, Carriers
<1>9. Same(s, s) /\ DocMoves(s, s) /\ KeyMoves(s, s)
  BY <1>2, <1>8, PlainMoves, KeysMove DEF Same
<1> HIDE DEF to
<1> QED
  BY <1>2, <1>3, <1>4, <1>6, <1>7, <1>8, <1>9, Writes
-----------------------------------------------------------------------------
(* The steps that replace the list, and the keys                           *)

\* A run that goes on with another list.
LEMMA Relisted ==
    ASSUME NEW s, DOMAIN s = DOMAIN Idle, NEW list, NEW t, t = [s EXCEPT !.left = list]
    PROVE  /\ DOMAIN t = DOMAIN Idle /\ t.cmd = s.cmd /\ t.left = list /\ t.out = s.out
           /\ t.read = s.read /\ t.doc = s.doc /\ t.key = s.key /\ t.shown = s.shown
           /\ t.wrote = s.wrote /\ t.told = s.told /\ t.others = s.others
  BY DEF Idle

\* The list it goes on with needs nothing that is not so.
LEMMA Relists ==
    ASSUME NEW s, Sound(s), s.out = "running", NEW list, list # <<>>, Ordered(s.cmd, list), 
           \A j \in DOMAIN list : list[j] \notin NameUsers(s.cmd) \cup ReadUsers \cup {"put", "post", "upload"},
           s.wrote # {} => \A j \in DOMAIN list : list[j] \notin Refusers(s.cmd) \cup {"postbag", "upload"},
           Delivered(list, Answered(s), Carriers, Makers(s.cmd)),
           NEW t, DOMAIN t = DOMAIN Idle, t.cmd = s.cmd, t.left = list, t.out = s.out, t.doc = s.doc,
           s.cmd.noun # "acl" => t.read = s.read,
           t.key = s.key, t.shown = s.shown, t.wrote = s.wrote, t.told = s.told, t.others = s.others
    PROVE  Sound(t)
<1>1. Shape(t)
  BY DEF Sound, Shape
<1>2. Ordered(t.cmd, t.left)
  OBVIOUS
<1>3. Quiet(t) /\ Accounted(t)
  BY DEF Sound, Quiet, Accounted, Doubt
<1>4. Named(t) /\ ReadNamed(t) /\ Located(t) /\ Sealing(t)
  BY DEF Named, ReadNamed, Located, Sealing, Settled
<1>5. Answered(t) = Answered(s)
  BY DEF Answered
<1>6. KeyGoesOut(t)
  BY <1>5 DEF KeyGoesOut
<1> QED
  BY <1>1, <1>2, <1>3, <1>4, <1>6 DEF Sound

LEMMA ListOrgsKeeps ==
    ASSUME IInv, NEW r \in Runs, ListOrgs(r)
    PROVE  IInv'
<1> DEFINE s == run[r]  list == <<"memberorgs">>  t == [s EXCEPT !.left = list]
<1>1. At(r, {"listorgs"})
  BY DEF ListOrgs
<1>2. /\ s.out = "running" /\ s.left[1] = "listorgs" /\ Sound(s) /\ DOMAIN s = DOMAIN Idle /\ s.cmd.noun # "acl"
      /\ Fits(s.cmd, s.left[1]) /\ 1 \in DOMAIN s.left
  BY <1>1, AtStep, HasDoc DEF Steps
<1>3. s.left[1] \notin DocSteps \cup {"pin", "seal", "chmodkey"} \cup Carriers
  BY <1>2 DEF DocSteps, Carriers
<1>4. \/ Local(r, Next1(s))
      \/ Local(r, t)
      \/ Fail(r)
  BY DEF ListOrgs
<1>5. /\ IsList(list) /\ list # <<>> /\ list # <<"writekey">> /\ DOMAIN list = {1} /\ list[1] = "memberorgs"
  BY DEF IsList
<1>6. "memberorgs" \notin Permissions /\ "memberorgs" \in Steps
  BY PermsAssumption DEF Permissions, Steps
<1>7. Fits(s.cmd, "memberorgs")
  BY <1>2, <1>6 DEF Fits, ObjectSteps, Writers
<1>8. \A j, k \in DOMAIN list : ~(j < k)
  BY <1>5
<1>9. Ordered(s.cmd, list)
  BY <1>5, <1>6, <1>7, <1>8 DEF Ordered, Before, KeySteps
<1>10. Delivered(list, Answered(s), Carriers, Makers(s.cmd))
  <2>1. Delivered(s.left, Answered(s), Carriers, Makers(s.cmd))
    BY <1>2 DEF Sound, KeyGoesOut
  <2>2. \A j \in DOMAIN s.left : j = 1
    <3>1. Ordered(s.cmd, s.left) /\ IsList(s.left) /\ s.left # <<>>
      BY <1>2 DEF Sound, Shape, Ordered
    <3>2. \A j \in DOMAIN s.left : ~(1 < j) /\ j \in Nat \ {0}
      BY <1>2, <3>1, ListTail DEF Ordered
    <3> QED
      BY <3>2
  <2>3. Answered(s)
    BY <1>2, <2>1, <2>2 DEF Delivered, Carriers
  <2>4. list[1] \notin Makers(s.cmd)
    BY <1>5 DEF Makers
  <2> QED
    BY <1>5, <2>3, <2>4 DEF Delivered
<1>11. list[1] \notin NameUsers(s.cmd) \cup ReadUsers \cup {"put", "post", "upload", "postbag"} \cup Refusers(s.cmd)
  BY <1>5 DEF NameUsers, ReadUsers, Refusers
<1> HIDE DEF list
<1>12. /\ DOMAIN t = DOMAIN Idle /\ t.cmd = s.cmd /\ t.left = list /\ t.out = s.out
       /\ t.read = s.read /\ t.doc = s.doc /\ t.key = s.key /\ t.shown = s.shown
       /\ t.wrote = s.wrote /\ t.told = s.told /\ t.others = s.others
  BY <1>2, Relisted
<1> HIDE DEF t
<1>13. Sound(t)
  BY <1>2, <1>5, <1>9, <1>10, <1>11, <1>12, Relists
<1> QED
  BY <1>2, <1>3, <1>4, <1>5, <1>12, <1>13, MovesOn, LocalKeeps, Fails

\* One permission after the other, of those the command names.
LEMMA ReadAclKeeps ==
    ASSUME IInv, NEW r \in Runs, ReadAcl(r)
    PROVE  IInv'
<1> DEFINE s == run[r]  list == s.cmd.perms
           acl == [p \in Range(list) |-> server[Ace(r, p)].val]  t == [s EXCEPT !.read = acl, !.left = list]
<1>1. At(r, {"readacl"})
  BY DEF ReadAcl
<1>2. /\ s.out = "running" /\ s.left[1] = "readacl" /\ Sound(s) /\ DOMAIN s = DOMAIN Idle /\ 1 \in DOMAIN s.left
      /\ Fits(s.cmd, s.left[1])
  BY <1>1, AtStep
<1>3. s.left[1] \in Refusers(s.cmd)
  BY <1>2 DEF Refusers
<1>4. \/ Local(r, Stopped(s, "unchanged"))
      \/ Range(list) # {} /\ Local(r, t)
      \/ Fail(r)
  BY DEF ReadAcl
<1>5. s.cmd.noun = "acl" /\ list \in Seq(Permissions) /\ \A i \in DOMAIN list : <<"acl", s.cmd.scope, list[i]>> \in MayWrite(s.cmd)
  BY <1>2 DEF Fits
<1>6. IsList(list) /\ \A j \in DOMAIN list : list[j] \in Permissions /\ list[j] \notin Steps
  BY <1>5, PermsAssumption DEF IsList, Permissions
<1>7. Range(list) # {} => list # <<>>
  BY DEF Range
<1>8. list # <<"writekey">>
  <2>1. \A q : q = <<"writekey">> => 1 \in DOMAIN q /\ q[1] \in Steps
    BY DEF Steps
  <2> QED
    BY <1>6, <2>1
<1>9. Ordered(s.cmd, list)
  <2>1. \A j \in DOMAIN list : Fits(s.cmd, list[j])
    <3> SUFFICES ASSUME NEW j \in DOMAIN list
                 PROVE  Fits(s.cmd, list[j])
      OBVIOUS
    <3>1. list[j] \notin ObjectSteps \cup {"session", "postbag", "upload", "get", "unseal", "newkey", "readacl"}
      BY <1>6 DEF Steps, ObjectSteps
    <3>2. "secret" \notin s.cmd.opts
      BY <1>2, <1>5 DEF Fits
    <3> QED
      BY <1>5, <1>6, <3>1, <3>2 DEF Fits
  <2>2. \A j \in DOMAIN list : list[j] \notin {"emit", "listorgs", "readacl"} \cup KeySteps \cup Refusers(s.cmd) \cup {"postbag", "upload"}
    BY <1>6 DEF Steps, KeySteps, Refusers
  <2> QED
    BY <1>6, <2>1, <2>2 DEF Ordered, Before
<1>10. Delivered(list, Answered(s), Carriers, Makers(s.cmd))
  <2>1. Delivered(s.left, Answered(s), Carriers, Makers(s.cmd))
    BY <1>2 DEF Sound, KeyGoesOut
  <2>2. \A j \in DOMAIN s.left : j = 1
    <3>1. Ordered(s.cmd, s.left) /\ IsList(s.left) /\ s.left # <<>>
      BY <1>2 DEF Sound, Shape, Ordered
    <3>2. \A j \in DOMAIN s.left : ~(1 < j) /\ j \in Nat \ {0}
      BY <1>2, <3>1, ListTail DEF Ordered
    <3> QED
      BY <3>2
  <2>3. Answered(s)
    BY <1>2, <2>1, <2>2 DEF Delivered, Carriers
  <2>4. \A j \in DOMAIN list : list[j] \notin Makers(s.cmd)
    BY <1>6 DEF Makers, Steps
  <2> QED
    BY <2>3, <2>4 DEF Delivered
<1>11. \A j \in DOMAIN list : list[j] \notin NameUsers(s.cmd) \cup ReadUsers \cup {"put", "post", "upload", "postbag"} \cup Refusers(s.cmd)
  BY <1>6 DEF NameUsers, ReadUsers, Refusers, Steps
<1> HIDE DEF acl
<1>12. /\ DOMAIN t = DOMAIN Idle /\ t.cmd = s.cmd /\ t.left = list /\ t.out = s.out
       /\ t.doc = s.doc /\ t.key = s.key /\ t.shown = s.shown
       /\ t.wrote = s.wrote /\ t.told = s.told /\ t.others = s.others
  BY <1>2 DEF Idle
<1> HIDE DEF t, list
<1>13. list # <<>> => Sound(t)
  BY <1>2, <1>5, <1>9, <1>10, <1>11, <1>12, Relists
<1> QED
  BY <1>2, <1>3, <1>4, <1>7, <1>8, <1>12, <1>13, Refuses, LocalKeeps, Fails

LEMMA GenerateKeeps ==
    ASSUME IInv, NEW r \in Runs, GenerateKeyPair(r)
    PROVE  IInv'
<1> DEFINE s == run[r]  u == [s EXCEPT !.key = r]
<1>1. At(r, {"genkey"})
  BY DEF GenerateKeyPair
<1>2. /\ s.out = "running" /\ s.left[1] = "genkey" /\ Sound(s) /\ DOMAIN s = DOMAIN Idle
      /\ {s.key, s.shown} \subseteq Runs \cup {NoKey}
  BY <1>1, AtStep
<1>3. s.left[1] \notin DocSteps \cup {"pin", "seal", "chmodkey"} \cup Carriers /\ s.left[1] \in Makers(s.cmd)
  BY <1>2 DEF DocSteps, Carriers, Makers
<1>4. Local(r, Next1(u))
  BY DEF GenerateKeyPair
<1>5. Rekeyed(s, u) /\ u.key = r
  BY <1>2, KeyFields
<1> HIDE DEF u
<1>6. DocMoves(s, u)
  BY <1>2, <1>3, <1>5, PlainMoves DEF Rekeyed
<1>7. KeyMoves(s, u) /\ WriteMoves(s, u) /\ Same(s, u)
  BY <1>2, <1>3, <1>5 DEF KeyMoves, WriteMoves, Rekeyed
<1>8. Sound(Next1(u)) /\ Next1(u).left # <<"writekey">>
  BY <1>2, <1>3, <1>6, <1>7, Moves
<1> QED
  BY <1>4, <1>8, LocalKeeps

\* A run that hands its key over.
LEMMA HandsOver ==
    ASSUME NEW s, Sound(s), s.out = "running", s.left[1] \in Carriers,
           NEW u, u = s \/ u = [s EXCEPT !.shown = s.key], Answered(u)
    PROVE  Sound(Next1(u)) /\ Next1(u).left # <<"writekey">>
<1>1. DOMAIN s = DOMAIN Idle /\ {s.key, s.shown} \subseteq Runs \cup {NoKey}
  BY DEF Sound, Shape
<1>2. /\ Same(s, u) /\ u.doc = s.doc /\ u.read = s.read /\ u.key = s.key /\ u.shown \in {s.key, s.shown}
      /\ u.wrote = s.wrote /\ u.told = s.told
  <2>1. CASE u = s
    BY <1>1, <2>1 DEF Same
  <2>2. CASE u = [s EXCEPT !.shown = s.key]
    BY <1>1, <2>2 DEF Same, Idle
  <2> QED
    BY <2>1, <2>2
<1>3. s.left[1] \notin DocSteps \cup {"pin", "seal", "chmodkey"}
  BY DEF Carriers, DocSteps
<1>4. DocMoves(s, u)
  BY <1>1, <1>2, <1>3, PlainMoves
<1>5. KeyMoves(s, u) /\ WriteMoves(s, u)
  BY <1>1, <1>2 DEF KeyMoves, WriteMoves
<1> QED
  BY <1>2, <1>3, <1>4, <1>5, Moves

\* The list of those that write a key file.
LEMMA KeyFileIsOrdered ==
    ASSUME NEW c, c.noun # "acl", "secret" \in c.opts => c.noun = "item"
    PROVE  LET list == <<"openkey", "chmodkey", "writekey">> IN
           /\ Ordered(c, list) /\ list # <<>> /\ DOMAIN list = 1..3
           /\ \A j \in DOMAIN list : list[j] \in KeySteps
           /\ list[3] = "writekey"
<1> DEFINE list == <<"openkey", "chmodkey", "writekey">>
<1>1. /\ IsList(list) /\ list # <<>> /\ DOMAIN list = 1..3 /\ list[3] = "writekey"
      /\ \A j \in DOMAIN list : list[j] \in {"openkey", "chmodkey", "writekey"}
  BY DEF IsList
<1>2. list \in {<<"openkey", "chmodkey", "writekey">>, <<"chmodkey", "writekey">>, <<"writekey">>}
  OBVIOUS
<1> HIDE DEF list
<1>3. \A j \in DOMAIN list : list[j] \in Steps /\ list[j] \notin Permissions
  BY <1>1, PermsAssumption DEF Steps, Permissions
<1>4. \A j \in DOMAIN list : Fits(c, list[j])
  BY <1>1, <1>3 DEF Fits, ObjectSteps, Writers
<1>5. Ordered(c, list)
  BY <1>1, <1>2, <1>3, <1>4 DEF Ordered, Before, Writers, ObjectSteps
<1> QED
  BY <1>1, <1>5 DEF KeySteps, list

LEMMA EmitKeeps ==
    ASSUME IInv, NEW r \in Runs, EmitPrivateKey(r)
    PROVE  IInv'
<1> DEFINE s == run[r]  list == <<"openkey", "chmodkey", "writekey">>  t == [s EXCEPT !.left = list]  u == [s EXCEPT !.shown = s.key]
<1>1. At(r, {"emit"})
  BY DEF EmitPrivateKey
<1>2. /\ s.out = "running" /\ s.left[1] = "emit" /\ Sound(s) /\ DOMAIN s = DOMAIN Idle
      /\ Fits(s.cmd, s.left[1]) /\ s.cmd.noun # "acl"
  BY <1>1, AtStep, HasDoc DEF Steps
<1>3. s.left[1] \in Carriers
  BY <1>2 DEF Carriers
<1>4. CASE s.key = NoKey /\ Local(r, Next1(s))
  <2>1. Answered(s)
    BY <1>4 DEF Answered
  <2> QED
    BY <1>2, <1>3, <1>4, <2>1, HandsOver, LocalKeeps
<1>5. CASE Local(r, Next1(u))
  <2>1. Answered(u)
    BY <1>2 DEF Answered, Idle
  <2> QED
    BY <1>2, <1>3, <1>5, <2>1, HandsOver, LocalKeeps
<1>6. CASE Local(r, t)
  <2>1. "secret" \in s.cmd.opts => s.cmd.noun = "item"
    BY <1>2 DEF Fits
  <2>2. /\ Ordered(s.cmd, list) /\ list # <<>> /\ DOMAIN list = 1..3
        /\ \A j \in DOMAIN list : list[j] \in KeySteps
        /\ list[3] = "writekey"
    BY <1>2, <2>1, KeyFileIsOrdered
  <2>3. list # <<"writekey">>
    <3>1. Len(list) = 3 /\ Len(<<"writekey">>) = 1
      OBVIOUS
    <3> QED
      BY <3>1
  <2> HIDE DEF list
  <2>4. Delivered(list, Answered(s), Carriers, Makers(s.cmd))
    <3>1. 3 \in DOMAIN list /\ list[3] \in Carriers /\ \A m \in DOMAIN list : ~(3 < m)
      BY <2>2 DEF Carriers
    <3> QED
      BY <3>1 DEF Delivered
  <2>5. \A j \in DOMAIN list : list[j] \notin NameUsers(s.cmd) \cup ReadUsers \cup {"put", "post", "upload", "postbag"} \cup Refusers(s.cmd)
    BY <2>2 DEF KeySteps, NameUsers, ReadUsers, Refusers
  <2>6. /\ DOMAIN t = DOMAIN Idle /\ t.cmd = s.cmd /\ t.left = list /\ t.out = s.out
        /\ t.read = s.read /\ t.doc = s.doc /\ t.key = s.key /\ t.shown = s.shown
        /\ t.wrote = s.wrote /\ t.told = s.told /\ t.others = s.others
    BY <1>2, Relisted
  <2> HIDE DEF t
  <2>7. Sound(t)
    BY <1>2, <2>2, <2>4, <2>5, <2>6, Relists
  <2> QED
    BY <1>6, <2>3, <2>6, <2>7, LocalKeeps
<1>7. \/ s.key = NoKey /\ Local(r, Next1(s))
      \/ Local(r, t)
      \/ Local(r, Next1(u))
      \/ Fail(r)
  BY DEF EmitPrivateKey
<1> QED
  BY <1>2, <1>4, <1>5, <1>6, <1>7, Fails

\* A run moves on, and the key file or the host changes with it.
LEMMA MachineKeeps ==
    ASSUME IInv, NEW r \in Runs, NEW t, Sound(t), Becomes(r, t), server' = server,
           disk'.key \in Runs \cup {NoKey}, disk'.mode \in {"0600", "0644"}, host' \in Runs \cup {NoKey},
           \/ disk'.mode = "0600"
           \/ disk'.mode = disk.mode /\ (disk'.key = NoKey \/ disk'.key = disk.key) /\ t.left # <<"writekey">>
    PROVE  IInv'
<1>1. DOMAIN run' = Runs /\ \A q \in Runs : run'[q] = IF q = r THEN t ELSE run[q]
  BY DEF Becomes, IInv, RunsSound
<1>2. ServerSound'
  BY DEF IInv, ServerSound
<1>3. RunsSound'
  BY <1>1 DEF IInv, RunsSound
<1>4. DiskSound'
  BY <1>1 DEF IInv, DiskSound
<1> QED
  BY <1>2, <1>3, <1>4 DEF IInv

\* Nothing is in the file until it is restricted.
LEMMA OpenKeyFileKeeps ==
    ASSUME IInv, NEW r \in Runs, OpenKeyFile(r)
    PROVE  IInv'
<1> DEFINE s == run[r]
<1>1. At(r, {"openkey"})
  BY DEF OpenKeyFile
<1>2. s.out = "running" /\ s.left[1] = "openkey" /\ Sound(s) /\ DOMAIN s = DOMAIN Idle /\ Same(s, s)
  BY <1>1, AtStep
<1>3. DocMoves(s, s) /\ KeyMoves(s, s) /\ WriteMoves(s, s)
  BY <1>2, PlainMoves, KeysMove DEF DocSteps, Carriers, WriteMoves
<1>4. Sound(Next1(s)) /\ Next1(s).left # <<"writekey">>
  BY <1>2, <1>3, Moves
<1>5. CASE disk' = [disk EXCEPT !.key = NoKey] /\ Becomes(r, Next1(s)) /\ UNCHANGED <<server, host>>
  <2>1. disk'.mode \in {disk.mode} /\ disk'.key \in {NoKey, disk.key}
    BY <1>5
  <2>2. disk.mode \in {"0600", "0644"} /\ disk.key \in Runs \cup {NoKey} /\ host \in Runs \cup {NoKey}
    BY DEF IInv, DiskSound
  <2> QED
    BY <1>4, <1>5, <2>1, <2>2, MachineKeeps
<1> QED
  BY <1>2, <1>5, Fails DEF OpenKeyFile

LEMMA ChmodKeyFileKeeps ==
    ASSUME IInv, NEW r \in Runs, ChmodKeyFile(r)
    PROVE  IInv'
<1> DEFINE s == run[r]
<1>1. At(r, {"chmodkey"})
  BY DEF ChmodKeyFile
<1>2. s.out = "running" /\ s.left[1] = "chmodkey" /\ Sound(s) /\ DOMAIN s = DOMAIN Idle /\ Same(s, s)
  BY <1>1, AtStep
<1>3. DocMoves(s, s) /\ KeyMoves(s, s) /\ WriteMoves(s, s)
  BY <1>2, PlainMoves, KeysMove DEF DocSteps, Carriers, WriteMoves
<1>4. Sound(Next1(s))
  BY <1>2, <1>3, Moves
<1>5. CASE disk' = [disk EXCEPT !.mode = "0600"] /\ Becomes(r, Next1(s)) /\ UNCHANGED <<server, host>>
  <2>1. disk'.mode \in {"0600", disk.mode} /\ disk'.key \in {NoKey, disk.key}
    BY <1>5
  <2>2. disk.mode \in {"0600", "0644"} /\ disk.key \in Runs \cup {NoKey} /\ host \in Runs \cup {NoKey}
    BY DEF IInv, DiskSound
  <2>3. disk'.mode = "0600" \/ (disk'.mode = disk.mode /\ disk.mode = "0644")
    BY <2>1, <2>2
  <2> QED
    BY <1>4, <1>5, <2>1, <2>2, <2>3, MachineKeeps
<1> QED
  BY <1>2, <1>5, Fails DEF ChmodKeyFile

\* Only a restricted file is written.
LEMMA WriteKeyFileKeeps ==
    ASSUME IInv, NEW r \in Runs, WriteKeyFile(r)
    PROVE  IInv'
<1> DEFINE s == run[r]  u == [s EXCEPT !.shown = s.key]
<1>1. At(r, {"writekey"})
  BY DEF WriteKeyFile
<1>2. /\ s.out = "running" /\ s.left[1] = "writekey" /\ Sound(s) /\ DOMAIN s = DOMAIN Idle
      /\ {s.key, s.shown} \subseteq Runs \cup {NoKey} /\ 1 \in DOMAIN s.left
  BY <1>1, AtStep
<1>3. s.left[1] \in Carriers /\ s.left[1] \in KeySteps
  BY <1>2 DEF Carriers, KeySteps
<1>4. s.left = <<"writekey">>
  <2>1. s.left \in {<<"openkey", "chmodkey", "writekey">>, <<"chmodkey", "writekey">>, <<"writekey">>}
    BY <1>2, <1>3 DEF Sound, Ordered
  <2>2. <<"openkey", "chmodkey", "writekey">>[1] = "openkey" /\ <<"chmodkey", "writekey">>[1] = "chmodkey"
    OBVIOUS
  <2> QED
    BY <1>2, <2>1, <2>2
<1>5. disk.mode = "0600" /\ host \in Runs \cup {NoKey} /\ disk.key \in Runs \cup {NoKey}
  BY <1>4 DEF IInv, DiskSound
<1>6. Answered(u)
  BY <1>2 DEF Answered, Idle
<1>7. Sound(Next1(u))
  BY <1>2, <1>3, <1>6, HandsOver
<1> HIDE DEF u
<1>8. CASE disk' = [disk EXCEPT !.key = s.key] /\ Becomes(r, Next1(u)) /\ UNCHANGED <<server, host>>
  <2>1. disk'.mode \in {"0600", disk.mode} /\ disk'.key \in {s.key, disk.key}
    BY <1>8
  <2> QED
    BY <1>2, <1>5, <1>7, <1>8, <2>1, MachineKeeps
<1>9. \/ disk' = [disk EXCEPT !.key = s.key] /\ Becomes(r, Next1(u)) /\ UNCHANGED <<server, host>>
      \/ Fail(r)
  BY DEF WriteKeyFile, u
<1> QED
  BY <1>2, <1>8, <1>9, Fails

LEMMA BuildScriptKeeps ==
    ASSUME IInv, NEW r \in Runs, BuildScript(r)
    PROVE  IInv'
<1>1. At(r, {"script"})
  BY DEF BuildScript
<1>2. run[r].out = "running" /\ run[r].left[1] = "script"
  BY <1>1, AtStep
<1>3. run[r].left[1] \notin DocSteps \cup {"pin", "seal", "chmodkey"} \cup Carriers
  BY <1>2 DEF DocSteps, Carriers
<1>4. "dryRun" \in run[r].cmd.opts => run[r].left[1] \in Refusers(run[r].cmd)
  BY <1>2 DEF Refusers
<1> QED
  BY <1>2, <1>3, <1>4, MovesOn, Refuses DEF BuildScript, Refuse

\* A session that fails names the client it leaves.
LEMMA BootstrapKeeps ==
    ASSUME IInv, NEW r \in Runs, Bootstrap(r)
    PROVE  IInv'
<1> DEFINE s == run[r]  u == [s EXCEPT !.shown = s.key]  w == [s EXCEPT !.told = @ \cup {Target(s.cmd)}]
<1>1. At(r, {"session"})
  BY DEF Bootstrap
<1>2. /\ s.out = "running" /\ s.left[1] = "session" /\ Sound(s) /\ DOMAIN s = DOMAIN Idle
      /\ {s.key, s.shown} \subseteq Runs \cup {NoKey} /\ Fits(s.cmd, s.left[1])
  BY <1>1, AtStep
<1>3. s.left[1] \in Carriers
  BY <1>2 DEF Carriers
<1>4. Answered(u)
  BY <1>2 DEF Answered, Idle
<1>5. Sound(Next1(u)) /\ Next1(u).left # <<"writekey">>
  BY <1>2, <1>3, <1>4, HandsOver
<1>6. Target(s.cmd) \in Objects /\ s.told \subseteq Objects
  BY <1>2 DEF Fits, Sound, Accounted, Shape
<1>7. /\ DOMAIN w = DOMAIN Idle /\ w.cmd = s.cmd /\ w.read = s.read /\ w.doc = s.doc /\ w.key = s.key /\ w.shown = s.shown
      /\ w.others = s.others /\ w.wrote = s.wrote /\ w.told = s.told \cup {Target(s.cmd)}
  BY <1>2 DEF Idle
<1>8. \/ host' = s.key /\ Becomes(r, Next1(u)) /\ UNCHANGED <<server, disk>>
      \/ host' \in {host, s.key} /\ Becomes(r, Stopped(w, "error")) /\ UNCHANGED <<server, disk>>
  BY DEF Bootstrap, Aimed
<1> HIDE DEF u, w
<1>9. Sound(Stopped(w, "error")) /\ Stopped(w, "error").left = <<>>
  BY <1>2, <1>6, <1>7, Stops, StoppedFields
<1>10. <<>> # <<"writekey">>
  OBVIOUS
<1>11. disk.mode \in {"0600", "0644"} /\ disk.key \in Runs \cup {NoKey} /\ host \in Runs \cup {NoKey}
  BY DEF IInv, DiskSound
<1> QED
  BY <1>2, <1>5, <1>8, <1>9, <1>10, <1>11, MachineKeeps
-----------------------------------------------------------------------------
(* The specification                                                       *)

LEMMA InitIsSound == Init => IInv
<1> SUFFICES ASSUME Init
             PROVE  IInv
  OBVIOUS
<1>1. ServerSound
  BY ObjectsAssumption DEF Init, ServerSound, Kept
<1>2. RunsSound
  BY IdleIsSound DEF Init, RunsSound
<1>3. \A r \in Runs : run[r].left = <<>>
  BY DEF Init, Idle
<1>4. <<>> # <<"writekey">>
  OBVIOUS
<1>5. DiskSound
  BY <1>3, <1>4 DEF Init, DiskSound
<1> QED
  BY <1>1, <1>2, <1>5 DEF IInv

LEMMA StepKeeps ==
    ASSUME IInv, NEW r \in Runs, Step(r)
    PROVE  IInv'
<1>1. CASE Start(r)
  BY <1>1, StartKeeps
<1>2. CASE CheckArguments(r) \/ Prompt(r) \/ ValidateFlags(r) \/ ResolveProfile(r) \/ ResolveClient(r) \/ ResolveSecret(r)
           \/ OpenSite(r) \/ OpenSigned(r)
  <2>1. \E step \in TrySteps : Try(r, step)
    BY <1>2 DEF TrySteps, CheckArguments, Prompt, ValidateFlags, ResolveProfile, ResolveClient, ResolveSecret, OpenSite, OpenSigned
  <2> QED
    BY <2>1, TryKeeps
<1>3. CASE ReadList(r) \/ RunSearch(r) \/ PaginateCookbooks(r) \/ PaginateSearch(r) \/ AttachLatestVersions(r)
           \/ LookupCategory(r) \/ ShowShared(r) \/ DownloadShared(r) \/ FetchMemberOrgNames(r) \/ SaveCookbook(r)
  <2>1. \E step \in AskSteps : Ask(r, step)
    BY <1>3 DEF AskSteps, ReadList, RunSearch, PaginateCookbooks, PaginateSearch, AttachLatestVersions,
                LookupCategory, ShowShared, DownloadShared, FetchMemberOrgNames, SaveCookbook
  <2> QED
    BY <2>1, AskKeeps
<1>4. CASE ReadFile(r) \/ ReadItemFile(r) \/ Blank(r) \/ Editor(r) \/ ItemEditor(r) \/ Compare(r) \/ Pin(r) \/ Change(r)
           \/ Seal(r) \/ ConfirmDeletePivotal(r) \/ NodeSSHTargets(r) \/ Get(r) \/ Unseal(r) \/ ReadBack(r)
           \/ LocateCookbook(r) \/ PackCookbook(r)
  BY <1>4, ReadFileKeeps, ReadItemFileKeeps, BlankKeeps, EditorKeeps, ItemEditorKeeps, CompareKeeps, PinKeeps, ChangeKeeps,
     SealKeeps, ConfirmKeeps, HostsKeep, GetKeeps, UnsealKeeps, ReadBackKeeps, LocateKeeps, PackKeeps
<1>5. CASE Update(r) \/ Post(r) \/ PostBag(r) \/ DeleteObject(r) \/ DropKey(r) \/ NewKey(r) \/ PutAce(r) \/ UploadCookbook(r)
  BY <1>5, UpdateKeeps, PostKeeps, PostBagKeeps, DeleteKeeps, DropKeyKeeps, NewKeyKeeps, PutAceKeeps, UploadKeeps
<1>6. CASE ReadAcl(r) \/ ListOrgs(r) \/ GenerateKeyPair(r) \/ EmitPrivateKey(r) \/ OpenKeyFile(r) \/ ChmodKeyFile(r)
           \/ WriteKeyFile(r) \/ BuildScript(r) \/ Bootstrap(r)
  BY <1>6, ReadAclKeeps, ListOrgsKeeps, GenerateKeeps, EmitKeeps, OpenKeyFileKeeps, ChmodKeyFileKeeps, WriteKeyFileKeeps,
     BuildScriptKeeps, BootstrapKeeps
<1> QED
  BY <1>1, <1>2, <1>3, <1>4, <1>5, <1>6 DEF Step

LEMMA NothingKeeps == IInv /\ UNCHANGED vars => IInv'
<1> SUFFICES ASSUME IInv, UNCHANGED vars
             PROVE  IInv'
  OBVIOUS
<1>1. server' = server /\ disk' = disk /\ host' = host /\ run' = run
  BY DEF vars
<1> QED
  BY <1>1 DEF IInv, ServerSound, DiskSound, RunsSound

\* The inductive invariant: every run is at a point its list can have got to.
THEOREM Invariant == Spec => []IInv
<1>1. IInv /\ [Next]_vars => IInv'
  BY StepKeeps, NothingKeeps DEF Next
<1> QED
  BY <1>1, InitIsSound, PTL DEF Spec

\* Every reachable state is well-formed: what the runs, the server, the key file and
\* the host hold (the locals of RunE, the objects of cinc-api).
THEOREM TypeCorrect == Spec => []TypeOK
<1>1. IInv => TypeOK
  <2> SUFFICES ASSUME IInv
               PROVE  TypeOK
    OBVIOUS
  <2>1. \A x \in Objects : server[x].sealed \in 0..1 /\ DOMAIN server[x] = DOMAIN Gone
    <3> SUFFICES ASSUME NEW x \in Objects
                 PROVE  server[x].sealed \in 0..1 /\ DOMAIN server[x] = DOMAIN Gone
      OBVIOUS
    <3>1. IsDoc(server[x])
      BY DEF IInv, ServerSound, Kept
    <3> QED
      BY <3>1 DEF IsDoc, Gone, Doc
  <2>2. \A r \in Runs : Shape(run[r])
    BY DEF IInv, RunsSound, Sound
  <2> QED
    BY <2>1, <2>2 DEF TypeOK, IInv, ServerSound, DiskSound, Shape
<1> QED
  BY <1>1, Invariant, PTL

\* What a command has sent is accounted for, whatever fails and whatever runs beside
\* it: only to the object it was given, nothing if it gave up by itself, and when it
\* fails at most one request the server obeyed is unsaid (RunE of every command).
THEOREM WritesAccounted == Spec => []WritesAreAccountedFor
<1>1. IInv => OnlyItsTarget /\ NothingSaidNothingSent
  BY DEF IInv, RunsSound, Sound, Accounted, Quiet, OnlyItsTarget, NothingSaidNothingSent
<1>2. IInv => OneInDoubt
  <2> SUFFICES ASSUME IInv, NEW r \in Runs, run[r].out = "error", run[r].cmd.verb # "upload"
               PROVE  Cardinality(run[r].wrote \ run[r].told) <= 1
    BY DEF OneInDoubt
  <2>1. PICK x : run[r].wrote \ run[r].told \subseteq {x}
    BY DEF IInv, RunsSound, Sound, Accounted, Doubt
  <2>2. IsFiniteSet({x}) /\ Cardinality({x}) = 1
    BY FS_Singleton
  <2> QED
    BY <2>1, <2>2, FS_Subset
<1> QED
  BY <1>1, <1>2, Invariant, TypeCorrect, PTL DEF WritesAreAccountedFor

\* The private key the server answered, or the command made, is delivered by a
\* command that succeeds; the key file is restricted before it holds one
\* (emitPrivateKey, writeKeyFile, node bootstrap).
THEOREM KeyDelivered == Spec => []KeyIsDelivered
<1>1. IInv => KeyReachesUser
  <2> SUFFICES ASSUME IInv, NEW r \in Runs, run[r].out = "ok", run[r].key # NoKey
               PROVE  run[r].shown = run[r].key
    BY DEF KeyReachesUser
  <2>1. Shape(run[r]) /\ KeyGoesOut(run[r])
    BY DEF IInv, RunsSound, Sound
  <2>2. DOMAIN run[r].left = {}
    BY <2>1 DEF Shape
  <2>3. Answered(run[r])
    BY <2>1, <2>2 DEF KeyGoesOut, Delivered
  <2> QED
    BY <2>3 DEF Answered
<1>2. IInv => KeyFileIsPrivate
  BY DEF IInv, DiskSound, KeyFileIsPrivate
<1> QED
  BY <1>1, <1>2, Invariant, PTL DEF KeyIsDelivered
-----------------------------------------------------------------------------
(* What a step adds to what a run has written                              *)

\* A step that sends no write.
Unwritten(r) == \E t : Becomes(r, t) /\ t.wrote = run[r].wrote

LEMMA NextWrote ==
    ASSUME NEW u, DOMAIN u = DOMAIN Idle, NEW out
    PROVE  Next1(u).wrote = u.wrote /\ Stopped(u, out).wrote = u.wrote
  BY DEF Next1, Stopped, Idle

LEMMA LocalWrote ==
    ASSUME NEW r \in Runs, NEW u, NEW out, DOMAIN u = DOMAIN Idle, u.wrote = run[r].wrote,
           Local(r, Next1(u)) \/ Local(r, Stopped(u, out)) \/ Becomes(r, Next1(u)) \/ Becomes(r, Stopped(u, out)) \/ Local(r, u)
    PROVE  Unwritten(r)
  BY NextWrote DEF Local, Unwritten

LEMMA OthersWrote ==
    ASSUME NEW r \in Runs, Unwritten(r), DOMAIN run = Runs, NEW q \in Runs
    PROVE  run'[q].wrote = run[q].wrote
  BY DEF Unwritten, Becomes

LEMMA FailWrote ==
    ASSUME NEW r \in Runs, Fail(r) \/ Refuse(r), DOMAIN run[r] = DOMAIN Idle
    PROVE  Unwritten(r)
  BY LocalWrote DEF Fail, Refuse

\* A request adds the object it is for, and the server then holds what was sent.
LEMMA WriteWrote ==
    ASSUME IInv, NEW r \in Runs, NEW object, NEW to, NEW u, DOMAIN u = DOMAIN Idle, u.wrote = run[r].wrote,
           Write(r, object, to, Next1(u)), NEW q \in Runs, NEW x \in run'[q].wrote \ run[q].wrote
    PROVE  q = r /\ x = object /\ server' = to
<1> DEFINE s == run[r]  v == [Next1(u) EXCEPT !.wrote = @ \cup {object}]
           w == Stopped([s EXCEPT !.wrote = @ \cup {object}], "error")
<1>1. DOMAIN run = Runs /\ DOMAIN s = DOMAIN Idle /\ \A p \in Runs : DOMAIN run[p] = DOMAIN Idle
  BY DEF IInv, RunsSound, Sound, Shape
<1>2. v.wrote = s.wrote \cup {object} /\ w.wrote = s.wrote \cup {object}
  BY <1>1 DEF Next1, Stopped, Idle
<1>3. \/ Applied(r, to, v)
      \/ Applied(r, to, w)
      \/ Fail(r)
  BY DEF Write
<1> HIDE DEF v, w
<1>4. ASSUME NEW t, t.wrote = s.wrote \cup {object}, Applied(r, to, t)
      PROVE  q = r /\ x = object /\ server' = to
  <2>1. server' = to /\ run' = [p \in Runs |-> IF p = r THEN t
          ELSE IF run[p].out = "running" THEN [run[p] EXCEPT !.others = @ \cup Touched(to)] ELSE run[p]]
    BY <1>4 DEF Applied
  <2>2. CASE q = r
    BY <1>4, <2>1, <2>2
  <2>3. CASE q # r
    <3>1. run'[q] \in {[run[q] EXCEPT !.others = @ \cup Touched(to)], run[q]}
      BY <2>1, <2>3
    <3>2. [run[q] EXCEPT !.others = @ \cup Touched(to)].wrote = run[q].wrote
      BY <1>1 DEF Idle
    <3> QED
      BY <3>1, <3>2
  <2> QED
    BY <2>2, <2>3
<1>5. CASE Fail(r)
  BY <1>1, <1>5, FailWrote, OthersWrote
<1> QED
  BY <1>2, <1>3, <1>4, <1>5

\* The steps that send nothing, or ask for something.
LEMMA PlainWrote ==
    ASSUME NEW r \in Runs, DOMAIN run[r] = DOMAIN Idle,
           \/ \E step : Try(r, step) \/ Ask(r, step)
           \/ NodeSSHTargets(r) \/ BuildScript(r) \/ ReadBack(r) \/ Compare(r)
    PROVE  Unwritten(r)
<1> DEFINE s == run[r]
<1>1. \/ Local(r, Next1(s)) \/ Refuse(r) \/ Fail(r) 
      \/ \E out : Local(r, Stopped(s, out))
  BY DEF Try, Ask, NodeSSHTargets, BuildScript, ReadBack, Compare
<1> QED
  BY <1>1, LocalWrote, FailWrote

LEMMA DocWrote ==
    ASSUME NEW r \in Runs, DOMAIN run[r] = DOMAIN Idle,
           \/ ReadFile(r) \/ ReadItemFile(r) \/ ItemEditor(r) \/ Editor(r) \/ Pin(r) \/ Seal(r) \/ Change(r)
           \/ LocateCookbook(r) \/ PackCookbook(r)
    PROVE  Unwritten(r)
<1> DEFINE s == run[r]
<1>1. \A d : DOMAIN [s EXCEPT !.doc = d] = DOMAIN Idle /\ [s EXCEPT !.doc = d].wrote = s.wrote
  BY DEF Idle
<1>2. (\E d : Local(r, Next1([s EXCEPT !.doc = d]))) \/ Refuse(r) \/ Local(r, Next1(s))
  <2>1. CASE ReadFile(r) \/ ReadItemFile(r)
    BY <2>1 DEF ReadFile, ReadItemFile
  <2>2. CASE ItemEditor(r) \/ Editor(r)
    BY <2>2 DEF ItemEditor, Editor
  <2>3. CASE Pin(r)
    BY <2>3 DEF Pin
  <2>4. CASE Seal(r)
    BY <2>4 DEF Seal
  <2>5. CASE Change(r)
    BY <2>5 DEF Change
  <2>6. CASE LocateCookbook(r) \/ PackCookbook(r)
    BY <2>6 DEF LocateCookbook, PackCookbook
  <2> QED
    BY <2>1, <2>2, <2>3, <2>4, <2>5, <2>6
<1>3. ASSUME NEW d, Local(r, Next1([s EXCEPT !.doc = d]))
      PROVE  Unwritten(r)
  <2> DEFINE u == [s EXCEPT !.doc = d]
  <2>1. DOMAIN u = DOMAIN Idle /\ u.wrote = s.wrote /\ Local(r, Next1(u))
    BY <1>1, <1>3
  <2> HIDE DEF u
  <2> QED
    BY <2>1, LocalWrote
<1> QED
  BY <1>2, <1>3, LocalWrote, FailWrote

LEMMA OtherWrote ==
    ASSUME NEW r \in Runs, DOMAIN run[r] = DOMAIN Idle,
           \/ Blank(r) \/ Get(r) \/ Unseal(r) \/ ConfirmDeletePivotal(r) \/ ReadAcl(r) \/ ListOrgs(r) \/ GenerateKeyPair(r)
           \/ EmitPrivateKey(r) \/ OpenKeyFile(r) \/ ChmodKeyFile(r) \/ WriteKeyFile(r) \/ Bootstrap(r)
    PROVE  Unwritten(r)
<1> DEFINE s == run[r]
<1>1. CASE Blank(r) \/ Get(r) \/ Unseal(r)
  <2>1. Fail(r) \/ \E d, e : Local(r, Next1([s EXCEPT !.doc = d, !.read = e]))
                          \/ Local(r, Next1([s EXCEPT !.read = e, !.doc = d]))
    BY <1>1 DEF Blank, Get, Unseal
  <2>2. ASSUME NEW d, NEW e, Local(r, Next1([s EXCEPT !.doc = d, !.read = e]))
        PROVE  Unwritten(r)
    <3> DEFINE u == [s EXCEPT !.doc = d, !.read = e]
    <3>1. DOMAIN u = DOMAIN Idle /\ u.wrote = s.wrote /\ Local(r, Next1(u))
      BY <2>2 DEF Idle
    <3> HIDE DEF u
    <3> QED
      BY <3>1, LocalWrote
  <2>3. ASSUME NEW d, NEW e, Local(r, Next1([s EXCEPT !.read = e, !.doc = d]))
        PROVE  Unwritten(r)
    <3> DEFINE u == [s EXCEPT !.read = e, !.doc = d]
    <3>1. DOMAIN u = DOMAIN Idle /\ u.wrote = s.wrote /\ Local(r, Next1(u))
      BY <2>3 DEF Idle
    <3> HIDE DEF u
    <3> QED
      BY <3>1, LocalWrote
  <2> QED
    BY <2>1, <2>2, <2>3, FailWrote
<1>2. CASE ConfirmDeletePivotal(r)
  <2> DEFINE u == [s EXCEPT !.agreed = TRUE]
  <2>1. DOMAIN u = DOMAIN Idle /\ u.wrote = s.wrote
    BY DEF Idle
  <2>2. Local(r, Next1(u)) \/ Local(r, Stopped(s, "declined"))
    BY <1>2 DEF ConfirmDeletePivotal
  <2> HIDE DEF u
  <2> QED
    BY <2>1, <2>2, LocalWrote
<1>3. CASE ReadAcl(r)
  <2>1. Fail(r) \/ Local(r, Stopped(s, "unchanged")) \/ \E a, list : Local(r, [s EXCEPT !.read = a, !.left = list])
    BY <1>3 DEF ReadAcl
  <2>2. ASSUME NEW a, NEW list, Local(r, [s EXCEPT !.read = a, !.left = list])
        PROVE  Unwritten(r)
    <3> DEFINE u == [s EXCEPT !.read = a, !.left = list]
    <3>1. DOMAIN u = DOMAIN Idle /\ u.wrote = s.wrote /\ Local(r, u)
      BY <2>2 DEF Idle
    <3> HIDE DEF u
    <3> QED
      BY <3>1, LocalWrote
  <2> QED
    BY <2>1, <2>2, LocalWrote, FailWrote
<1>4. CASE ListOrgs(r) \/ GenerateKeyPair(r) \/ EmitPrivateKey(r) \/ OpenKeyFile(r) \/ ChmodKeyFile(r) \/ WriteKeyFile(r)
  <2>1. \/ Fail(r) \/ Local(r, Next1(s)) \/ Becomes(r, Next1(s))
        \/ \E list : Local(r, [s EXCEPT !.left = list])
        \/ Local(r, Next1([s EXCEPT !.key = r])) 
        \/ Local(r, Next1([s EXCEPT !.shown = s.key])) \/ Becomes(r, Next1([s EXCEPT !.shown = s.key]))
    BY <1>4 DEF ListOrgs, GenerateKeyPair, EmitPrivateKey, OpenKeyFile, ChmodKeyFile, WriteKeyFile
  <2>2. CASE Local(r, Next1([s EXCEPT !.key = r]))
    <3> DEFINE u == [s EXCEPT !.key = r]
    <3>1. DOMAIN u = DOMAIN Idle /\ u.wrote = s.wrote /\ Local(r, Next1(u))
      BY <2>2 DEF Idle
    <3> HIDE DEF u
    <3> QED
      BY <3>1, LocalWrote
  <2>3. CASE Local(r, Next1([s EXCEPT !.shown = s.key])) \/ Becomes(r, Next1([s EXCEPT !.shown = s.key]))
    <3> DEFINE u == [s EXCEPT !.shown = s.key]
    <3>1. DOMAIN u = DOMAIN Idle /\ u.wrote = s.wrote /\ (Local(r, Next1(u)) \/ Becomes(r, Next1(u)))
      BY <2>3 DEF Idle
    <3> HIDE DEF u
    <3> QED
      BY <3>1, LocalWrote
  <2>4. ASSUME NEW list, Local(r, [s EXCEPT !.left = list])
        PROVE  Unwritten(r)
    <3> DEFINE u == [s EXCEPT !.left = list]
    <3>1. DOMAIN u = DOMAIN Idle /\ u.wrote = s.wrote /\ Local(r, u)
      BY <2>4 DEF Idle
    <3> HIDE DEF u
    <3> QED
      BY <3>1, LocalWrote
  <2> QED
    BY <2>1, <2>2, <2>3, <2>4, LocalWrote, FailWrote
<1>5. CASE Bootstrap(r)
  <2> DEFINE u == [s EXCEPT !.shown = s.key]  w == [s EXCEPT !.told = @ \cup {Aimed(r)}]
  <2>1. DOMAIN u = DOMAIN Idle /\ u.wrote = s.wrote /\ DOMAIN w = DOMAIN Idle /\ w.wrote = s.wrote
    BY DEF Idle
  <2>2. Becomes(r, Next1(u)) \/ Becomes(r, Stopped(w, "error"))
    BY <1>5 DEF Bootstrap
  <2> HIDE DEF u, w
  <2> QED
    BY <2>1, <2>2, LocalWrote
<1> QED
  BY <1>1, <1>2, <1>3, <1>4, <1>5

\* What is sent under a secret has just been sealed.
LEMMA SealedIsSent ==
    ASSUME IInv, NEW r \in Runs, At(r, {"put", "post"}), "secret" \in run[r].cmd.opts
    PROVE  /\ run[r].doc.sealed = 1 /\ run[r].doc.name = run[r].cmd.name
           /\ run[r].cmd.noun = "item" /\ Target(run[r].cmd) \in Objects
<1> DEFINE s == run[r]
<1>1. /\ Sound(s) /\ s.left # <<>> /\ IsList(s.left) /\ s.left[1] \in {"put", "post"} /\ Fits(s.cmd, s.left[1])
  BY AtStep
<1>2. s.cmd.noun = "item"
  BY <1>1 DEF Fits
<1>3. (s.doc.sealed = 1) \in BOOLEAN
  OBVIOUS
<1>4. Settled(s.left, s.doc.sealed = 1, {"put", "post"}, {"seal"}, DocSteps)
  BY <1>1 DEF Sound, Sealing
<1>5. s.doc.sealed = 1
  BY <1>1, <1>3, <1>4, HeadSettled
<1>6. s.doc.name = s.cmd.name
  BY <1>1, <1>2, NameIsRight DEF NameUsers
<1>7. Target(s.cmd) \in MayWrite(s.cmd) /\ MayWrite(s.cmd) \subseteq Objects
  BY <1>1 DEF Fits, ObjectSteps, Sound, Accounted
<1> QED
  BY <1>2, <1>5, <1>6, <1>7

LEMMA StepSeals ==
    ASSUME IInv, NEW r \in Runs, Step(r), NEW q \in Runs, "secret" \in run[q].cmd.opts,
           NEW x \in run'[q].wrote \ run[q].wrote
    PROVE  server'[x].sealed = 1
<1> DEFINE s == run[r]
<1>1. DOMAIN run = Runs /\ DOMAIN s = DOMAIN Idle /\ DOMAIN server = Objects
  BY DEF IInv, RunsSound, Sound, Shape, ServerSound
<1>2. ~Unwritten(r)
  BY <1>1, OthersWrote
<1>3. ~Start(r)
  <2> SUFFICES ASSUME Start(r)
               PROVE  FALSE
    OBVIOUS
  <2>1. \A c : [Idle EXCEPT !.cmd = c, !.left = c.steps, !.out = "running"].wrote = {}
    BY DEF Idle
  <2>2. \E t : run' = [run EXCEPT ![r] = t] /\ t.wrote = {}
    BY <2>1 DEF Start
  <2> QED
    BY <1>1, <2>2
<1>4. CASE Update(r)
  <2> DEFINE at == Put(r)  d == s.doc  new == <<at[1], at[2], d.name>>
             to == [[server EXCEPT ![at] = Gone] EXCEPT ![new] = Stored(r, d)]
             key == IF s.cmd.noun = "key" /\ "create_key" \in d.val THEN r ELSE s.key
             u == [s EXCEPT !.key = key]
  <2>1. Write(r, at, to, Next1(u)) \/ Fail(r)
    BY <1>4 DEF Update
  <2>2. Write(r, at, to, Next1(u)) /\ DOMAIN u = DOMAIN Idle /\ u.wrote = s.wrote
    BY <1>1, <1>2, <2>1, FailWrote DEF Idle
  <2> HIDE DEF u, to, at
  <2>3. q = r /\ x = at /\ server' = to
    BY <2>2, WriteWrote
  <2>4. At(r, {"put", "post"})
    BY <1>4 DEF Update, At
  <2>5. d.sealed = 1 /\ d.name = s.cmd.name /\ s.cmd.noun = "item" /\ Target(s.cmd) \in Objects
    BY <2>3, <2>4, SealedIsSent
  <2>6. at = Target(s.cmd) /\ new = at /\ Stored(r, d) = d
    BY <2>5 DEF at, Put, Target, Stored
  <2>7. to[at] = d
    BY <1>1, <2>5, <2>6 DEF to
  <2> QED
    BY <2>3, <2>5, <2>7
<1>5. CASE Post(r)
  <2> DEFINE d == s.doc  at == <<s.cmd.noun, s.cmd.scope, d.name>>
             stored == IF at[1] = "key" THEN Doc(d.name, KeyOf(r)) ELSE d
             to == [y \in Objects |-> IF y = at THEN stored
                                    ELSE IF at[1] \in {"client", "user"} /\ y = DefaultKey(at)
                                    THEN Doc("default", KeyOf(r)) ELSE server[y]]
             key == IF Generates(r) THEN r ELSE s.key
             u == [s EXCEPT !.key = key]
  <2>1. Write(r, at, to, Next1(u)) \/ Fail(r)
    BY <1>5 DEF Post
  <2>2. Write(r, at, to, Next1(u)) /\ DOMAIN u = DOMAIN Idle /\ u.wrote = s.wrote
    BY <1>1, <1>2, <2>1, FailWrote DEF Idle
  <2> HIDE DEF u, to, at, stored
  <2>3. q = r /\ x = at /\ server' = to
    BY <2>2, WriteWrote
  <2>4. At(r, {"put", "post"})
    BY <1>5 DEF Post, At
  <2>5. d.sealed = 1 /\ d.name = s.cmd.name /\ s.cmd.noun = "item" /\ Target(s.cmd) \in Objects
    BY <2>3, <2>4, SealedIsSent
  <2>6. at = Target(s.cmd) /\ stored = d
    BY <2>5 DEF at, stored, Target
  <2>7. to[at] = d
    BY <2>5, <2>6 DEF to
  <2> QED
    BY <2>3, <2>5, <2>7
<1>6. CASE PostBag(r) \/ DeleteObject(r) \/ DropKey(r) \/ NewKey(r) \/ PutAce(r) \/ UploadCookbook(r)
  <2>1. At(r, Writers \ {"put", "post"})
    <3>1. {"postbag", "erase", "dropkey", "newkey", "upload"} \cup Permissions \subseteq Writers \ {"put", "post"}
      BY PermsAssumption DEF Writers, ObjectSteps, Permissions, Steps
    <3>2. CASE PostBag(r)
      BY <3>1, <3>2 DEF PostBag, At
    <3>3. CASE DeleteObject(r)
      BY <3>1, <3>3 DEF DeleteObject, At
    <3>4. CASE DropKey(r) \/ NewKey(r)
      BY <3>1, <3>4 DEF DropKey, NewKey, At
    <3>5. CASE PutAce(r)
      BY <3>1, <3>5 DEF PutAce, At, Permissions
    <3>6. CASE UploadCookbook(r)
      BY <3>1, <3>6 DEF UploadCookbook, At
    <3> QED
      BY <1>6, <3>2, <3>3, <3>4, <3>5, <3>6
  <2>2. s.left[1] \in Writers \ {"put", "post"} /\ Fits(s.cmd, s.left[1])
    BY <2>1, AtStep
  <2>3. "secret" \notin s.cmd.opts
    BY <2>2 DEF Fits
  <2>4. q = r
    <3>1. ASSUME NEW object, NEW to, NEW u, DOMAIN u = DOMAIN Idle, u.wrote = s.wrote, Write(r, object, to, Next1(u))
          PROVE  q = r
      BY <3>1, WriteWrote
    <3>2. \/ Fail(r) \/ Local(r, Next1(s))
          \/ \E object, to : Write(r, object, to, Next1(s))
          \/ \E object, to : Write(r, object, to, Next1([s EXCEPT !.key = r]))
          \/ \E object, to, told : Write(r, object, to, Next1([s EXCEPT !.told = told]))
      <4>1. CASE PostBag(r)
        BY <4>1 DEF PostBag
      <4>2. CASE DeleteObject(r) \/ DropKey(r) \/ UploadCookbook(r)
        BY <4>2 DEF DeleteObject, DropKey, UploadCookbook
      <4>3. CASE NewKey(r)
        BY <4>3 DEF NewKey
      <4>4. CASE PutAce(r)
        BY <4>4 DEF PutAce
      <4> QED
        BY <1>6, <4>1, <4>2, <4>3, <4>4
    <3>3. ASSUME NEW object, NEW to, Write(r, object, to, Next1([s EXCEPT !.key = r]))
          PROVE  q = r
      <4> DEFINE u == [s EXCEPT !.key = r]
      <4>1. DOMAIN u = DOMAIN Idle /\ u.wrote = s.wrote /\ Write(r, object, to, Next1(u))
        BY <1>1, <3>3 DEF Idle
      <4> HIDE DEF u
      <4> QED
        BY <4>1, <3>1
    <3>4. ASSUME NEW object, NEW to, NEW told, Write(r, object, to, Next1([s EXCEPT !.told = told]))
          PROVE  q = r
      <4> DEFINE u == [s EXCEPT !.told = told]
      <4>1. DOMAIN u = DOMAIN Idle /\ u.wrote = s.wrote /\ Write(r, object, to, Next1(u))
        BY <1>1, <3>4 DEF Idle
      <4> HIDE DEF u
      <4> QED
        BY <4>1, <3>1
    <3> QED
      BY <1>1, <1>2, <3>1, <3>2, <3>3, <3>4, FailWrote, LocalWrote
  <2> QED
    BY <2>3, <2>4
<1>7. CASE CheckArguments(r) \/ Prompt(r) \/ ValidateFlags(r) \/ ResolveProfile(r) \/ ResolveClient(r) \/ ResolveSecret(r)
           \/ OpenSite(r) \/ OpenSigned(r) \/ ReadList(r) \/ RunSearch(r) \/ PaginateCookbooks(r) \/ PaginateSearch(r)
           \/ AttachLatestVersions(r) \/ LookupCategory(r) \/ ShowShared(r) \/ DownloadShared(r) \/ FetchMemberOrgNames(r)
           \/ SaveCookbook(r)
  <2>1. \E step : Try(r, step) \/ Ask(r, step)
    BY <1>7 DEF CheckArguments, Prompt, ValidateFlags, ResolveProfile, ResolveClient, ResolveSecret, OpenSite, OpenSigned,
                ReadList, RunSearch, PaginateCookbooks, PaginateSearch, AttachLatestVersions,
                LookupCategory, ShowShared, DownloadShared, FetchMemberOrgNames, SaveCookbook
  <2> QED
    BY <1>1, <1>2, <2>1, PlainWrote
<1> QED
  BY <1>1, <1>2, <1>3, <1>4, <1>5, <1>6, <1>7, PlainWrote, DocWrote, OtherWrote DEF Step

\* What `databag secret` writes is encrypted, once (databag_secret.go).
THEOREM SecretsStaySealed == Spec => StaysSealed
<1> DEFINE Seals == \A r \in Runs : "secret" \in run[r].cmd.opts =>
                      \A x \in run'[r].wrote \ run[r].wrote : x[1] = "item" => server'[x].sealed = 1
<1>1. IInv /\ [Next]_vars => [Seals]_vars
  <2> SUFFICES ASSUME IInv, Next
               PROVE  Seals
    OBVIOUS
  <2> QED
    BY StepSeals DEF Next
<1>2. Spec => [][Seals]_vars
  BY <1>1, Invariant, PTL DEF Spec
<1> QED
  BY <1>2 DEF StaysSealed
-----------------------------------------------------------------------------
(* What a run has done by the time it says so                              *)

\* What changes the document, the server or the key; what a command is there to do.
Stirrers == DocSteps \cup {"pin", "backfill", "seal", "genkey"} \cup (Writers \ Permissions)
Doers == {"put", "post", "erase", "newkey"}

Changing(c) == c.noun # "acl" /\ c.verb \in {"add", "remove", "set"}
KeyEditing(c) == c.noun = "key" /\ c.verb = "edit"
Doing(c) ==
    /\ c.noun # "acl" /\ "dryRun" \notin c.opts
    /\ c.verb \in {"add", "remove", "set", "delete", "edit", "create", "rotate", "bootstrap"}
Booting(c) == Doing(c) /\ c.verb = "bootstrap"
Membering(c) == Doing(c) /\ c.noun = "group" /\ c.verb \in {"add", "remove"}

Changed(c, d) ==
    [d EXCEPT !.val = CASE c.verb = "add" -> @ \cup c.entries
                        [] c.verb = "remove" -> @ \ c.entries
                        [] OTHER -> (@ \ c.family) \cup c.entries]
Generating(c) == c.noun \in {"client", "user", "key", "org"} /\ "publicKey" \notin c.opts
StoredAs(r, c, d) ==
    IF c.noun = "group" THEN [d EXCEPT !.val = @ \cap Known]
    ELSE IF c.noun = "key" /\ "create_key" \in d.val THEN [d EXCEPT !.val = {r}]
    ELSE d
Edited(s) == <<s.cmd.noun, s.cmd.scope, s.doc.name>>
Bag(c) == <<"databag", None, c.scope>>

\* The server holds what the command was to do, object by object, unless another run
\* has written the object since.
HasChanged(s, srv) ==
    LET val == Changed(s.cmd, s.read).val IN
    \/ Target(s.cmd) \in s.others
    \/ srv[Target(s.cmd)].val = IF s.cmd.noun = "group" THEN val \cap Known ELSE val
HasEdited(r, s, srv) ==
    Edited(s) \in Objects /\ (Edited(s) \in s.others \/ srv[Edited(s)] = StoredAs(r, s.cmd, s.doc))
HasItem(s, srv) ==
    /\ Target(s.cmd) \in s.others \/ srv[Target(s.cmd)] = s.doc
    /\ Bag(s.cmd) \in s.others \/ srv[Bag(s.cmd)] # Gone
HasKey(s, srv, key) ==
    LET at == DefaultKey(Target(s.cmd)) IN at \in Objects /\ (at \in s.others \/ srv[at].val = key)
HasObject(r, s, srv) ==
    /\ Target(s.cmd) \in s.others \/ srv[Target(s.cmd)] # Gone
    /\ s.cmd.noun \in {"client", "user"} =>
          HasKey(s, srv, IF s.key = r \/ Generating(s.cmd) THEN {r} ELSE {"mine"})
Effect(r, s, srv) ==
    LET c == s.cmd  at == Target(c) IN
    /\ c.verb \in {"add", "remove", "set"} => HasChanged(s, srv)
    /\ c.verb = "delete" => at \in s.others \/ srv[at] = Gone
    /\ c.verb = "edit" => HasEdited(r, s, srv)
    /\ c.verb = "create" /\ c.noun = "item" => HasItem(s, srv)
    /\ c.verb \in {"create", "bootstrap"} /\ c.noun # "item" => HasObject(r, s, srv)
    /\ c.verb = "rotate" => s.key = r /\ (at \in s.others \/ srv[at].val = {r})
MembersKept(s, srv) ==
    LET at == Target(s.cmd) IN
    at \in s.others \/ IF s.cmd.verb = "add" THEN s.cmd.entries \subseteq srv[at].val ELSE s.cmd.entries \cap srv[at].val = {}

\* Which verbs a step that does it serves.
Serves(c, left) ==
    Doing(c) => \A j \in DOMAIN left :
        /\ left[j] = "put" => c.verb \in {"add", "remove", "set", "edit"}
        /\ left[j] = "post" => c.verb \in {"create", "bootstrap"}
        /\ left[j] = "erase" => c.verb = "delete"
        /\ left[j] = "newkey" => c.verb = "rotate"

\* What a run that has got as far as s knows, and what the server holds for it.
Suited(r, s) == s.cmd \in CommandsOf[r] /\ Serves(s.cmd, s.left)
KnownMembers(s) ==
    s.cmd.noun = "group" =>
        s.read.val \subseteq Known /\ Settled(s.left, s.doc.val \subseteq Known, {"post"}, {"blank"}, Stirrers)
ChangeReady(s) ==
    Changing(s.cmd) => /\ s.cmd.noun # "key" /\ (s.cmd.verb = "set" => s.cmd.noun # "group")
                       /\ Settled(s.left, s.doc = Changed(s.cmd, s.read), {"put"}, {"change"}, Stirrers)
KeyNamed(s) ==
    KeyEditing(s.cmd) =>
        /\ Settled(s.left, s.doc.name \in Names \cup {None}, {"backfill"}, {"file", "editor"}, Stirrers)
        /\ Settled(s.left, s.doc.name \in Names \cup {s.cmd.name}, {"put"}, {"backfill"}, Stirrers)
OwnKey(r, s) ==
    /\ s.key \in {NoKey, r}
    /\ Booting(s.cmd) => /\ s.cmd.noun = "client"
                         /\ Settled(s.left, s.key = r, {"post", "session"}, {"genkey"}, {})
                         /\ s.left # <<>> => Delivered(s.left, FALSE, {"session"}, Steps)
Effective(r, s, srv) == Doing(s.cmd) => Delivered(s.left, Effect(r, s, srv), Doers, Stirrers)
MembersSeen(r, s, srv) ==
    Membering(s.cmd) =>
        /\ Settled(s.left, Effect(r, s, srv), {"readback"}, {"put"}, Stirrers)
        /\ Delivered(s.left, MembersKept(s, srv), {"readback"}, Stirrers)
Granted(s, srv) ==
    s.cmd.noun = "acl" =>
      /\ \A i \in DOMAIN s.cmd.perms : s.cmd.perms[i] \in Permissions /\ <<"acl", s.cmd.scope, s.cmd.perms[i]>> \in MayWrite(s.cmd)
      /\ \/ \E k \in DOMAIN s.left : s.left[k] = "readacl"
        \/ \A i \in DOMAIN s.cmd.perms : LET ace == <<"acl", s.cmd.scope, s.cmd.perms[i]>> IN
              \/ ace \in s.others
              \/ ~Changes(s.cmd, srv[ace].val)
              \/ Changes(s.cmd, s.read[s.cmd.perms[i]]) /\ \E k \in DOMAIN s.left : s.left[k] = s.cmd.perms[i]
Tells(r, s, srv) ==
    /\ Suited(r, s) /\ KnownMembers(s) /\ ChangeReady(s) /\ KeyNamed(s) /\ OwnKey(r, s)
    /\ Effective(r, s, srv) /\ MembersSeen(r, s, srv) /\ Granted(s, srv)
GroupsKnown == \A x \in Objects : x[1] = "group" => server[x].val \subseteq Known
Truthful == GroupsKnown /\ \A r \in Runs : run[r].out = "running" => Tells(r, run[r], server)
-----------------------------------------------------------------------------
(* The commands that promise something                                     *)

\* What holds of a command before its first step.
Prepared(c) ==
    /\ Serves(c, c.steps)
    /\ c.noun = "group" => Settled(c.steps, FALSE, {"post"}, {"blank"}, Stirrers)
    /\ Changing(c) => /\ c.noun # "key" /\ (c.verb = "set" => c.noun # "group")
                      /\ Settled(c.steps, FALSE, {"put"}, {"change"}, Stirrers)
    /\ KeyEditing(c) => /\ Settled(c.steps, FALSE, {"backfill"}, {"file", "editor"}, Stirrers)
                        /\ Settled(c.steps, FALSE, {"put"}, {"backfill"}, Stirrers)
    /\ Booting(c) => /\ c.noun = "client"
                     /\ Settled(c.steps, FALSE, {"post", "session"}, {"genkey"}, {})
                     /\ Delivered(c.steps, FALSE, {"session"}, Steps)
    /\ Doing(c) => Delivered(c.steps, FALSE, Doers, Stirrers)
    /\ Membering(c) => /\ Settled(c.steps, FALSE, {"readback"}, {"put"}, Stirrers)
                       /\ Delivered(c.steps, FALSE, {"readback"}, Stirrers)
    /\ c.noun = "acl" => /\ \A i \in DOMAIN c.perms : c.perms[i] \in Permissions /\ <<"acl", c.scope, c.perms[i]>> \in MayWrite(c)
                         /\ DOMAIN c.perms = {} \/ \E k \in DOMAIN c.steps : c.steps[k] = "readacl"

BootList == <<"check", "prompt", "flags", "profile", "connect", "genkey", "blank", "post", "script", "session">>
MemberList == <<"check", "connect", "get", "change", "compare", "put", "readback">>
LookLists == {<<"check", "connect", "get">>, <<"check", "connect", "list">>, <<"check", "connect", "search">>}
DeleteLists == {<<"connect", "erase">>, <<"connect", "ask", "erase">>}
RotateList == <<"connect", "dropkey", "newkey", "emit">>
RewriteLists ==
    {<<"connect", "file", "pin", "put">>, <<"connect", "get", "editor", "compare", "pin", "put">>,
     <<"connect", "get", "editor", "pin", "compare", "put">>, <<"connect", "itemfile", "put">>,
     <<"connect", "get", "itemeditor", "compare", "put">>}
ChangeLists ==
    {<<"connect", "prompt", "get", "change", "put">>, <<"check", "connect", "get", "change", "compare", "put">>,
     <<"connect", "get", "change", "compare", "put">>}
BlankList == <<"connect", "blank", "post">>
KeyedLists == {<<"connect", "check", "blank", "post", "emit">>, <<"connect", "blank", "post", "emit">>}

\* What its verb and noun say of the steps of a command.
OneOfKind(c) ==
    \/ c.noun = "acl" /\ (DOMAIN c.perms = {} \/ (c.verb \in {"add", "remove"} /\ c.opts = {} /\ c.steps = <<"check", "connect", "readacl">> /\ c.perms \in Seq(Permissions)))
    \/ /\ c.noun # "acl" /\ c.verb \in {"show", "list", "run", "upload", "install", "share"}
       /\ c.noun = "group" => c.steps \in LookLists
    \/ c.noun = "client" /\ c.verb = "bootstrap" /\ ("dryRun" \in c.opts \/ c.steps = BootList)
    \/ c.noun # "acl" /\ c.verb = "delete" /\ c.steps \in DeleteLists
    \/ c.noun = "key" /\ c.verb = "rotate" /\ c.steps = RotateList
    \/ c.noun \notin {"acl", "key"} /\ c.verb = "edit" /\ c.steps \in RewriteLists \cup SecretEditLists
    \/ c.noun = "key" /\ c.verb = "edit" /\ c.steps \in KeyEditLists
    \/ c.noun = "group" /\ c.verb = "create" /\ c.steps = BlankList
    \/ c.noun \notin {"acl", "group"} /\ c.verb = "create" /\ c.steps \in CreateLists \cup SecretCreateLists \cup KeyedLists
    \/ c.noun = "group" /\ c.verb \in {"add", "remove"} /\ c.steps = MemberList
    \/ c.noun \notin {"acl", "group", "key"} /\ c.verb \in {"add", "remove", "set"} /\ c.steps \in ChangeLists

LEMMA KindsAreTold ==
    ASSUME NEW c, IsCommand(c)
    PROVE  OneOfKind(c)
<1> DEFINE n == c.name  o == c.opts  s == c.scope
<1> USE DEF Command, Plain, Show, List, Delete
<1>1. CASE c.noun = "client" /\ IsClientCommand(c, n, o)
  <2>1. CASE c \in {ClientShow(n), ClientDelete(n), ClientList} \/ c = ClientEdit(n, o)
    BY <1>1, <2>1 DEF OneOfKind, ClientShow, ClientDelete, ClientList, ClientEdit, Edit, DeleteLists, RewriteLists
  <2>2. CASE c = ClientCreate(n, o)
    BY <1>1, <2>2 DEF OneOfKind, ClientCreate, CreateWithKey, KeyedLists
  <2>3. CASE o \subseteq {"publicKey", "dryRun"} /\ c = NodeBootstrap(n, o)
    BY <1>1, <2>3 DEF OneOfKind, NodeBootstrap, BootList
  <2> QED
    BY <1>1, <2>1, <2>2, <2>3 DEF IsClientCommand
<1>2. CASE c.noun = "user" /\ IsUserCommand(c, n, o)
  <2>1. CASE c \in {UserShow(n), UserList, UserPassword(n)} \/ c = UserDelete(n, o)
    BY <1>2, <2>1 DEF OneOfKind, UserShow, UserList, UserPassword, UserDelete, ChangeLists, DeleteLists
  <2>2. CASE c = UserEdit(n, o) \/ c = UserCreate(n, o)
    BY <1>2, <2>2 DEF OneOfKind, UserEdit, UserCreate, Edit, CreateWithKey, KeyedLists, RewriteLists
  <2> QED
    BY <1>2, <2>1, <2>2 DEF IsUserCommand
<1>3. CASE c.noun = "key" /\ IsKeyCommand(c, s, n, o)
  <2>1. CASE c \in {KeyList(s), KeyShow(s, n), KeyDelete(s, n)}
    BY <1>3, <2>1 DEF OneOfKind, KeyList, KeyShow, KeyDelete, DeleteLists
  <2>2. CASE c = KeyCreate(s, n, o)
    <3>1. c.verb = "create" /\ c.steps \in KeyedLists
      BY <2>2 DEF KeyCreate, CreateWithKey, KeyedLists
    <3> QED
      BY <1>3, <3>1 DEF OneOfKind
  <2>3. CASE c = KeyEdit(s, n, o)
    BY <1>3, <2>3 DEF OneOfKind, KeyEdit, KeyEditLists
  <2>4. CASE c.verb = "rotate" /\ c = ClientReregister(s[2], o)
    BY <1>3, <2>4 DEF OneOfKind, ClientReregister, RotateList
  <2> QED
    BY <1>3, <2>1, <2>2, <2>3, <2>4 DEF IsKeyCommand
<1>4. CASE c.noun = "role" /\ IsRoleCommand(c, n, o)
  BY <1>4 DEF OneOfKind, IsRoleCommand, RoleShow, RoleDelete, RoleList, RoleCreate, RoleEdit, Create, Edit, CreateLists, RewriteLists, DeleteLists
<1>5. CASE c.noun = "environment" /\ IsEnvironmentCommand(c, n, o)
  BY <1>5 DEF OneOfKind, IsEnvironmentCommand, EnvironmentShow, EnvironmentDelete, EnvironmentList, EnvironmentCreate, EnvironmentEdit,
              Create, Edit, CreateLists, RewriteLists, DeleteLists
<1>6. CASE c.noun = "group" /\ IsGroupCommand(c, n, o)
  <2>1. CASE c \in {GroupShow(n), GroupCreate(n), GroupDelete(n), GroupList} \/ c = GroupEdit(n, o)
    BY <1>6, <2>1 DEF OneOfKind, GroupShow, GroupCreate, GroupDelete, GroupList, GroupEdit, Create, Edit, BlankList, LookLists,
                      RewriteLists, DeleteLists
  <2>2. CASE c = GroupMemberChange(n, c.verb = "add", c.entries)
    <3>1. c.verb \in {"add", "remove"} /\ c.steps = MemberList
      BY <2>2 DEF GroupMemberChange, MemberList
    <3> QED
      BY <1>6, <3>1 DEF OneOfKind
  <2> QED
    BY <1>6, <2>1, <2>2 DEF IsGroupCommand
<1>7. CASE c.noun \in {"org", "member", "invite"} /\ IsOrgCommand(c, n, o)
  <2>1. CASE c \in {OrgList, OrgShow(n), OrgDelete(n), OrgMemberList, OrgMemberAdd(n), OrgMemberRemove(n)}
    BY <1>7, <2>1 DEF OneOfKind, OrgList, OrgShow, OrgDelete, OrgMemberList, OrgMemberAdd, OrgMemberRemove, Create, CreateLists, DeleteLists
  <2>2. CASE c \in {OrgInviteList, OrgInviteCreate(n), OrgInviteRescind(n)} \/ c = OrgEdit(n, o) \/ c = OrgCreate(n, o)
    BY <1>7, <2>2 DEF OneOfKind, OrgInviteList, OrgInviteCreate, OrgInviteRescind, OrgEdit, OrgCreate, Create, Edit, CreateWithKey,
                      CreateLists, KeyedLists, RewriteLists, DeleteLists
  <2> QED
    BY <1>7, <2>1, <2>2 DEF IsOrgCommand
<1>8. CASE c.noun = "acl" /\ IsAclCommand(c, s)
  <2>1. c = AclShow(s) => DOMAIN c.perms = {}
    BY DEF AclShow
  <2>2. c = AclChange(s, c.verb = "add", c.perms, c.entries) =>
             c.verb \in {"add", "remove"} /\ c.opts = {} /\ c.steps = <<"check", "connect", "readacl">>
    BY DEF AclChange
  <2> QED
    BY <1>8, <2>1, <2>2 DEF IsAclCommand, OneOfKind, Permissions
<1>9. CASE c.noun = "node" /\ IsNodeCommand(c, n, o)
  <2>1. CASE c \in {NodeShow(n), NodeDelete(n), NodeList, NodeStatus} \/ c = NodeSSH(o)
    BY <1>9, <2>1 DEF OneOfKind, NodeShow, NodeDelete, NodeList, NodeStatus, NodeSSH, DeleteLists
  <2>2. CASE c \in {NodeCreate(n, o), NodeEdit(n, o)}
    BY <1>9, <2>2 DEF OneOfKind, NodeCreate, NodeEdit, CreateLists, RewriteLists
  <2>3. ASSUME NEW verb, NEW family, NEW m, NEW steps \in ChangeLists, verb \in {"add", "remove", "set"},
               c = Modify(verb, n, family, m, steps)
        PROVE  OneOfKind(c)
    <3>1. c.verb = verb /\ c.steps = steps
      BY <2>3 DEF Modify
    <3> QED
      BY <1>9, <2>3, <3>1 DEF OneOfKind
  <2>4. c.verb \in {"add", "remove", "set"} /\ c = NodeListField(c.verb, n, c.entries) => OneOfKind(c)
    BY <2>3 DEF NodeListField, ChangeLists
  <2>5. \A e : c \in {NodeEnvironmentSet(n, e), NodePolicySet(n, e)} => OneOfKind(c)
    BY <2>3 DEF NodeEnvironmentSet, NodePolicySet, Setting, ChangeLists
  <2> QED
    BY <1>9, <2>1, <2>2, <2>4, <2>5 DEF IsNodeCommand
<1>10. CASE c.noun = "databag" /\ IsBagCommand(c, n)
  BY <1>10 DEF OneOfKind, IsBagCommand, DataBagCreate, DataBagDelete, DataBagList, Create, CreateLists, DeleteLists
<1>11. CASE c.noun = "item" /\ IsItemCommand(c, s, n, o)
  <2>1. CASE c \in {ItemList(s), ItemShow(s, n), ItemDelete(s, n), SecretShow(s, n)}
    BY <1>11, <2>1 DEF OneOfKind, ItemList, ItemShow, ItemDelete, SecretShow, Secret, DeleteLists
  <2>2. CASE c \in {DataBagCreateWithItem(s, n, o), ItemCreate(s, n, o), ItemEdit(s, n, o)}
    BY <1>11, <2>2 DEF OneOfKind, DataBagCreateWithItem, ItemCreate, ItemEdit, CreateLists, RewriteLists
  <2>3. CASE c = SecretCreate(s, n, o)
    <3>1. c.verb = "create" /\ c.steps \in SecretCreateLists
      BY <2>3 DEF SecretCreate, Secret, SecretCreateLists
    <3> QED
      BY <1>11, <3>1 DEF OneOfKind
  <2>4. CASE c = SecretEdit(s, n, o)
    <3>1. c.verb = "edit" /\ c.steps \in SecretEditLists
      BY <2>4 DEF SecretEdit, Secret, SecretEditLists
    <3> QED
      BY <1>11, <3>1 DEF OneOfKind
  <2> QED
    BY <1>11, <2>1, <2>2, <2>3, <2>4 DEF IsItemCommand
<1>12. CASE c.noun = "cookbook" /\ IsCookbookCommand(c, n)
  <2>1. CASE c \in {CookbookDownload(n), CookbookShow(n), CookbookDelete(n), CookbookList, SupermarketInstall(n), SupermarketExplore(n)}
    BY <1>12, <2>1 DEF OneOfKind, CookbookDownload, CookbookShow, CookbookDelete, CookbookList, SupermarketInstall, SupermarketExplore,
                       Installing, DeleteLists
  <2>2. CASE c.verb = "upload"
    BY <1>12, <2>2 DEF OneOfKind
  <2> QED
    BY <1>12, <2>1, <2>2 DEF IsCookbookCommand
<1>13. CASE c.noun \in {"policy", "policygroup"} /\ IsPolicyCommand(c, n)
  BY <1>13 DEF OneOfKind, IsPolicyCommand, PolicyDelete, PolicyShow, PolicyList, PolicyGroupDelete, PolicyGroupShow, PolicyGroupList, DeleteLists
<1>14. CASE c.noun = "shared" /\ IsSharedCommand(c, n, o)
  BY <1>14 DEF OneOfKind, IsSharedCommand, SupermarketShow, SupermarketList, SupermarketSearch, SupermarketShare
<1>15. CASE c.verb = "list" /\ c = Search(c.noun)
  <2>1. c.steps = <<"check", "connect", "search">> /\ DOMAIN c.perms = {}
    BY <1>15 DEF Search
  <2> QED
    BY <1>15, <2>1 DEF OneOfKind, LookLists
<1> QED
  BY <1>1, <1>2, <1>3, <1>4, <1>5, <1>6, <1>7, <1>8, <1>9, <1>10, <1>11, <1>12, <1>13, <1>14, <1>15 DEF IsCommand

LEMMA KindsArePrepared ==
    ASSUME NEW c, OneOfKind(c)
    PROVE  Prepared(c)
<1> USE DEF Settled, Delivered, Stirrers, Doers, DocSteps, Writers, ObjectSteps, Steps
<1>12. Serves(c, c.steps)
  <2>1. c.verb \notin {"add", "remove", "set", "edit", "create", "bootstrap", "delete", "rotate"} \/ c.noun = "acl" => Serves(c, c.steps)
    BY DEF Serves, Doing
  <2>2. c.steps \in {BootList, BlankList} \cup CreateLists \cup SecretCreateLists \cup KeyedLists =>
            \A j \in DOMAIN c.steps : c.steps[j] \notin {"put", "erase", "newkey"}
    BY DEF BootList, BlankList, CreateLists, SecretCreateLists, KeyedLists
  <2>3. c.steps \in DeleteLists => \A j \in DOMAIN c.steps : c.steps[j] \notin {"put", "post", "newkey"}
    BY DEF DeleteLists
  <2>4. c.steps \in {RotateList} => \A j \in DOMAIN c.steps : c.steps[j] \notin {"put", "post", "erase"}
    BY DEF RotateList
  <2>5. c.steps \in {MemberList} \cup ChangeLists \cup RewriteLists \cup SecretEditLists \cup KeyEditLists =>
            \A j \in DOMAIN c.steps : c.steps[j] \notin {"post", "erase", "newkey"}
    BY DEF MemberList, ChangeLists, RewriteLists, SecretEditLists, KeyEditLists
  <2>6. c.verb = "bootstrap" /\ "dryRun" \in c.opts => Serves(c, c.steps)
    BY DEF Serves, Doing
  <2> QED
    BY <2>1, <2>2, <2>3, <2>4, <2>5, <2>6 DEF OneOfKind, Serves
<1>0. Stirrers = DocSteps \cup {"pin", "backfill", "seal", "genkey"} \cup ObjectSteps \cup {"postbag", "upload"}
  BY PermsAssumption DEF Permissions
<1>1. CASE c.noun = "acl" /\ (DOMAIN c.perms = {} \/ (c.verb \in {"add", "remove"} /\ c.opts = {} /\ c.steps = <<"check", "connect", "readacl">> /\ c.perms \in Seq(Permissions)))
  <2>1. c.steps = <<"check", "connect", "readacl">> => 3 \in DOMAIN c.steps /\ c.steps[3] = "readacl"
    OBVIOUS
  <2>2. \A i \in DOMAIN c.perms : c.perms[i] \in Permissions /\ <<"acl", c.scope, c.perms[i]>> \in MayWrite(c)
    BY <1>1 DEF MayWrite, Permissions
  <2> QED
    BY <1>12, <1>1, <2>1, <2>2 DEF Prepared, Changing, KeyEditing, Booting, Doing, Membering
<1>2. CASE /\ c.noun # "acl" /\ c.verb \in {"show", "list", "run", "upload", "install", "share"}
           /\ c.noun = "group" => c.steps \in LookLists
  <2>1. c.noun = "group" => \A j \in DOMAIN c.steps : c.steps[j] # "post"
    BY <1>2 DEF LookLists
  <2> QED
    BY <1>12, <1>2, <2>1 DEF Prepared, Changing, KeyEditing, Booting, Doing, Membering
<1>3. CASE c.noun = "client" /\ c.verb = "bootstrap" /\ ("dryRun" \in c.opts \/ c.steps = BootList)
  <2>1. c.steps = BootList => /\ Settled(c.steps, FALSE, {"post", "session"}, {"genkey"}, {})
                              /\ Delivered(c.steps, FALSE, {"session"}, Steps)
    BY DEF BootList
  <2>2. c.steps = BootList => Delivered(c.steps, FALSE, Doers, Stirrers)
    BY <1>0 DEF BootList
  <2> QED
    BY <1>12, <1>3, <2>1, <2>2 DEF Prepared, Changing, KeyEditing, Booting, Doing, Membering
<1>4. CASE c.noun # "acl" /\ c.verb = "delete" /\ c.steps \in DeleteLists
  <2>1. Delivered(c.steps, FALSE, Doers, Stirrers) /\ \A j \in DOMAIN c.steps : c.steps[j] # "post"
    BY <1>0, <1>4 DEF DeleteLists
  <2> QED
    BY <1>12, <1>4, <2>1 DEF Prepared, Changing, KeyEditing, Booting, Doing, Membering
<1>5. CASE c.noun = "key" /\ c.verb = "rotate" /\ c.steps = RotateList
  <2>1. Delivered(c.steps, FALSE, Doers, Stirrers)
    BY <1>0, <1>5 DEF RotateList
  <2> QED
    BY <1>12, <1>5, <2>1 DEF Prepared, Changing, KeyEditing, Booting, Doing, Membering
<1>6. CASE c.noun \notin {"acl", "key"} /\ c.verb = "edit" /\ c.steps \in RewriteLists \cup SecretEditLists
  <2>1. Delivered(c.steps, FALSE, Doers, Stirrers) /\ \A j \in DOMAIN c.steps : c.steps[j] # "post"
    BY <1>0, <1>6 DEF RewriteLists, SecretEditLists
  <2> QED
    BY <1>12, <1>6, <2>1 DEF Prepared, Changing, KeyEditing, Booting, Doing, Membering
<1>7. CASE c.noun = "key" /\ c.verb = "edit" /\ c.steps \in KeyEditLists
  <2>1. /\ Settled(c.steps, FALSE, {"backfill"}, {"file", "editor"}, Stirrers)
        /\ Settled(c.steps, FALSE, {"put"}, {"backfill"}, Stirrers)
    BY <1>0, <1>7 DEF KeyEditLists
  <2>2. Delivered(c.steps, FALSE, Doers, Stirrers)
    BY <1>0, <1>7 DEF KeyEditLists
  <2> QED
    BY <1>12, <1>7, <2>1, <2>2 DEF Prepared, Changing, KeyEditing, Booting, Doing, Membering
<1>8. CASE c.noun = "group" /\ c.verb = "create" /\ c.steps = BlankList
  <2>1. Settled(c.steps, FALSE, {"post"}, {"blank"}, Stirrers) /\ Delivered(c.steps, FALSE, Doers, Stirrers)
    BY <1>0, <1>8 DEF BlankList
  <2> QED
    BY <1>12, <1>8, <2>1 DEF Prepared, Changing, KeyEditing, Booting, Doing, Membering
<1>9. CASE c.noun \notin {"acl", "group"} /\ c.verb = "create" /\ c.steps \in CreateLists \cup SecretCreateLists \cup KeyedLists
  <2>1. c.steps \in CreateLists => Delivered(c.steps, FALSE, Doers, Stirrers)
    BY <1>0 DEF CreateLists
  <2>2. c.steps \in SecretCreateLists \cup KeyedLists => Delivered(c.steps, FALSE, Doers, Stirrers)
    BY <1>0 DEF SecretCreateLists, KeyedLists
  <2> QED
    BY <1>12, <1>9, <2>1, <2>2 DEF Prepared, Changing, KeyEditing, Booting, Doing, Membering
<1>10. CASE c.noun = "group" /\ c.verb \in {"add", "remove"} /\ c.steps = MemberList
  <2>1. /\ Settled(c.steps, FALSE, {"put"}, {"change"}, Stirrers)
        /\ Settled(c.steps, FALSE, {"readback"}, {"put"}, Stirrers)
        /\ Delivered(c.steps, FALSE, {"readback"}, Stirrers)
    BY <1>0, <1>10 DEF MemberList
  <2>2. Delivered(c.steps, FALSE, Doers, Stirrers) /\ \A j \in DOMAIN c.steps : c.steps[j] # "post"
    BY <1>0, <1>10 DEF MemberList
  <2> QED
    BY <1>12, <1>10, <2>1, <2>2 DEF Prepared, Changing, KeyEditing, Booting, Doing, Membering
<1>11. CASE c.noun \notin {"acl", "group", "key"} /\ c.verb \in {"add", "remove", "set"} /\ c.steps \in ChangeLists
  <2>1. Settled(c.steps, FALSE, {"put"}, {"change"}, Stirrers) /\ Delivered(c.steps, FALSE, Doers, Stirrers)
    BY <1>0, <1>11 DEF ChangeLists
  <2> QED
    BY <1>12, <1>11, <2>1 DEF Prepared, Changing, KeyEditing, Booting, Doing, Membering
<1> QED
  BY <1>1, <1>2, <1>3, <1>4, <1>5, <1>6, <1>7, <1>8, <1>9, <1>10, <1>11 DEF OneOfKind
-----------------------------------------------------------------------------
(* One run                                                                 *)

LEMMA DeliveredAnyway ==
    ASSUME NEW left, NEW S, NEW P, NEW ok, Delivered(left, FALSE, S, P)
    PROVE  Delivered(left, ok, S, P)
  BY DEF Delivered

\* What is done does not depend on how far the run has got.
LEMMA EffectFields ==
    ASSUME NEW r, NEW s, NEW t, NEW srv,
           t.cmd = s.cmd, t.others = s.others, t.read = s.read, t.doc = s.doc, t.key = s.key
    PROVE  (Effect(r, t, srv) <=> Effect(r, s, srv)) /\ (MembersKept(t, srv) <=> MembersKept(s, srv))
<1>1. (HasChanged(t, srv) <=> HasChanged(s, srv)) /\ (HasEdited(r, t, srv) <=> HasEdited(r, s, srv))
  BY DEF HasChanged, HasEdited, Edited
<1>2. (HasItem(t, srv) <=> HasItem(s, srv)) /\ (HasObject(r, t, srv) <=> HasObject(r, s, srv))
  BY DEF HasItem, HasObject, HasKey
<1>3. Effect(r, t, srv) <=> Effect(r, s, srv)
  BY <1>1, <1>2 DEF Effect
<1> QED
  BY <1>3 DEF MembersKept

\* A run that starts has everything before it.
LEMMA StartTells ==
    ASSUME NEW r, NEW c \in CommandsOf[r], Prepared(c), NEW srv
    PROVE  Tells(r, [Idle EXCEPT !.cmd = c, !.left = c.steps, !.out = "running"], srv)
<1> DEFINE t == [Idle EXCEPT !.cmd = c, !.left = c.steps, !.out = "running"]
<1>1. /\ DOMAIN t = DOMAIN Idle /\ t.cmd = c /\ t.left = c.steps /\ t.read.val = {} /\ t.key = NoKey
  BY DEF Idle, Gone, Doc
<1> HIDE DEF t
<1>2. Suited(r, t) /\ KnownMembers(t) /\ ChangeReady(t) /\ KeyNamed(t)
  BY <1>1, SettledAnyway DEF Prepared, Suited, KnownMembers, ChangeReady, KeyNamed
<1>3. OwnKey(r, t)
  BY <1>1, SettledAnyway DEF Prepared, OwnKey
<1>4. Effective(r, t, srv) /\ MembersSeen(r, t, srv)
  BY <1>1, SettledAnyway, DeliveredAnyway DEF Prepared, Effective, MembersSeen
<1>5. Granted(t, srv)
  BY <1>1 DEF Prepared, Granted
<1>6. Tells(r, t, srv)
  BY <1>2, <1>3, <1>4, <1>5 DEF Tells
<1> QED
  BY <1>6 DEF t

\* Another run writes what is then no longer vouched for.
LEMMA OthersTell ==
    ASSUME NEW r, NEW s, Sound(s), NEW srv, NEW to, NEW more, Tells(r, s, srv), 
           \A x \in Objects : x \in more \/ to[x] = srv[x]
    PROVE  Tells(r, [s EXCEPT !.others = @ \cup more], to)
<1> DEFINE t == [s EXCEPT !.others = @ \cup more]  c == s.cmd
<1>1. DOMAIN s = DOMAIN Idle /\ MayWrite(c) \subseteq Objects
  BY DEF Sound, Shape, Accounted
<1>2. /\ DOMAIN t = DOMAIN Idle /\ t.cmd = c /\ t.left = s.left /\ t.read = s.read /\ t.doc = s.doc /\ t.key = s.key
      /\ t.others = s.others \cup more
  BY <1>1 DEF Idle
<1> HIDE DEF t
<1>3. Suited(r, t) /\ KnownMembers(t) /\ ChangeReady(t) /\ KeyNamed(t) /\ OwnKey(r, t)
  BY <1>2 DEF Tells, Suited, KnownMembers, ChangeReady, KeyNamed, OwnKey
<1>4. Doing(c) => /\ Target(c) \in Objects
                  /\ c.verb = "create" /\ c.noun = "item" => Bag(c) \in Objects
  BY <1>1 DEF Doing, MayWrite, Bag
<1>5. Doing(c) /\ Effect(r, s, srv) => Effect(r, t, to)
  <2> SUFFICES ASSUME Doing(c), Effect(r, s, srv)
               PROVE  Effect(r, t, to)
    OBVIOUS
  <2>1. HasChanged(s, srv) => HasChanged(t, to)
    BY <1>2, <1>4 DEF HasChanged
  <2>2. HasEdited(r, s, srv) => HasEdited(r, t, to)
    BY <1>2 DEF HasEdited, Edited
  <2>3. c.verb = "create" /\ c.noun = "item" /\ HasItem(s, srv) => HasItem(t, to)
    BY <1>2, <1>4 DEF HasItem
  <2>4. HasObject(r, s, srv) => HasObject(r, t, to)
    BY <1>2, <1>4 DEF HasObject, HasKey
  <2> QED
    BY <1>2, <1>4, <2>1, <2>2, <2>3, <2>4 DEF Effect
<1>6. Membering(c) => Doing(c) /\ (MembersKept(s, srv) => MembersKept(t, to))
  BY <1>2, <1>4 DEF Membering, MembersKept
<1>7. Effective(r, t, to)
  BY <1>2, <1>5 DEF Tells, Effective, Delivered
<1>8. MembersSeen(r, t, to)
  BY <1>2, <1>5, <1>6 DEF Tells, MembersSeen, Settled, Delivered
<1>9. Granted(t, to)
  BY <1>1, <1>2 DEF Tells, Granted
<1>10. Tells(r, t, to)
  BY <1>3, <1>7, <1>8, <1>9 DEF Tells
<1> QED
  BY <1>10 DEF t

\* A run that takes the first of its steps, which leaves it as u says and the server as
\* `to` says.
Furthers(r, s, srv, u, to) ==
    LET c == s.cmd  h == s.left[1] IN
    /\ u.key \in {s.key, r}
    /\ c.noun = "group" => u.read.val \subseteq Known
    /\ h \notin Stirrers => u.doc = s.doc /\ u.read = s.read /\ u.key = s.key /\ to = srv
    /\ c.noun = "group" /\ h = "blank" => u.doc.val \subseteq Known
    /\ Changing(c) /\ h = "change" => u.doc = Changed(c, u.read)
    /\ KeyEditing(c) /\ h \in {"file", "editor"} => u.doc.name \in Names \cup {None}
    /\ KeyEditing(c) /\ h = "backfill" => u.doc.name \in Names \cup {c.name}
    /\ Booting(c) /\ h = "genkey" => u.key = r
    /\ Doing(c) /\ h \in Doers => Effect(r, u, to)
    /\ Membering(c) /\ h = "readback" => MembersKept(u, to)

LEMMA TellsOn ==
    ASSUME NEW r, NEW s, NEW u, NEW srv, NEW to, Sound(s), s.out = "running", s.cmd.noun # "acl",
           Tells(r, s, srv), Same(s, u), Furthers(r, s, srv, u, to)
    PROVE  Tells(r, Next1(u), to)
<1> DEFINE t == Next1(u)  c == s.cmd  h == s.left[1]  left == s.left
<1>1. IsList(left) /\ left # <<>> /\ Ordered(c, left)
  BY DEF Sound, Shape, Ordered
<1>2. /\ t.cmd = c /\ t.left = Tail(left) /\ t.read = u.read /\ t.doc = u.doc /\ t.key = u.key /\ t.others = s.others
      /\ u.cmd = c /\ u.others = s.others
  BY Moved DEF Same
<1> HIDE DEF t
<1>3. /\ Effect(r, t, to) <=> Effect(r, u, to)
      /\ MembersKept(t, to) <=> MembersKept(u, to)
  BY <1>2, EffectFields
<1>4. h \notin Stirrers => /\ Effect(r, t, to) <=> Effect(r, s, srv)
                           /\ MembersKept(t, to) <=> MembersKept(s, srv)
  <2>1. CASE h \notin Stirrers
    <3>1. t.doc = s.doc /\ t.read = s.read /\ t.key = s.key /\ to = srv
      BY <1>2, <2>1 DEF Furthers
    <3> QED
      BY <1>2, <3>1, EffectFields
  <2> QED
    BY <2>1
<1>5. /\ Effect(r, s, srv) \in BOOLEAN /\ Effect(r, t, to) \in BOOLEAN
      /\ MembersKept(s, srv) \in BOOLEAN /\ MembersKept(t, to) \in BOOLEAN
  BY DEF Effect, MembersKept
<1>6. KnownMembers(t)
  <2> SUFFICES ASSUME c.noun = "group"
               PROVE  t.read.val \subseteq Known /\ Settled(t.left, t.doc.val \subseteq Known, {"post"}, {"blank"}, Stirrers)
    BY <1>2 DEF KnownMembers
  <2>1. t.read.val \subseteq Known
    BY <1>2 DEF Furthers
  <2>2. Settled(left, s.doc.val \subseteq Known, {"post"}, {"blank"}, Stirrers)
    BY DEF Tells, KnownMembers
  <2>3. h \in {"blank"} \/ (s.doc.val \subseteq Known /\ h \notin Stirrers) => t.doc.val \subseteq Known
    BY <1>2 DEF Furthers
  <2>4. (s.doc.val \subseteq Known) \in BOOLEAN /\ (t.doc.val \subseteq Known) \in BOOLEAN
    OBVIOUS
  <2>5. Settled(Tail(left), t.doc.val \subseteq Known, {"post"}, {"blank"}, Stirrers)
    BY <1>1, <2>2, <2>3, <2>4, TailSettled
  <2> QED
    BY <1>2, <2>1, <2>5
<1>7. ChangeReady(t)
  <2> SUFFICES ASSUME Changing(c)
               PROVE  /\ c.noun # "key" /\ (c.verb = "set" => c.noun # "group")
                      /\ Settled(t.left, t.doc = Changed(c, t.read), {"put"}, {"change"}, Stirrers)
    BY <1>2 DEF ChangeReady
  <2>1. /\ c.noun # "key" /\ (c.verb = "set" => c.noun # "group")
        /\ Settled(left, s.doc = Changed(c, s.read), {"put"}, {"change"}, Stirrers)
    BY DEF Tells, ChangeReady
  <2>2. h \in {"change"} \/ (s.doc = Changed(c, s.read) /\ h \notin Stirrers) => t.doc = Changed(c, t.read)
    BY <1>2 DEF Furthers
  <2>3. (s.doc = Changed(c, s.read)) \in BOOLEAN /\ (t.doc = Changed(c, t.read)) \in BOOLEAN
    OBVIOUS
  <2>4. Settled(Tail(left), t.doc = Changed(c, t.read), {"put"}, {"change"}, Stirrers)
    BY <1>1, <2>1, <2>2, <2>3, TailSettled
  <2> QED
    BY <1>2, <2>1, <2>4
<1>8. KeyNamed(t)
  <2> SUFFICES ASSUME KeyEditing(c)
               PROVE  /\ Settled(t.left, t.doc.name \in Names \cup {None}, {"backfill"}, {"file", "editor"}, Stirrers)
                      /\ Settled(t.left, t.doc.name \in Names \cup {c.name}, {"put"}, {"backfill"}, Stirrers)
    BY <1>2 DEF KeyNamed
  <2>1. /\ Settled(left, s.doc.name \in Names \cup {None}, {"backfill"}, {"file", "editor"}, Stirrers)
        /\ Settled(left, s.doc.name \in Names \cup {c.name}, {"put"}, {"backfill"}, Stirrers)
    BY DEF Tells, KeyNamed
  <2>2. h \in {"file", "editor"} \/ (s.doc.name \in Names \cup {None} /\ h \notin Stirrers) => t.doc.name \in Names \cup {None}
    BY <1>2 DEF Furthers
  <2>3. h \in {"backfill"} \/ (s.doc.name \in Names \cup {c.name} /\ h \notin Stirrers) => t.doc.name \in Names \cup {c.name}
    BY <1>2 DEF Furthers
  <2>4. /\ (s.doc.name \in Names \cup {None}) \in BOOLEAN /\ (t.doc.name \in Names \cup {None}) \in BOOLEAN
        /\ (s.doc.name \in Names \cup {c.name}) \in BOOLEAN /\ (t.doc.name \in Names \cup {c.name}) \in BOOLEAN
    OBVIOUS
  <2>5. Settled(Tail(left), t.doc.name \in Names \cup {None}, {"backfill"}, {"file", "editor"}, Stirrers)
    BY <1>1, <2>1, <2>2, <2>4, TailSettled
  <2>6. Settled(Tail(left), t.doc.name \in Names \cup {c.name}, {"put"}, {"backfill"}, Stirrers)
    BY <1>1, <2>1, <2>3, <2>4, TailSettled
  <2> QED
    BY <1>2, <2>5, <2>6
<1>9. OwnKey(r, t)
  <2>1. t.key \in {NoKey, r} /\ (s.key = r => t.key = r)
    BY <1>2 DEF Furthers, Tells, OwnKey
  <2>2. ASSUME Booting(c)
        PROVE  c.noun = "client" /\ Settled(t.left, t.key = r, {"post", "session"}, {"genkey"}, {})
    <3>1. c.noun = "client" /\ Settled(left, s.key = r, {"post", "session"}, {"genkey"}, {})
      BY <2>2 DEF Tells, OwnKey
    <3>2. h \in {"genkey"} \/ (s.key = r /\ h \notin {}) => t.key = r
      BY <1>2, <2>1, <2>2 DEF Furthers
    <3>3. (s.key = r) \in BOOLEAN /\ (t.key = r) \in BOOLEAN
      OBVIOUS
    <3>4. Settled(Tail(left), t.key = r, {"post", "session"}, {"genkey"}, {})
      BY <1>1, <3>1, <3>2, <3>3, TailSettled
    <3> QED
      BY <1>2, <3>1, <3>4
  <2>3. ASSUME Booting(c), t.left # <<>>
        PROVE  Delivered(t.left, FALSE, {"session"}, Steps)
    <3>1. Delivered(left, FALSE, {"session"}, Steps)
      BY <1>1, <2>3 DEF Tells, OwnKey
    <3>2. PICK k \in DOMAIN left : left[k] \in {"session"} /\ \A m \in DOMAIN left : k < m => left[m] \notin Steps
      BY <3>1 DEF Delivered
    <3>3. Len(left) # 1 /\ 2 \in DOMAIN left /\ DOMAIN left \subseteq Nat \ {0}
      BY <1>1, <1>2, <2>3, ListTail
    <3>4. left[2] \in Steps
      <4>1. left[2] \in Steps \cup Permissions /\ Fits(c, left[2])
        BY <1>1, <3>3 DEF Ordered
      <4> QED
        BY <4>1 DEF Fits
    <3>5. k # 1
      BY <3>2, <3>3, <3>4
    <3>6. k - 1 \in DOMAIN t.left /\ t.left[k - 1] = left[k]
      BY <1>1, <1>2, <3>3, <3>5, ListTail
    <3>7. \A m \in DOMAIN t.left : m + 1 \in DOMAIN left /\ t.left[m] = left[m + 1] /\ m \in Nat
      BY <1>1, <1>2, ListTail
    <3>8. \A m \in DOMAIN t.left : k - 1 < m => t.left[m] \notin Steps
      BY <3>2, <3>3, <3>7
    <3> QED
      BY <3>2, <3>6, <3>8 DEF Delivered
  <2> QED
    BY <1>2, <2>1, <2>2, <2>3 DEF OwnKey
<1>10. Effective(r, t, to)
  <2> SUFFICES ASSUME Doing(c)
               PROVE  Delivered(t.left, Effect(r, t, to), Doers, Stirrers)
    BY <1>2 DEF Effective
  <2>1. Delivered(left, Effect(r, s, srv), Doers, Stirrers)
    BY DEF Tells, Effective
  <2>2. h \in Doers \/ (Effect(r, s, srv) /\ h \notin Stirrers) => Effect(r, t, to)
    BY <1>3, <1>4 DEF Furthers
  <2> QED
    BY <1>1, <1>2, <1>5, <2>1, <2>2, TailDelivered
<1>11. MembersSeen(r, t, to)
  <2> SUFFICES ASSUME Membering(c)
               PROVE  /\ Settled(t.left, Effect(r, t, to), {"readback"}, {"put"}, Stirrers)
                      /\ Delivered(t.left, MembersKept(t, to), {"readback"}, Stirrers)
    BY <1>2 DEF MembersSeen
  <2>1. /\ Settled(left, Effect(r, s, srv), {"readback"}, {"put"}, Stirrers)
        /\ Delivered(left, MembersKept(s, srv), {"readback"}, Stirrers)
    BY DEF Tells, MembersSeen
  <2>2. h \in {"put"} \/ (Effect(r, s, srv) /\ h \notin Stirrers) => Effect(r, t, to)
    BY <1>3, <1>4 DEF Furthers, Membering, Doers
  <2>3. h \in {"readback"} \/ (MembersKept(s, srv) /\ h \notin Stirrers) => MembersKept(t, to)
    BY <1>3, <1>4 DEF Furthers
  <2>4. Settled(Tail(left), Effect(r, t, to), {"readback"}, {"put"}, Stirrers)
    BY <1>1, <1>5, <2>1, <2>2, TailSettled
  <2>5. Delivered(Tail(left), MembersKept(t, to), {"readback"}, Stirrers)
    BY <1>1, <1>5, <2>1, <2>3, TailDelivered
  <2> QED
    BY <1>2, <2>4, <2>5
<1>12. Granted(t, to)
  BY <1>2 DEF Granted
<1>13. Suited(r, t)
  <2>1. \A j \in DOMAIN t.left : j + 1 \in DOMAIN left /\ t.left[j] = left[j + 1]
    BY <1>1, <1>2, ListTail
  <2>2. Serves(c, left) /\ c \in CommandsOf[r]
    BY DEF Tells, Suited
  <2>3. Serves(c, t.left)
    BY <2>1, <2>2 DEF Serves
  <2> QED
    BY <1>2, <2>2, <2>3 DEF Suited
<1>14. Tells(r, t, to)
  BY <1>6, <1>7, <1>8, <1>9, <1>10, <1>11, <1>12, <1>13 DEF Tells
<1> QED
  BY <1>14 DEF t

\* Of a command about an ACL only its permissions are told.
LEMMA AclTells ==
    ASSUME NEW r, NEW t, NEW srv, t.cmd.noun = "acl", t.cmd \in CommandsOf[r], t.key \in {NoKey, r}, Granted(t, srv)
    PROVE  Tells(r, t, srv)
<1>1. Suited(r, t) /\ KnownMembers(t) /\ ChangeReady(t) /\ KeyNamed(t)
  BY DEF Suited, Serves, Doing, KnownMembers, ChangeReady, KeyNamed, Changing, KeyEditing
<1>2. OwnKey(r, t) /\ Effective(r, t, srv) /\ MembersSeen(r, t, srv)
  BY DEF OwnKey, Effective, MembersSeen, Booting, Doing, Membering
<1> QED
  BY <1>1, <1>2 DEF Tells

\* Nor does a step that is none of a permission's take anything from those.
LEMMA AclTellsOn ==
    ASSUME NEW r, NEW s, NEW u, NEW srv, Sound(s), s.out = "running", s.cmd.noun = "acl",
           Tells(r, s, srv), Same(s, u), u.key = s.key, u.read = s.read,
           \/ s.left[1] \in Steps \ {"readacl"}
           \/ s.left[1] \in Permissions /\ ~Changes(s.cmd, s.read[s.left[1]])
    PROVE  Tells(r, Next1(u), srv)
<1> DEFINE t == Next1(u)  left == s.left  perms == s.cmd.perms
<1>1. IsList(left) /\ left # <<>> /\ Ordered(s.cmd, left)
  BY DEF Sound, Shape, Ordered
<1>2. /\ t.cmd = s.cmd /\ t.left = Tail(left) /\ t.read = s.read /\ t.key = s.key /\ t.others = s.others
  BY Moved DEF Same
<1> HIDE DEF t
<1>3. \A k \in DOMAIN left : k = 1 \/ (k - 1 \in DOMAIN t.left /\ t.left[k - 1] = left[k])
  BY <1>1, <1>2, ListTail
<1>4. left[1] # "readacl" /\ (left[1] \in Permissions => left[1] \notin Steps)
  BY PermsAssumption DEF Permissions, Steps
<1>5. Granted(s, srv) /\ t.key \in {NoKey, r} /\ t.cmd \in CommandsOf[r]
  BY <1>2 DEF Tells, OwnKey, Suited
<1>6. ASSUME \E k \in DOMAIN left : left[k] = "readacl"
      PROVE  Tells(r, t, srv)
  <2>1. PICK k \in DOMAIN left : left[k] = "readacl"
    BY <1>6
  <2>2. k # 1
    BY <1>4, <2>1
  <2>3. \E m \in DOMAIN t.left : t.left[m] = "readacl"
    BY <1>3, <2>1, <2>2
  <2>4. \A i \in DOMAIN t.cmd.perms : t.cmd.perms[i] \in Permissions /\ <<"acl", t.cmd.scope, t.cmd.perms[i]>> \in MayWrite(t.cmd)
    BY <1>2, <1>5 DEF Granted
  <2>5. Granted(t, srv)
    BY <2>3, <2>4 DEF Granted
  <2> QED
    BY <1>2, <1>5, <2>5, AclTells
<1>7. ASSUME ~\E k \in DOMAIN left : left[k] = "readacl"
      PROVE  Tells(r, t, srv)
  <2>1. \A i \in DOMAIN perms : LET ace == <<"acl", s.cmd.scope, perms[i]>> IN
              \/ ace \in s.others
              \/ ~Changes(s.cmd, srv[ace].val)
              \/ Changes(s.cmd, s.read[perms[i]]) /\ \E k \in DOMAIN left : left[k] = perms[i]
    BY <1>5, <1>7 DEF Granted
  <2>2. ASSUME NEW i \in DOMAIN perms, Changes(s.cmd, s.read[perms[i]]), NEW k \in DOMAIN left, left[k] = perms[i]
        PROVE  \E m \in DOMAIN t.left : t.left[m] = perms[i]
    <3>1. perms[i] \in Permissions
      BY <1>5 DEF Granted
    <3>2. k # 1
      <4>1. CASE left[1] \in Permissions /\ ~Changes(s.cmd, s.read[left[1]])
        <5>1. left[1] = left[k] => Changes(s.cmd, s.read[left[1]])
          BY <2>2
        <5> QED
          BY <4>1, <5>1
      <4>2. CASE left[1] \in Steps \ {"readacl"} /\ left[1] \notin Permissions
        <5>1. left[k] \in Permissions
          BY <3>1, <2>2
        <5> QED
          BY <4>2, <5>1
      <4>3. left[1] \in Steps => left[1] \notin Permissions
        BY <1>4
      <4> QED
        BY <4>1, <4>2, <4>3
    <3> QED
      BY <1>3, <2>2, <3>2
  <2>3. \A i \in DOMAIN perms : LET ace == <<"acl", s.cmd.scope, perms[i]>> IN
              \/ ace \in s.others
              \/ ~Changes(s.cmd, srv[ace].val)
              \/ Changes(s.cmd, s.read[perms[i]]) /\ \E m \in DOMAIN t.left : t.left[m] = perms[i]
    BY <2>1, <2>2
  <2>4. \A i \in DOMAIN t.cmd.perms : t.cmd.perms[i] \in Permissions /\ <<"acl", t.cmd.scope, t.cmd.perms[i]>> \in MayWrite(t.cmd)
    BY <1>2, <1>5 DEF Granted
  <2>5. Granted(t, srv)
    BY <1>2, <2>3, <2>4 DEF Granted
  <2> QED
    BY <1>2, <1>5, <2>5, AclTells
<1>8. Tells(r, t, srv)
  BY <1>6, <1>7
<1> QED
  BY <1>8 DEF t
-----------------------------------------------------------------------------
(* A step of one run, beside the others                                    *)

\* What the last step of a run leaves as it was.
Passes(r, s, t) ==
    LET c == s.cmd  h == s.left[1] IN
    /\ t.cmd = c /\ (t.out = "ok" => Len(s.left) = 1)
    /\ h \notin Stirrers \ Doers => t.doc = s.doc /\ (t.key = s.key \/ c.noun = "key" \/ Generating(c))
    /\ h = "session" => t.key = s.key /\ host' = s.key
TrueAfter(r) ==
    /\ GroupsKnown'
    /\ \A q \in Runs \ {r} : run'[q].out = run[q].out /\ (run[q].out = "running" => Tells(q, run'[q], server'))
    /\ run'[r].out \in {"running", "ok"} => Tells(r, run'[r], server')
    /\ run[r].out = "running" /\ run'[r].out = "ok" => Passes(r, run[r], run'[r])

LEMMA BecomesTrue ==
    ASSUME IInv, Truthful, NEW r \in Runs, NEW t, Becomes(r, t), server' = server,
           t.out \in {"running", "ok"} => Tells(r, t, server) /\ (run[r].out = "running" => Passes(r, run[r], t))
    PROVE  TrueAfter(r)
<1>1. DOMAIN run = Runs /\ DOMAIN run' = Runs /\ \A q \in Runs : run'[q] = IF q = r THEN t ELSE run[q]
  BY DEF Becomes, IInv, RunsSound
<1>2. GroupsKnown'
  BY DEF Truthful, GroupsKnown
<1>3. \A q \in Runs \ {r} : run'[q].out = run[q].out /\ (run[q].out = "running" => Tells(q, run'[q], server'))
  BY <1>1 DEF Truthful
<1>4. run'[r] = t
  BY <1>1
<1> QED
  BY <1>2, <1>3, <1>4 DEF TrueAfter

LEMMA StoppedTrue ==
    ASSUME IInv, Truthful, NEW r \in Runs, NEW u, DOMAIN u = DOMAIN Idle, NEW out, out \notin {"running", "ok"},
           Becomes(r, Stopped(u, out)), server' = server
    PROVE  TrueAfter(r)
<1> DEFINE t == Stopped(u, out)
<1>1. t.out = out
  BY StoppedFields
<1> HIDE DEF t
<1>2. Becomes(r, t)
  BY DEF t
<1> QED
  BY <1>1, <1>2, BecomesTrue

LEMMA FailsTrue ==
    ASSUME IInv, Truthful, NEW r \in Runs, Fail(r) \/ Refuse(r)
    PROVE  TrueAfter(r)
<1>1. DOMAIN run[r] = DOMAIN Idle
  BY DEF IInv, RunsSound, Sound, Shape
<1> QED
  BY <1>1, StoppedTrue DEF Fail, Refuse, Local

LEMMA AppliedTrue ==
    ASSUME IInv, Truthful, NEW r \in Runs, NEW to, NEW t, Applied(r, to, t),
           \A x \in Objects : x[1] = "group" => to[x].val \subseteq Known,
           t.out \in {"running", "ok"} => Tells(r, t, to) /\ (run[r].out = "running" => Passes(r, run[r], t))
    PROVE  TrueAfter(r)
<1>1. server' = to /\ run' = [q \in Runs |-> IF q = r THEN t
        ELSE IF run[q].out = "running" THEN [run[q] EXCEPT !.others = @ \cup Touched(to)] ELSE run[q]]
  BY DEF Applied
<1>2. GroupsKnown'
  BY <1>1 DEF GroupsKnown
<1>3. ASSUME NEW q \in Runs \ {r}
      PROVE  run'[q].out = run[q].out /\ (run[q].out = "running" => Tells(q, run'[q], server'))
  <2> DEFINE v == [run[q] EXCEPT !.others = @ \cup Touched(to)]
  <2>1. Sound(run[q]) /\ DOMAIN run[q] = DOMAIN Idle
    BY DEF IInv, RunsSound, Sound, Shape
  <2>2. v.out = run[q].out
    BY <2>1 DEF Idle
  <2>3. ASSUME run[q].out = "running"
        PROVE  Tells(q, v, to)
    <3>1. \A x \in Objects : x \in Touched(to) \/ to[x] = server[x]
      BY DEF Touched
    <3>2. Tells(q, run[q], server)
      BY <2>3 DEF Truthful
    <3> QED
      BY <2>1, <3>1, <3>2, OthersTell
  <2>4. run'[q] = IF run[q].out = "running" THEN v ELSE run[q]
    BY <1>1
  <2> HIDE DEF v
  <2> QED
    BY <1>1, <2>2, <2>3, <2>4
<1>4. run'[r] = t
  BY <1>1
<1> QED
  BY <1>1, <1>2, <1>3, <1>4 DEF TrueAfter

\* What a step lets the last one pass on.
LEMMA FurthersPasses ==
    ASSUME NEW r, NEW s, NEW srv, NEW u, NEW to, s.out = "running", Same(s, u), Furthers(r, s, srv, u, to),
           s.left[1] \in Doers => u.doc = s.doc /\ (u.key = s.key \/ s.cmd.noun = "key" \/ Generating(s.cmd)),
           s.left[1] = "session" => host' = s.key
    PROVE  Passes(r, s, Next1(u))
<1>1. LET t == Next1(u) IN t.cmd = s.cmd /\ t.doc = u.doc /\ t.key = u.key /\ (t.out = "ok" => Len(s.left) = 1)
  BY Moved DEF Same
<1>2. s.left[1] = "session" => s.left[1] \notin Stirrers
  BY PermsAssumption DEF Stirrers, DocSteps, Writers, ObjectSteps, Permissions, Steps
<1>3. s.left[1] \notin Stirrers => u.doc = s.doc /\ u.key = s.key
  BY DEF Furthers
<1> QED
  BY <1>1, <1>2, <1>3 DEF Passes

\* A step that sends nothing.
LEMMA StepsTrue ==
    ASSUME IInv, Truthful, NEW r \in Runs, run[r].out = "running", run[r].cmd.noun # "acl", NEW u, Same(run[r], u),
           Furthers(r, run[r], server, u, server), run[r].left[1] \notin Doers,
           run[r].left[1] = "session" => host' = run[r].key,
           Becomes(r, Next1(u)), server' = server
    PROVE  TrueAfter(r)
<1> DEFINE s == run[r]  t == Next1(u)
<1>1. Sound(s) /\ Tells(r, s, server)
  BY DEF IInv, RunsSound, Truthful
<1>2. Tells(r, t, server)
  BY <1>1, TellsOn
<1>3. Passes(r, s, t)
  BY FurthersPasses
<1> HIDE DEF t
<1>4. Becomes(r, t)
  BY DEF t
<1> QED
  BY <1>2, <1>3, <1>4, BecomesTrue

\* A step that touches nothing a later one needs.
LEMMA PlainTrue ==
    ASSUME IInv, Truthful, NEW r \in Runs, run[r].out = "running", NEW u, Same(run[r], u),
           u.doc = run[r].doc, u.read = run[r].read, u.key = run[r].key,
           run[r].left[1] \in Steps \ {"readacl", "readback", "session"}, run[r].left[1] \notin Stirrers,
           Becomes(r, Next1(u)), server' = server
    PROVE  TrueAfter(r)
<1> DEFINE s == run[r]  t == Next1(u)
<1>1. Sound(s) /\ Tells(r, s, server)
  BY DEF IInv, RunsSound, Truthful
<1>2. s.left[1] \notin Doers /\ DocSteps \cup {"backfill", "genkey"} \subseteq Stirrers
      /\ {"blank", "change", "file", "editor"} \subseteq DocSteps
  <2>1. Doers \subseteq Stirrers
    BY PermsAssumption DEF Doers, Stirrers, DocSteps, Writers, ObjectSteps, Permissions, Steps
  <2> QED
    BY <2>1 DEF Stirrers, DocSteps
<1>3. CASE s.cmd.noun # "acl"
  <2>1. s.cmd.noun = "group" => s.read.val \subseteq Known
    BY <1>1 DEF Tells, KnownMembers
  <2>2. Furthers(r, s, server, u, server)
    BY <1>2, <2>1 DEF Furthers
  <2> QED
    BY <1>2, <1>3, <2>2, StepsTrue
<1>4. CASE s.cmd.noun = "acl"
  <2>1. Tells(r, t, server)
    BY <1>1, <1>4, AclTellsOn
  <2>2. t.cmd = s.cmd /\ t.doc = s.doc /\ t.key = s.key /\ (t.out = "ok" => Len(s.left) = 1)
    BY Moved DEF Same
  <2> HIDE DEF t
  <2>3. Passes(r, s, t)
    BY <2>2 DEF Passes
  <2>4. Becomes(r, t)
    BY DEF t
  <2> QED
    BY <2>1, <2>3, <2>4, BecomesTrue
<1> QED
  BY <1>3, <1>4

\* A request.
LEMMA WritesTrue ==
    ASSUME IInv, Truthful, NEW r \in Runs, run[r].out = "running", run[r].cmd.noun # "acl", NEW u, Same(run[r], u),
           NEW object, NEW to, Write(r, object, to, Next1(u)), Furthers(r, run[r], server, u, to),
           \A x \in Objects : x[1] = "group" => to[x].val \subseteq Known,
           run[r].left[1] \in Doers => 
              u.doc = run[r].doc /\ (u.key = run[r].key \/ run[r].cmd.noun = "key" \/ Generating(run[r].cmd)),
           run[r].left[1] # "session"
    PROVE  TrueAfter(r)
<1> DEFINE s == run[r]  v == [u EXCEPT !.wrote = @ \cup {object}]  w == [s EXCEPT !.wrote = @ \cup {object}]
<1>1. Sound(s) /\ Tells(r, s, server) /\ DOMAIN s = DOMAIN Idle /\ DOMAIN u = DOMAIN Idle
  BY DEF IInv, RunsSound, Truthful, Sound, Shape, Same
<1>2. CASE Applied(r, to, [Next1(u) EXCEPT !.wrote = @ \cup {object}])
  <2>1. /\ DOMAIN v = DOMAIN Idle /\ v.cmd = u.cmd /\ v.left = u.left /\ v.out = u.out /\ v.others = u.others
        /\ v.doc = u.doc /\ v.read = u.read /\ v.key = u.key
    BY <1>1 DEF Idle
  <2>2. Applied(r, to, Next1(v))
    BY <1>1, <1>2, WriteIsMoved
  <2> HIDE DEF v
  <2>3. Same(s, v)
    BY <2>1 DEF Same
  <2>4. (Effect(r, v, to) <=> Effect(r, u, to)) /\ (MembersKept(v, to) <=> MembersKept(u, to))
    BY <2>1, EffectFields
  <2>5. Furthers(r, s, server, v, to)
    BY <2>1, <2>4 DEF Furthers
  <2>6. Tells(r, Next1(v), to)
    BY <1>1, <2>3, <2>5, TellsOn
  <2>7. Passes(r, s, Next1(v))
    BY <2>1, <2>3, <2>5, FurthersPasses
  <2> DEFINE t == Next1(v)
  <2> HIDE DEF t
  <2>8. Tells(r, t, to) /\ Passes(r, s, t) /\ Applied(r, to, t)
    BY <2>2, <2>6, <2>7 DEF t
  <2> QED
    BY <2>8, AppliedTrue
<1>3. CASE Applied(r, to, Stopped(w, "error"))
  <2>1. DOMAIN w = DOMAIN Idle
    BY <1>1
  <2> HIDE DEF w
  <2> DEFINE t == Stopped(w, "error")
  <2>2. t.out = "error"
    BY <2>1, StoppedFields
  <2> HIDE DEF t
  <2>3. Applied(r, to, t)
    BY <1>3 DEF t
  <2> QED
    BY <2>2, <2>3, AppliedTrue
<1>4. CASE Fail(r)
  BY <1>4, FailsTrue
<1> QED
  BY <1>2, <1>3, <1>4 DEF Write
-----------------------------------------------------------------------------
(* The actions, one by one                                                 *)

LEMMA StirrersAre ==
    /\ Stirrers = DocSteps \cup {"pin", "backfill", "seal", "genkey"} \cup ObjectSteps \cup {"postbag", "upload"}
    /\ Permissions \cap Steps = {}
  BY PermsAssumption DEF Stirrers, Writers, ObjectSteps, Permissions, Steps

LEMMA StartTrue ==
    ASSUME IInv, Truthful, NEW r \in Runs, Start(r)
    PROVE  TrueAfter(r)
<1>1. PICK c \in CommandsOf[r] : run' = [run EXCEPT ![r] = [Idle EXCEPT !.cmd = c, !.left = c.steps, !.out = "running"]]
  BY DEF Start
<1> DEFINE t == [Idle EXCEPT !.cmd = c, !.left = c.steps, !.out = "running"]
<1>2. Prepared(c)
  BY CommandsAssumption, KindsAreTold, KindsArePrepared
<1>3. Tells(r, t, server)
  BY <1>2, StartTells
<1>4. Becomes(r, t) /\ server' = server /\ run[r].out # "running"
  BY <1>1 DEF Start, Becomes
<1> HIDE DEF t
<1> QED
  BY <1>3, <1>4, BecomesTrue

LEMMA TryTrue ==
    ASSUME IInv, Truthful, NEW r \in Runs, NEW step \in TrySteps \cup AskSteps, Try(r, step) \/ Ask(r, step)
    PROVE  TrueAfter(r)
<1>1. At(r, {step})
  BY DEF Try, Ask
<1>2. run[r].out = "running" /\ run[r].left[1] = step /\ Same(run[r], run[r])
  BY <1>1, AtStep
<1>3. run[r].left[1] \in Steps \ {"readacl", "readback", "session"} /\ run[r].left[1] \notin Stirrers
  BY <1>2, StirrersAre DEF TrySteps, AskSteps, DocSteps, ObjectSteps, Steps
<1>4. CASE Local(r, Next1(run[r]))
  BY <1>2, <1>3, <1>4, PlainTrue DEF Local
<1>5. CASE Fail(r) \/ Refuse(r)
  BY <1>5, FailsTrue
<1> QED
  BY <1>4, <1>5 DEF Try, Ask

LEMMA QuestionsTrue ==
    ASSUME IInv, Truthful, NEW r \in Runs, NodeSSHTargets(r) \/ BuildScript(r) \/ Compare(r) \/ ConfirmDeletePivotal(r)
    PROVE  TrueAfter(r)
<1> DEFINE s == run[r]  u == [s EXCEPT !.agreed = TRUE]
<1>1. At(r, {"hosts", "script", "compare", "ask"})
  BY DEF NodeSSHTargets, BuildScript, Compare, ConfirmDeletePivotal, At
<1>2. s.out = "running" /\ s.left[1] \in {"hosts", "script", "compare", "ask"} /\ Same(s, s) /\ DOMAIN s = DOMAIN Idle
  BY <1>1, AtStep
<1>3. s.left[1] \in Steps \ {"readacl", "readback", "session"} /\ s.left[1] \notin Stirrers
  BY <1>2, StirrersAre DEF DocSteps, ObjectSteps, Steps
<1>4. Same(s, u) /\ u.doc = s.doc /\ u.read = s.read /\ u.key = s.key
  BY <1>2 DEF Idle, Same
<1>5. \/ Local(r, Next1(s)) \/ Local(r, Next1(u)) \/ Fail(r) \/ Refuse(r)
      \/ Local(r, Stopped(s, "unchanged")) \/ Local(r, Stopped(s, "declined"))
  BY DEF NodeSSHTargets, BuildScript, Compare, ConfirmDeletePivotal
<1> HIDE DEF u
<1>6. CASE Local(r, Next1(s)) \/ Local(r, Next1(u))
  BY <1>2, <1>3, <1>4, <1>6, PlainTrue DEF Local
<1>7. CASE Local(r, Stopped(s, "unchanged")) \/ Local(r, Stopped(s, "declined"))
  BY <1>2, <1>7, StoppedTrue DEF Local
<1> QED
  BY <1>5, <1>6, <1>7, FailsTrue

\* A step that changes the document.
LEMMA DocTrue ==
    ASSUME IInv, Truthful, NEW r \in Runs, run[r].out = "running", run[r].cmd.noun # "acl", NEW u, OnlyDocs(run[r], u),
           run[r].left[1] \in DocSteps \cup {"pin", "backfill", "seal"}, Local(r, Next1(u)),
           LET c == run[r].cmd  h == run[r].left[1] IN
              /\ c.noun = "group" => u.read.val \subseteq Known /\ (h = "blank" => u.doc.val \subseteq Known)
              /\ Changing(c) /\ h = "change" => u.doc = Changed(c, u.read)
              /\ KeyEditing(c) /\ h \in {"file", "editor"} => u.doc.name \in Names \cup {None}
              /\ KeyEditing(c) /\ h = "backfill" => u.doc.name \in Names \cup {c.name}
    PROVE  TrueAfter(r)
<1> DEFINE s == run[r]
<1>1. s.left[1] \in Stirrers /\ s.left[1] \notin Doers \cup {"genkey", "readback", "session"}
  BY StirrersAre DEF DocSteps, Doers
<1>2. Same(s, u) /\ u.key = s.key
  BY DEF OnlyDocs
<1>3. Furthers(r, s, server, u, server)
  BY <1>1, <1>2 DEF Furthers
<1> QED
  BY <1>1, <1>2, <1>3, StepsTrue DEF Local

\* What was read of a group are members the server knows.
LEMMA ReadIsKnown ==
    ASSUME Truthful, NEW r \in Runs, run[r].out = "running", run[r].cmd.noun = "group"
    PROVE  run[r].read.val \subseteq Known
  BY DEF Truthful, Tells, KnownMembers

LEMMA FilesTrue ==
    ASSUME IInv, Truthful, NEW r \in Runs,
           \/ ReadFile(r) \/ ReadItemFile(r) \/ Editor(r) \/ ItemEditor(r) \/ LocateCookbook(r) \/ PackCookbook(r)
    PROVE  TrueAfter(r)
<1> DEFINE s == run[r]
<1>1. At(r, {"file", "itemfile", "editor", "itemeditor", "locate", "pack"})
  BY DEF ReadFile, ReadItemFile, Editor, ItemEditor, LocateCookbook, PackCookbook, At
<1>2. /\ s.out = "running" /\ s.left[1] \in {"file", "itemfile", "editor", "itemeditor", "locate", "pack"} /\ Sound(s)
      /\ DOMAIN s = DOMAIN Idle /\ s.left # <<>> /\ IsList(s.left) /\ Fits(s.cmd, s.left[1])
  BY <1>1, AtStep
<1>3. s.cmd.noun # "acl" /\ IsDoc(s.read)
  BY <1>2, HasDoc DEF Steps
<1>4. s.left[1] \in DocSteps
  BY <1>2 DEF DocSteps
<1>5. ASSUME NEW d, Local(r, Next1([s EXCEPT !.doc = d])),
             KeyEditing(s.cmd) /\ s.left[1] \in {"file", "editor"} => d.name \in Names \cup {None}
      PROVE  TrueAfter(r)
  <2> DEFINE u == [s EXCEPT !.doc = d]
  <2>1. OnlyDocs(s, u) /\ u.doc = d /\ u.read = s.read
    BY <1>2 DEF OnlyDocs, Same, Idle
  <2>3. Local(r, Next1(u))
    BY <1>5
  <2> HIDE DEF u
  <2> QED
    BY <1>2, <1>3, <1>4, <1>5, <2>1, <2>3, DocTrue, ReadIsKnown
<1>6. CASE ReadFile(r)
  <2>1. \A d \in FileDocs(s.cmd.noun) : d.name \in Names \cup {None}
    BY DEF FileDocs, Doc
  <2> QED
    BY <1>5, <1>6, <2>1, FailsTrue DEF ReadFile
<1>7. CASE ReadItemFile(r)
  <2>1. s.left[1] = "itemfile"
    BY <1>7, AtStep DEF ReadItemFile
  <2>2. Refuse(r) \/ \E d : Local(r, Next1([s EXCEPT !.doc = d]))
    BY <1>7 DEF ReadItemFile
  <2> QED
    BY <1>5, <2>1, <2>2, FailsTrue
<1>8. CASE Editor(r)
  <2>1. \A n, v : [s.read EXCEPT !.name = n, !.val = v].name = n
    BY <1>3 DEF IsDoc
  <2>2. Refuse(r) \/ \E n \in Names : \E v : Local(r, Next1([s EXCEPT !.doc = [s.read EXCEPT !.name = n, !.val = v]]))
    BY <1>8 DEF Editor
  <2>3. ASSUME NEW n \in Names, NEW v, Local(r, Next1([s EXCEPT !.doc = [s.read EXCEPT !.name = n, !.val = v]]))
        PROVE  TrueAfter(r)
    <3> DEFINE d == [s.read EXCEPT !.name = n, !.val = v]
    <3>1. d.name = n /\ Local(r, Next1([s EXCEPT !.doc = d]))
      BY <2>1, <2>3
    <3> HIDE DEF d
    <3> QED
      BY <1>5, <3>1
  <2> QED
    BY <2>2, <2>3, FailsTrue
<1>9. CASE ItemEditor(r) \/ LocateCookbook(r) \/ PackCookbook(r)
  <2>1. s.left[1] \in {"itemeditor", "locate", "pack"}
    <3>1. At(r, {"itemeditor", "locate", "pack"})
      BY <1>9 DEF ItemEditor, LocateCookbook, PackCookbook, At
    <3> QED
      BY <3>1, AtStep
  <2>2. Refuse(r) \/ \E d : Local(r, Next1([s EXCEPT !.doc = d]))
    BY <1>9 DEF ItemEditor, LocateCookbook, PackCookbook
  <2> QED
    BY <1>5, <2>1, <2>2, FailsTrue
<1> QED
  BY <1>6, <1>7, <1>8, <1>9

LEMMA ChangeTrue ==
    ASSUME IInv, Truthful, NEW r \in Runs, Change(r) \/ Pin(r) \/ Seal(r)
    PROVE  TrueAfter(r)
<1> DEFINE s == run[r]  c == s.cmd
<1>1. At(r, {"change", "pin", "backfill", "seal"})
  BY DEF Change, Pin, Seal, At
<1>2. /\ s.out = "running" /\ s.left[1] \in {"change", "pin", "backfill", "seal"} /\ Sound(s) /\ Head(s.left) = s.left[1]
      /\ DOMAIN s = DOMAIN Idle /\ s.left # <<>> /\ IsList(s.left) /\ Fits(s.cmd, s.left[1])
  BY <1>1, AtStep
<1>3. c.noun # "acl" /\ IsDoc(s.read) /\ IsDoc(s.doc)
  BY <1>2, HasDoc DEF Steps
<1>4. s.left[1] \in DocSteps \cup {"pin", "backfill", "seal"}
  BY <1>2 DEF DocSteps
<1>5. ASSUME NEW d, Local(r, Next1([s EXCEPT !.doc = d])),
             Changing(c) /\ s.left[1] = "change" => d = Changed(c, s.read),
             KeyEditing(c) /\ s.left[1] = "backfill" => d.name \in Names \cup {c.name}
      PROVE  TrueAfter(r)
  <2> DEFINE u == [s EXCEPT !.doc = d]
  <2>1. OnlyDocs(s, u) /\ u.doc = d /\ u.read = s.read
    BY <1>2 DEF OnlyDocs, Same, Idle
  <2>3. Local(r, Next1(u))
    BY <1>5
  <2>2. s.left[1] \notin {"blank", "file", "editor"}
    BY <1>2
  <2> HIDE DEF u
  <2> QED
    BY <1>2, <1>3, <1>4, <1>5, <2>1, <2>2, <2>3, DocTrue, ReadIsKnown
<1>6. CASE Change(r)
  <2>1. s.left[1] = "change"
    BY <1>6, AtStep DEF Change
  <2> DEFINE old == s.read.val
             new == CASE c.verb = "add" -> old \cup c.entries
                      [] c.verb = "remove" -> old \ c.entries
                      [] OTHER -> (old \ c.family) \cup c.entries
  <2>2. Local(r, Next1([s EXCEPT !.doc = [s.read EXCEPT !.val = new]]))
    BY <1>6 DEF Change
  <2>3. [s.read EXCEPT !.val = new] = Changed(c, s.read)
    BY <1>3 DEF Changed, IsDoc
  <2> QED
    BY <1>5, <2>1, <2>2, <2>3
<1>7. CASE Pin(r)
  <2>1. s.left[1] \in {"pin", "backfill"}
    BY <1>7, AtStep DEF Pin
  <2> DEFINE named == [s.doc EXCEPT !.name = c.name]
             own == s.left[1] = "pin" \/ s.doc.name = None
  <2>2. /\ own => Local(r, Next1([s EXCEPT !.doc = named]))
        /\ ~own => Local(r, Next1(s))
    <3>1. Local(r, Next1(IF own THEN [s EXCEPT !.doc.name = c.name] ELSE s))
      BY <1>2, <1>7 DEF Pin
    <3>2. [s EXCEPT !.doc.name = c.name] = [s EXCEPT !.doc = named]
      OBVIOUS
    <3> QED
      BY <3>1, <3>2
  <2>3. OnlyDocs(s, s)
    BY <1>2 DEF OnlyDocs, Same
  <2>4. named.name = c.name
    BY <1>3 DEF IsDoc
  <2>5. KeyEditing(c) /\ s.left[1] = "backfill" => s.doc.name \in Names \cup {None}
    <3> SUFFICES ASSUME KeyEditing(c), s.left[1] = "backfill"
                 PROVE  s.doc.name \in Names \cup {None}
      OBVIOUS
    <3>1. Settled(s.left, s.doc.name \in Names \cup {None}, {"backfill"}, {"file", "editor"}, Stirrers)
      BY <1>2 DEF Truthful, Tells, KeyNamed
    <3>2. (s.doc.name \in Names \cup {None}) \in BOOLEAN
      OBVIOUS
    <3> QED
      BY <1>2, <3>1, <3>2, HeadSettled
  <2>6. CASE own
    BY <1>5, <2>1, <2>2, <2>4, <2>6
  <2>7. CASE ~own
    <3>1. Local(r, Next1(s)) /\ s.left[1] = "backfill" /\ s.doc.name # None
      BY <2>1, <2>2, <2>7
    <3> QED
      BY <1>2, <1>3, <1>4, <2>3, <2>5, <3>1, DocTrue, ReadIsKnown
  <2> QED
    BY <2>6, <2>7
<1>8. CASE Seal(r)
  <2>1. s.left[1] = "seal"
    BY <1>8, AtStep DEF Seal
  <2>2. Refuse(r) \/ Local(r, Next1([s EXCEPT !.doc = [s.doc EXCEPT !.sealed = 1]]))
    BY <1>8 DEF Seal
  <2> QED
    BY <1>5, <2>1, <2>2, FailsTrue
<1> QED
  BY <1>6, <1>7, <1>8

LEMMA ReadsTrue ==
    ASSUME IInv, Truthful, NEW r \in Runs, Blank(r) \/ Get(r) \/ Unseal(r)
    PROVE  TrueAfter(r)
<1> DEFINE s == run[r]  c == s.cmd
<1>1. At(r, {"blank", "stub", "get", "unseal"})
  BY DEF Blank, Get, Unseal, At
<1>2. /\ s.out = "running" /\ s.left[1] \in {"blank", "stub", "get", "unseal"} /\ Sound(s)
      /\ DOMAIN s = DOMAIN Idle /\ s.left # <<>> /\ IsList(s.left) /\ Fits(s.cmd, s.left[1])
  BY <1>1, AtStep
<1>3. c.noun # "acl"
  BY <1>2, HasDoc DEF Steps
<1>4. s.left[1] \in DocSteps
  BY <1>2 DEF DocSteps
<1>5. ASSUME NEW d, Local(r, Next1([s EXCEPT !.read = d, !.doc = d])), c.noun = "group" => d.val \subseteq Known
      PROVE  TrueAfter(r)
  <2> DEFINE u == [s EXCEPT !.read = d, !.doc = d]
  <2>1. OnlyDocs(s, u) /\ u.doc = d /\ u.read = d
    BY <1>2 DEF OnlyDocs, Same, Idle
  <2>2. s.left[1] \notin {"change", "backfill", "file", "editor"}
    BY <1>2
  <2>3. Local(r, Next1(u))
    BY <1>5
  <2> HIDE DEF u
  <2> QED
    BY <1>2, <1>3, <1>4, <1>5, <2>1, <2>2, <2>3, DocTrue
<1>6. CASE Blank(r)
  <2> DEFINE d == Doc(c.name, {})
  <2>1. [s EXCEPT !.doc = d, !.read = d] = [s EXCEPT !.read = d, !.doc = d]
    BY <1>2 DEF Idle
  <2>2. d.val = {}
    BY DEF Doc
  <2>3. Local(r, Next1([s EXCEPT !.doc = d, !.read = d]))
    BY <1>6 DEF Blank
  <2> QED
    BY <1>5, <2>1, <2>2, <2>3
<1>7. ASSUME s.left[1] \in {"get", "unseal"}
      PROVE  Aimed(r) \in Objects /\ IsDoc(server[Aimed(r)]) /\ (c.noun = "group" => server[Aimed(r)].val \subseteq Known)
  <2>1. Aimed(r) \in Objects /\ Aimed(r)[1] = c.noun
    BY <1>2, <1>7 DEF Fits, Aimed, Target
  <2>2. Kept(Aimed(r), server[Aimed(r)])
    BY <2>1 DEF IInv, ServerSound
  <2> QED
    BY <2>1, <2>2 DEF Truthful, GroupsKnown, Kept
<1>8. CASE Get(r)
  <2>1. s.left[1] = "get"
    BY <1>8, AtStep DEF Get
  <2> QED
    BY <1>5, <1>7, <1>8, <2>1, FailsTrue DEF Get
<1>9. CASE Unseal(r)
  <2>1. s.left[1] = "unseal"
    BY <1>9, AtStep DEF Unseal
  <2> DEFINE plain == [server[Aimed(r)] EXCEPT !.sealed = 0]
  <2>2. plain.val = server[Aimed(r)].val
    BY <1>7, <2>1 DEF IsDoc
  <2>3. Fail(r) \/ Local(r, Next1([s EXCEPT !.read = plain, !.doc = plain]))
    BY <1>9 DEF Unseal
  <2> QED
    BY <1>5, <1>7, <2>1, <2>2, <2>3, FailsTrue
<1> QED
  BY <1>6, <1>8, <1>9

\* Keys, and the machine.
LEMMA KeysTrue ==
    ASSUME IInv, Truthful, NEW r \in Runs,
           GenerateKeyPair(r) \/ OpenKeyFile(r) \/ ChmodKeyFile(r) \/ WriteKeyFile(r) \/ Bootstrap(r)
    PROVE  TrueAfter(r)
<1> DEFINE s == run[r]  c == s.cmd
<1>1. At(r, {"genkey", "openkey", "chmodkey", "writekey", "session"})
  BY DEF GenerateKeyPair, OpenKeyFile, ChmodKeyFile, WriteKeyFile, Bootstrap, At
<1>2. /\ s.out = "running" /\ s.left[1] \in {"genkey", "openkey", "chmodkey", "writekey", "session"} /\ Sound(s) /\ Same(s, s)
      /\ DOMAIN s = DOMAIN Idle /\ s.left # <<>> /\ IsList(s.left) /\ Fits(c, s.left[1])
  BY <1>1, AtStep
<1>3. c.noun # "acl"
  BY <1>2, HasDoc DEF Steps
<1>4. /\ s.left[1] \notin Doers /\ {"blank", "change", "file", "editor"} \subseteq DocSteps
      /\ s.left[1] \notin DocSteps \cup {"backfill", "readback"}
      /\ s.left[1] \in Stirrers => s.left[1] = "genkey"
  BY <1>2, StirrersAre DEF Doers, DocSteps, ObjectSteps
<1>5. CASE GenerateKeyPair(r)
  <2> DEFINE u == [s EXCEPT !.key = r]
  <2>1. s.left[1] = "genkey"
    BY <1>5, AtStep DEF GenerateKeyPair
  <2>2. Same(s, u) /\ u.doc = s.doc /\ u.read = s.read /\ u.key = r
    BY <1>2 DEF Idle, Same
  <2>3. Local(r, Next1(u))
    BY <1>5 DEF GenerateKeyPair
  <2> HIDE DEF u
  <2>4. "genkey" \in Stirrers
    BY DEF Stirrers
  <2>5. Furthers(r, s, server, u, server)
    BY <1>2, <1>4, <2>1, <2>2, <2>4, ReadIsKnown DEF Furthers
  <2> QED
    BY <1>2, <1>3, <1>4, <2>1, <2>2, <2>3, <2>5, StepsTrue DEF Local
<1>6. ASSUME NEW u, Becomes(r, Next1(u)), Same(s, u), u.doc = s.doc, u.read = s.read, u.key = s.key, server' = server,
             s.left[1] # "genkey", s.left[1] = "session" => host' = s.key
      PROVE  TrueAfter(r)
  <2>1. Furthers(r, s, server, u, server)
    BY <1>2, <1>4, <1>6, ReadIsKnown DEF Furthers
  <2> QED
    BY <1>2, <1>3, <1>4, <1>6, <2>1, StepsTrue
<1>7. CASE OpenKeyFile(r) \/ ChmodKeyFile(r) \/ WriteKeyFile(r)
  <2> DEFINE u == [s EXCEPT !.shown = s.key]
  <2>1. s.left[1] \notin {"genkey", "session"}
    <3>1. At(r, {"openkey", "chmodkey", "writekey"})
      BY <1>7 DEF OpenKeyFile, ChmodKeyFile, WriteKeyFile, At
    <3> QED
      BY <3>1, AtStep
  <2>2. Same(s, u) /\ u.doc = s.doc /\ u.read = s.read /\ u.key = s.key
    BY <1>2 DEF Idle, Same
  <2>3. Fail(r) \/ (server' = server /\ (Becomes(r, Next1(s)) \/ Becomes(r, Next1(u))))
    BY <1>7 DEF OpenKeyFile, ChmodKeyFile, WriteKeyFile
  <2> HIDE DEF u
  <2> QED
    BY <1>2, <1>6, <2>1, <2>2, <2>3, FailsTrue
<1>8. CASE Bootstrap(r)
  <2> DEFINE u == [s EXCEPT !.shown = s.key]  w == [s EXCEPT !.told = @ \cup {Aimed(r)}]
  <2>1. s.left[1] = "session"
    BY <1>8, AtStep DEF Bootstrap
  <2>2. Same(s, u) /\ u.doc = s.doc /\ u.read = s.read /\ u.key = s.key /\ DOMAIN w = DOMAIN Idle
    BY <1>2 DEF Idle, Same
  <2>3. server' = server /\ \/ host' = s.key /\ Becomes(r, Next1(u))
                            \/ Becomes(r, Stopped(w, "error"))
    BY <1>8 DEF Bootstrap
  <2> HIDE DEF u, w
  <2>4. CASE host' = s.key /\ Becomes(r, Next1(u))
    BY <1>6, <2>1, <2>2, <2>3, <2>4
  <2>5. CASE Becomes(r, Stopped(w, "error"))
    BY <2>2, <2>3, <2>5, StoppedTrue
  <2> QED
    BY <2>3, <2>4, <2>5
<1> QED
  BY <1>5, <1>7, <1>8

\* A list that goes on where the last step was.
LEMMA RelistTells ==
    ASSUME NEW r, NEW s, NEW srv, Tells(r, s, srv), s.cmd.noun # "acl", NEW h, h \notin Stirrers \cup {"readback", "session"},
           s.left = <<h>>, NEW list, \A j \in DOMAIN list : list[j] \notin Stirrers \cup {"readback"},
           NEW t, t.cmd = s.cmd, t.left = list, t.read = s.read, t.doc = s.doc, t.key = s.key, t.others = s.others
    PROVE  Tells(r, t, srv)
<1> DEFINE c == s.cmd
<1>1. DOMAIN s.left = {1} /\ s.left[1] = h /\ s.left # <<>>
  OBVIOUS
<1>2. {"post", "put", "erase", "newkey", "backfill"} \subseteq Stirrers /\ Doers \subseteq Stirrers
  BY StirrersAre DEF ObjectSteps, Doers
<1>3. ~Booting(c)
  BY <1>1 DEF Tells, OwnKey, Delivered
<1>4. Suited(r, t)
  BY <1>2 DEF Tells, Suited, Serves
<1>5. \A ok, step, S, P : step \in Stirrers => Settled(t.left, ok, {step}, S, P)
  BY DEF Settled
<1>11. KnownMembers(t) /\ ChangeReady(t) /\ KeyNamed(t) /\ OwnKey(r, t)
  <2>1. KnownMembers(t)
    BY <1>2, <1>5 DEF Tells, KnownMembers
  <2>2. ChangeReady(t)
    BY <1>2, <1>5 DEF Tells, ChangeReady
  <2>3. KeyNamed(t)
    BY <1>2, <1>5 DEF Tells, KeyNamed
  <2>4. OwnKey(r, t)
    BY <1>3 DEF Tells, OwnKey
  <2> QED
    BY <2>1, <2>2, <2>3, <2>4
<1>6. Effect(r, t, srv) = Effect(r, s, srv) /\ MembersKept(t, srv) = MembersKept(s, srv)
  <2>1. (Effect(r, t, srv) <=> Effect(r, s, srv)) /\ (MembersKept(t, srv) <=> MembersKept(s, srv))
    BY EffectFields
  <2>2. /\ Effect(r, s, srv) \in BOOLEAN /\ Effect(r, t, srv) \in BOOLEAN
        /\ MembersKept(s, srv) \in BOOLEAN /\ MembersKept(t, srv) \in BOOLEAN
    BY DEF Effect, MembersKept
  <2> QED
    BY <2>1, <2>2
<1>7. Doing(c) => Effect(r, s, srv)
  BY <1>1, <1>2 DEF Tells, Effective, Delivered
<1>8. Membering(c) => MembersKept(s, srv)
  BY <1>1 DEF Tells, MembersSeen, Delivered
<1>9. Effective(r, t, srv) /\ MembersSeen(r, t, srv)
  BY <1>6, <1>7, <1>8 DEF Effective, MembersSeen, Delivered, Settled
<1>10. Granted(t, srv)
  BY DEF Granted
<1> QED
  BY <1>4, <1>9, <1>10, <1>11 DEF Tells

\* A list of one step.
LEMMA OnlyStep ==
    ASSUME NEW c, NEW left, Ordered(c, left), left # <<>>, left[1] \in {"emit", "listorgs", "readacl"}
    PROVE  left = <<left[1]>>
<1>1. PICK n \in Nat : DOMAIN left = 1..n /\ left = [i \in 1..n |-> left[i]]
  BY DEF Ordered, IsList
<1>2. n # 0
  BY <1>1
<1>3. n = 1
  <2> SUFFICES ASSUME n # 1
               PROVE  FALSE
    OBVIOUS
  <2>1. 1 \in DOMAIN left /\ 2 \in DOMAIN left /\ 1 < 2
    BY <1>1, <1>2
  <2> QED
    BY <2>1 DEF Ordered
<1> QED
  BY <1>1, <1>3

LEMMA ListOrgsTrue ==
    ASSUME IInv, Truthful, NEW r \in Runs, ListOrgs(r)
    PROVE  TrueAfter(r)
<1> DEFINE s == run[r]  list == <<"memberorgs">>  t == [s EXCEPT !.left = list]
<1>1. At(r, {"listorgs"})
  BY DEF ListOrgs
<1>2. /\ s.out = "running" /\ s.left[1] = "listorgs" /\ Sound(s) /\ Same(s, s)
      /\ DOMAIN s = DOMAIN Idle /\ s.left # <<>> /\ IsList(s.left) /\ Fits(s.cmd, s.left[1]) /\ 1 \in DOMAIN s.left
  BY <1>1, AtStep
<1>3. s.left[1] \notin Stirrers /\ s.left[1] \in Steps \ {"readacl", "readback", "session"} /\ "memberorgs" \notin Stirrers
  BY <1>2, StirrersAre DEF DocSteps, ObjectSteps, Steps
<1>4. CASE Local(r, Next1(s))
  BY <1>2, <1>3, <1>4, PlainTrue DEF Local
<1>5. CASE Local(r, t)
  <2>1. s.left = <<"listorgs">>
    BY <1>2, OnlyStep DEF Sound
  <2>2. /\ DOMAIN t = DOMAIN Idle /\ t.cmd = s.cmd /\ t.left = list /\ t.out = s.out
        /\ t.read = s.read /\ t.doc = s.doc /\ t.key = s.key /\ t.others = s.others
    BY <1>2, Relisted
  <2>3. Local(r, t)
    BY <1>5
  <2> HIDE DEF t
  <2>4. \A j \in DOMAIN list : list[j] \notin Stirrers \cup {"readback"}
    BY <1>3
  <2>5. s.cmd.noun # "acl"
    BY <1>2, HasDoc DEF Steps
  <2>6. Tells(r, t, server)
    BY <1>2, <1>3, <2>1, <2>2, <2>4, <2>5, RelistTells DEF Truthful
  <2>7. t.out # "ok" /\ Passes(r, s, t)
    BY <1>2, <1>3, <2>2 DEF Passes
  <2> QED
    BY <2>3, <2>6, <2>7, BecomesTrue DEF Local
<1> QED
  BY <1>4, <1>5, FailsTrue DEF ListOrgs

LEMMA EmitTrue ==
    ASSUME IInv, Truthful, NEW r \in Runs, EmitPrivateKey(r)
    PROVE  TrueAfter(r)
<1> DEFINE s == run[r]  list == <<"openkey", "chmodkey", "writekey">>
           t == [s EXCEPT !.left = list]  u == [s EXCEPT !.shown = s.key]
<1>1. At(r, {"emit"})
  BY DEF EmitPrivateKey
<1>2. /\ s.out = "running" /\ s.left[1] = "emit" /\ Sound(s) /\ Same(s, s)
      /\ DOMAIN s = DOMAIN Idle /\ s.left # <<>> /\ IsList(s.left) /\ Fits(s.cmd, s.left[1]) /\ 1 \in DOMAIN s.left
  BY <1>1, AtStep
<1>3. s.left[1] \notin Stirrers /\ s.left[1] \in Steps \ {"readacl", "readback", "session"}
  BY <1>2, StirrersAre DEF DocSteps, ObjectSteps, Steps
<1>4. Same(s, u) /\ u.doc = s.doc /\ u.read = s.read /\ u.key = s.key
  BY <1>2 DEF Idle, Same
<1>5. Local(r, Next1(s)) \/ Local(r, t) \/ Local(r, Next1(u)) \/ Fail(r)
  BY DEF EmitPrivateKey
<1> HIDE DEF u
<1>6. CASE Local(r, Next1(s)) \/ Local(r, Next1(u))
  BY <1>2, <1>3, <1>4, <1>6, PlainTrue DEF Local
<1>7. CASE Local(r, t)
  <2>1. s.left = <<"emit">>
    BY <1>2, OnlyStep DEF Sound
  <2>2. /\ DOMAIN t = DOMAIN Idle /\ t.cmd = s.cmd /\ t.left = list /\ t.out = s.out
        /\ t.read = s.read /\ t.doc = s.doc /\ t.key = s.key /\ t.others = s.others
    BY <1>2, Relisted
  <2>3. Local(r, t)
    BY <1>7
  <2> HIDE DEF t
  <2>4. \A j \in DOMAIN list : list[j] \notin Stirrers \cup {"readback"}
    BY StirrersAre DEF DocSteps, ObjectSteps
  <2>5. s.cmd.noun # "acl"
    BY <1>2, HasDoc DEF Steps
  <2>6. Tells(r, t, server)
    BY <1>2, <1>3, <2>1, <2>2, <2>4, <2>5, RelistTells DEF Truthful
  <2>7. Passes(r, s, t)
    BY <1>2, <1>3, <2>2 DEF Passes
  <2> QED
    BY <2>3, <2>6, <2>7, BecomesTrue DEF Local
<1> QED
  BY <1>5, <1>6, <1>7, FailsTrue

\* What was read back is what was sent.
LEMMA ReadBackTrue ==
    ASSUME IInv, Truthful, NEW r \in Runs, ReadBack(r)
    PROVE  TrueAfter(r)
<1> DEFINE s == run[r]  c == s.cmd  val == server[Target(c)].val
           asked == IF c.verb = "add" THEN c.entries \ s.read.val ELSE c.entries \cap s.read.val
           dropped == IF c.verb = "add" THEN asked \ val ELSE asked \cap val
<1>1. At(r, {"readback"})
  BY DEF ReadBack
<1>2. /\ s.out = "running" /\ s.left[1] = "readback" /\ Sound(s) /\ Same(s, s)
      /\ DOMAIN s = DOMAIN Idle /\ s.left # <<>> /\ IsList(s.left) /\ Fits(s.cmd, s.left[1])
  BY <1>1, AtStep
<1>3. c.noun # "acl"
  BY <1>2, HasDoc DEF Steps
<1>4. s.left[1] \notin Stirrers /\ s.left[1] \notin Doers \cup {"blank", "change", "file", "editor", "backfill", "genkey"}
  BY <1>2, StirrersAre DEF DocSteps, ObjectSteps, Doers
<1>5. \/ Local(r, Next1(s)) /\ dropped = {}
      \/ Local(r, Stopped(s, "error"))
      \/ Fail(r)
  BY DEF ReadBack, Aimed
<1>6. CASE Local(r, Next1(s)) /\ dropped = {}
  <2>1. ASSUME Membering(c)
        PROVE  MembersKept(s, server)
    <3>1. Settled(s.left, Effect(r, s, server), {"readback"}, {"put"}, Stirrers)
      BY <1>2, <2>1 DEF Truthful, Tells, MembersSeen
    <3>2. Effect(r, s, server) \in BOOLEAN
      BY DEF Effect
    <3>3. Effect(r, s, server)
      BY <1>2, <3>1, <3>2, HeadSettled
    <3>4. HasChanged(s, server) /\ c.noun = "group" /\ c.verb \in {"add", "remove"}
      BY <2>1, <3>3 DEF Effect, Membering
    <3>5. Target(c) \in s.others \/ val = Changed(c, s.read).val \cap Known
      BY <3>4 DEF HasChanged
    <3>6. Changed(c, s.read).val = IF c.verb = "add" THEN s.read.val \cup c.entries ELSE s.read.val \ c.entries
      <4>1. IsDoc(s.read)
        BY <1>2, <1>3 DEF Sound, Shape
      <4> QED
        BY <3>4, <4>1 DEF Changed, IsDoc
    <3>7. s.read.val \subseteq Known
      BY <1>2, <3>4, ReadIsKnown
    <3> QED
      BY <1>6, <3>4, <3>5, <3>6, <3>7 DEF MembersKept
  <2>2. Furthers(r, s, server, s, server)
    BY <1>2, <1>4, <2>1, ReadIsKnown DEF Furthers
  <2> QED
    BY <1>2, <1>3, <1>4, <1>6, <2>2, StepsTrue DEF Local
<1>7. CASE Local(r, Stopped(s, "error"))
  BY <1>2, <1>7, StoppedTrue DEF Local
<1> QED
  BY <1>5, <1>6, <1>7, FailsTrue
-----------------------------------------------------------------------------
(* Permissions                                                             *)

LEMMA ReadAclTrue ==
    ASSUME IInv, Truthful, NEW r \in Runs, ReadAcl(r)
    PROVE  TrueAfter(r)
<1> DEFINE s == run[r]  c == s.cmd  acl == [p \in Range(c.perms) |-> server[Ace(r, p)].val]
           t == [s EXCEPT !.read = acl, !.left = c.perms]
<1>1. At(r, {"readacl"})
  BY DEF ReadAcl
<1>2. /\ s.out = "running" /\ s.left[1] = "readacl" /\ Sound(s) /\ Tells(r, s, server)
      /\ DOMAIN s = DOMAIN Idle /\ s.left # <<>> /\ IsList(s.left) /\ Fits(c, s.left[1])
  BY <1>1, AtStep DEF Truthful
<1>3. c.noun = "acl"
  BY <1>2 DEF Fits
<1>4. Local(r, Stopped(s, "unchanged")) \/ Local(r, t) \/ Fail(r)
  BY DEF ReadAcl
<1>5. CASE Local(r, t)
  <2>1. /\ t.cmd = c /\ t.left = c.perms /\ t.read = acl /\ t.doc = s.doc /\ t.key = s.key /\ t.others = s.others /\ t.out = s.out
    BY <1>2 DEF Idle
  <2>2. Local(r, t)
    BY <1>5
  <2>3. \A i \in DOMAIN c.perms : acl[c.perms[i]] = server[<<"acl", c.scope, c.perms[i]>>].val
    BY DEF Ace, Range
  <2> HIDE DEF t, acl
  <2>4. \A i \in DOMAIN c.perms : c.perms[i] \in Permissions /\ <<"acl", c.scope, c.perms[i]>> \in MayWrite(c)
    BY <1>2, <1>3 DEF Tells, Granted
  <2>5. Granted(t, server)
    BY <2>1, <2>3, <2>4 DEF Granted
  <2>6. Tells(r, t, server)
    BY <1>2, <1>3, <2>1, <2>5, AclTells DEF Tells, OwnKey, Suited
  <2>7. Passes(r, s, t)
    BY <1>2, <2>1 DEF Passes
  <2> QED
    BY <2>2, <2>6, <2>7, BecomesTrue DEF Local
<1>6. CASE Local(r, Stopped(s, "unchanged"))
  BY <1>2, <1>6, StoppedTrue DEF Local
<1> QED
  BY <1>4, <1>5, <1>6, FailsTrue

\* A permission is written.
LEMMA AceTells ==
    ASSUME NEW r, NEW s, NEW srv, Sound(s), s.out = "running", s.cmd.noun = "acl", Tells(r, s, srv),
           s.left[1] \in Permissions,
           NEW to, LET ace == <<"acl", s.cmd.scope, s.left[1]>> IN
              /\ to[ace].val = NewAce(s.cmd, s.read[s.left[1]])
              /\ \A x \in Objects \ {ace} : to[x] = srv[x],
           NEW v, Same(s, v), v.key = s.key, v.read = s.read
    PROVE  Tells(r, Next1(v), to)
<1> DEFINE t == Next1(v)  left == s.left  c == s.cmd
<1>1. IsList(left) /\ left # <<>> /\ Ordered(c, left) /\ MayWrite(c) \subseteq Objects
  BY DEF Sound, Shape, Ordered, Accounted
<1>2. /\ t.cmd = c /\ t.left = Tail(left) /\ t.read = s.read /\ t.key = s.key /\ t.others = s.others
  BY Moved DEF Same
<1> HIDE DEF t
<1>3. \A k \in DOMAIN left : k = 1 \/ (k - 1 \in DOMAIN t.left /\ t.left[k - 1] = left[k])
  BY <1>1, <1>2, ListTail
<1>4. Granted(s, srv) /\ t.key \in {NoKey, r} /\ t.cmd \in CommandsOf[r]
  BY <1>2 DEF Tells, OwnKey, Suited
<1>5. \A i \in DOMAIN c.perms : c.perms[i] \in Permissions /\ <<"acl", c.scope, c.perms[i]>> \in MayWrite(c)
  BY <1>4 DEF Granted
<1>6. ASSUME NEW i \in DOMAIN c.perms, ~\E k \in DOMAIN left : left[k] = "readacl"
      PROVE  LET ace == <<"acl", c.scope, c.perms[i]>> IN
              \/ ace \in s.others
              \/ ~Changes(c, to[ace].val)
              \/ Changes(c, s.read[c.perms[i]]) /\ \E m \in DOMAIN t.left : t.left[m] = c.perms[i]
  <2> DEFINE ace == <<"acl", c.scope, c.perms[i]>>
  <2>1. \/ ace \in s.others
        \/ ~Changes(c, srv[ace].val)
        \/ Changes(c, s.read[c.perms[i]]) /\ \E k \in DOMAIN left : left[k] = c.perms[i]
    BY <1>4, <1>6 DEF Granted
  <2>2. CASE c.perms[i] = left[1]
    <3>1. to[ace].val = NewAce(c, s.read[left[1]])
      BY <2>2
    <3>2. ~Changes(c, to[ace].val)
      BY <3>1 DEF NewAce, Changes
    <3> QED
      BY <3>2
  <2>3. CASE c.perms[i] # left[1]
    <3>1. to[ace] = srv[ace]
      BY <1>1, <1>5, <2>3
    <3>2. \A k \in DOMAIN left : left[k] = c.perms[i] => \E m \in DOMAIN t.left : t.left[m] = c.perms[i]
      BY <1>3, <2>3
    <3> QED
      BY <2>1, <3>1, <3>2
  <2> QED
    BY <2>2, <2>3
<1>7. (\E k \in DOMAIN left : left[k] = "readacl") => \E k \in DOMAIN t.left : t.left[k] = "readacl"
  <2>1. left[1] # "readacl"
    BY StirrersAre DEF Steps
  <2> QED
    BY <1>3, <2>1
<1>8. Granted(t, to)
  <2>1. \A i \in DOMAIN t.cmd.perms : t.cmd.perms[i] \in Permissions /\ <<"acl", t.cmd.scope, t.cmd.perms[i]>> \in MayWrite(t.cmd)
    BY <1>2, <1>5
  <2>2. CASE \E k \in DOMAIN left : left[k] = "readacl"
    BY <1>7, <2>1, <2>2 DEF Granted
  <2>3. CASE ~\E k \in DOMAIN left : left[k] = "readacl"
    BY <1>2, <1>6, <2>1, <2>3 DEF Granted
  <2> QED
    BY <2>2, <2>3
<1>9. Tells(r, t, to)
  BY <1>2, <1>4, <1>8, AclTells
<1> QED
  BY <1>9 DEF t

LEMMA PutAceTrue ==
    ASSUME IInv, Truthful, NEW r \in Runs, PutAce(r)
    PROVE  TrueAfter(r)
<1> DEFINE s == run[r]  c == s.cmd  perm == Head(s.left)  ace == Ace(r, perm)  members == s.read[perm]
           to == [server EXCEPT ![ace].val = NewAce(c, members)]
           u == [s EXCEPT !.told = @ \cup {ace}]
<1>1. At(r, Permissions)
  BY DEF PutAce, Permissions
<1>2. /\ s.out = "running" /\ s.left[1] \in Permissions /\ Sound(s) /\ Same(s, s) /\ Tells(r, s, server) /\ Head(s.left) = s.left[1]
      /\ DOMAIN s = DOMAIN Idle /\ s.left # <<>> /\ IsList(s.left) /\ Fits(c, s.left[1])
  BY <1>1, AtStep DEF Truthful
<1>3. c.noun = "acl" /\ ace = <<"acl", c.scope, s.left[1]>> /\ ace \in Objects
  BY <1>2 DEF Fits, Ace, Sound, Accounted
<1>4. \/ Changes(c, members) /\ Write(r, ace, to, Next1(u))
      \/ ~Changes(c, members) /\ Local(r, Next1(s))
  BY DEF PutAce
<1>5. s.left[1] \notin Steps /\ s.left[1] \notin Stirrers \cup {"session"}
  BY <1>2, StirrersAre DEF DocSteps, ObjectSteps, Steps
<1>6. ASSUME NEW t, t.cmd = c, t.doc = s.doc, t.key = s.key, t.out = "ok" => Len(s.left) = 1
      PROVE  Passes(r, s, t)
  BY <1>5, <1>6 DEF Passes
<1>7. CASE ~Changes(c, members) /\ Local(r, Next1(s))
  <2> DEFINE t == Next1(s)
  <2>1. t.cmd = c /\ t.doc = s.doc /\ t.key = s.key /\ (t.out = "ok" => Len(s.left) = 1)
    BY <1>2, Moved
  <2>2. Tells(r, t, server)
    BY <1>2, <1>3, <1>7, AclTellsOn
  <2>3. Local(r, t)
    BY <1>7
  <2> HIDE DEF t
  <2> QED
    BY <1>6, <2>1, <2>2, <2>3, BecomesTrue DEF Local
<1>8. CASE Write(r, ace, to, Next1(u)) /\ Changes(c, members)
  <2> DEFINE v == [u EXCEPT !.wrote = @ \cup {ace}]  w == [s EXCEPT !.wrote = @ \cup {ace}]
  <2>1. Same(s, u) /\ u.doc = s.doc /\ u.read = s.read /\ u.key = s.key
    BY <1>2 DEF Same, Idle
  <2>2. Same(s, v) /\ v.doc = s.doc /\ v.read = s.read /\ v.key = s.key
    BY <1>2 DEF Same, Idle
  <2>3. DOMAIN w = DOMAIN Idle
    BY <1>2
  <2>4. to[ace].val = NewAce(c, s.read[s.left[1]]) /\ \A x \in Objects \ {ace} : to[x] = server[x]
    <3>1. DOMAIN server = Objects /\ IsDoc(server[ace])
      BY <1>3 DEF IInv, ServerSound, Kept
    <3> QED
      BY <1>2, <1>3, <3>1 DEF IsDoc
  <2>5. \A x \in Objects : x[1] = "group" => to[x].val \subseteq Known
    BY <1>3, <2>4 DEF Truthful, GroupsKnown
  <2>6. [Next1(u) EXCEPT !.wrote = @ \cup {ace}] = Next1(v)
    <3>1. DOMAIN u = DOMAIN Idle
      BY <2>1 DEF Same
    <3> HIDE DEF u
    <3> QED
      BY <3>1, WriteIsMoved
  <2> HIDE DEF u, v, w, to, ace
  <2>7. Tells(r, Next1(v), to)
    BY <1>2, <1>3, <2>2, <2>4, AceTells
  <2>8. CASE Applied(r, to, [Next1(u) EXCEPT !.wrote = @ \cup {ace}])
    <3> DEFINE t == Next1(v)
    <3>1. t.cmd = c /\ t.doc = s.doc /\ t.key = s.key /\ (t.out = "ok" => Len(s.left) = 1)
      BY <1>2, <2>2, Moved DEF Same
    <3>2. Applied(r, to, t) /\ Tells(r, t, to)
      BY <2>6, <2>7, <2>8
    <3> HIDE DEF t
    <3> QED
      BY <1>6, <2>5, <3>1, <3>2, AppliedTrue
  <2>9. CASE Applied(r, to, Stopped(w, "error"))
    <3> DEFINE t == Stopped(w, "error")
    <3>1. t.out = "error"
      BY <2>3, StoppedFields
    <3>2. Applied(r, to, t)
      BY <2>9
    <3> HIDE DEF t
    <3> QED
      BY <2>5, <3>1, <3>2, AppliedTrue
  <2>10. CASE Fail(r)
    BY <2>10, FailsTrue
  <2>11. \/ Applied(r, to, [Next1(u) EXCEPT !.wrote = @ \cup {ace}])
         \/ Applied(r, to, Stopped(w, "error"))
         \/ Fail(r)
    BY <1>8 DEF Write, w
  <2> QED
    BY <2>8, <2>9, <2>10, <2>11
<1> QED
  BY <1>4, <1>7, <1>8
-----------------------------------------------------------------------------
(* Requests                                                                *)

\* A request to what only one kind of step does.
LEMMA DoesTrue ==
    ASSUME IInv, Truthful, NEW r \in Runs, run[r].out = "running", run[r].cmd.noun # "acl", run[r].left[1] \in Stirrers,
           run[r].left[1] \notin DocSteps \cup {"backfill", "genkey", "session", "readback"},
           NEW u, Rekeyed(run[r], u) \/ (Same(run[r], u) /\ u.doc = run[r].doc /\ u.read = run[r].read),
           u.key \in {run[r].key, r}, u.key = run[r].key \/ run[r].cmd.noun = "key" \/ Generating(run[r].cmd),
           NEW object, NEW to, Write(r, object, to, Next1(u)),
           \A x \in Objects : x[1] = "group" => to[x].val \subseteq Known,
           Doing(run[r].cmd) /\ run[r].left[1] \in Doers => Effect(r, u, to)
    PROVE  TrueAfter(r)
<1> DEFINE s == run[r]
<1>1. Same(s, u) /\ u.doc = s.doc /\ u.read = s.read
  BY DEF Rekeyed
<1>2. {"blank", "change", "file", "editor"} \subseteq DocSteps
  BY DEF DocSteps
<1>3. Furthers(r, s, server, u, to)
  BY <1>1, <1>2, ReadIsKnown DEF Furthers
<1> QED
  BY <1>1, <1>3, WritesTrue

\* What the run is told by the time it sends something.
LEMMA AtRequest ==
    ASSUME IInv, Truthful, NEW r \in Runs, NEW steps, steps \subseteq Steps \cap Stirrers, At(r, steps), steps \cap DocSteps = {}
    PROVE  LET s == run[r]  c == s.cmd IN
           /\ s.out = "running" /\ s.left[1] \in steps /\ Sound(s) /\ Same(s, s) /\ Tells(r, s, server) /\ DOMAIN s = DOMAIN Idle
           /\ s.left # <<>> /\ IsList(s.left) /\ 1 \in DOMAIN s.left /\ Fits(c, s.left[1]) /\ c.noun # "acl" /\ IsDoc(s.doc)
           /\ s.left[1] \notin DocSteps \cup {"session", "readback"} /\ s.left[1] \in Stirrers
           /\ c \in CommandsOf[r] /\ MayWrite(c) \subseteq Objects
           /\ s.key \in {NoKey, r} /\ DOMAIN server = Objects
           /\ \A x \in Objects : x[1] = "group" => server[x].val \subseteq Known
<1> DEFINE s == run[r]  c == s.cmd
<1>1. /\ s.out = "running" /\ s.left[1] \in steps /\ Sound(s) /\ Same(s, s) /\ DOMAIN s = DOMAIN Idle
      /\ s.left # <<>> /\ IsList(s.left) /\ 1 \in DOMAIN s.left /\ Fits(c, s.left[1])
  BY AtStep
<1>2. s.left[1] \notin {"session", "readback", "check", "connect", "list", "search", "readacl"}
  BY <1>1, StirrersAre DEF DocSteps, ObjectSteps
<1>3. c.noun # "acl" /\ IsDoc(s.doc)
  BY <1>1, <1>2, HasDoc
<1>4. Tells(r, s, server)
  BY <1>1 DEF Truthful
<1>5. c \in CommandsOf[r] /\ s.key \in {NoKey, r} /\ MayWrite(c) \subseteq Objects
  BY <1>1, <1>4 DEF Tells, Suited, OwnKey, Sound, Accounted
<1>6. DOMAIN server = Objects /\ \A x \in Objects : x[1] = "group" => server[x].val \subseteq Known
  BY DEF IInv, ServerSound, Truthful, GroupsKnown
<1> QED
  BY <1>1, <1>2, <1>3, <1>4, <1>5, <1>6

LEMMA UpdateTrue ==
    ASSUME IInv, Truthful, NEW r \in Runs, Update(r)
    PROVE  TrueAfter(r)
<1> DEFINE s == run[r]  c == s.cmd  at == Put(r)  d == s.doc  new == <<at[1], at[2], d.name>>
           to == [[server EXCEPT ![at] = Gone] EXCEPT ![new] = Stored(r, d)]
           key == IF c.noun = "key" /\ "create_key" \in d.val THEN r ELSE s.key
           u == [s EXCEPT !.key = key]
<1>1. At(r, {"put"}) /\ {"put"} \subseteq Steps \cap Stirrers /\ {"put"} \cap DocSteps = {}
  BY StirrersAre DEF Update, Steps, ObjectSteps, DocSteps
<1>2. /\ s.out = "running" /\ s.left[1] = "put" /\ Sound(s) /\ Tells(r, s, server) /\ DOMAIN s = DOMAIN Idle
      /\ s.left # <<>> /\ IsList(s.left) /\ 1 \in DOMAIN s.left /\ Fits(c, "put") /\ c.noun # "acl" /\ IsDoc(d)
      /\ "put" \notin DocSteps \cup {"session", "readback"} /\ "put" \in Stirrers
      /\ c \in CommandsOf[r] /\ MayWrite(c) \subseteq Objects /\ s.key \in {NoKey, r} /\ DOMAIN server = Objects
      /\ \A x \in Objects : x[1] = "group" => server[x].val \subseteq Known
  BY <1>1, AtRequest
<1>3. Target(c) \in Objects
  BY <1>2 DEF Fits, ObjectSteps
<1>4. new = <<c.noun, c.scope, d.name>> /\ at[1] = c.noun /\ (c.noun # "key" => d.name = c.name /\ new = Target(c))
  <2>1. c.noun # "key" => d.name = c.name
    BY <1>2, NameIsRight DEF NameUsers
  <2> QED
    BY <2>1 DEF Put, Target
<1>5. Stored(r, d) = StoredAs(r, c, d) /\ (c.noun = "group" => Stored(r, d).val = d.val \cap Known)
  BY <1>2 DEF Stored, StoredAs, IsDoc
<1>6. \A x \in Objects : to[x] = IF x = new THEN Stored(r, d) ELSE IF x = at THEN Gone ELSE server[x]
  BY <1>2
<1>7. Write(r, at, to, Next1(u)) \/ Fail(r)
  BY DEF Update
<1> HIDE DEF to, new, at
<1>8. \A x \in Objects : x[1] = "group" => to[x].val \subseteq Known
  <2>1. Gone.val \subseteq Known
    BY DEF Gone, Doc
  <2>2. new \in Objects /\ new[1] = "group" => Stored(r, d).val \subseteq Known
    BY <1>4, <1>5
  <2> QED
    BY <1>2, <1>6, <2>1, <2>2
<1> HIDE DEF key
<1>9. Rekeyed(s, u) /\ u.key = key
  BY <1>2 DEF Idle, Same, Rekeyed
<1> HIDE DEF u
<1>10. key \in {s.key, r} /\ (key = s.key \/ c.noun = "key")
  BY DEF key
<1>11. ASSUME Doing(c)
       PROVE  Effect(r, u, to)
  <2>1. c.verb \in {"add", "remove", "set", "edit"}
    BY <1>2, <1>11 DEF Tells, Suited, Serves
  <2>2. /\ u.cmd = c /\ u.doc = d /\ u.read = s.read /\ u.others = s.others
    BY <1>9 DEF Rekeyed, Same
  <2>3. ASSUME Changing(c)
        PROVE  HasChanged(u, to)
    <3>1. c.noun # "key" /\ Settled(s.left, d = Changed(c, s.read), {"put"}, {"change"}, Stirrers)
      BY <1>2, <2>3 DEF Tells, ChangeReady
    <3>2. (d = Changed(c, s.read)) \in BOOLEAN
      OBVIOUS
    <3>3. d = Changed(c, s.read)
      BY <1>2, <3>1, <3>2, HeadSettled
    <3>4. to[Target(c)] = Stored(r, d)
      BY <1>3, <1>4, <1>6, <3>1
    <3>5. Stored(r, d).val = IF c.noun = "group" THEN d.val \cap Known ELSE d.val
      BY <1>5, <3>1 DEF Stored
    <3> QED
      BY <2>2, <3>3, <3>4, <3>5 DEF HasChanged
  <2>4. ASSUME c.verb = "edit"
        PROVE  HasEdited(r, u, to)
    <3>1. new \in Objects
      <4>1. CASE c.noun # "key"
        BY <1>3, <1>4, <4>1
      <4>2. CASE c.noun = "key"
        <5>1. Settled(s.left, d.name \in Names \cup {c.name}, {"put"}, {"backfill"}, Stirrers)
          BY <1>2, <2>4, <4>2 DEF Tells, KeyNamed, KeyEditing
        <5>2. (d.name \in Names \cup {c.name}) \in BOOLEAN
          OBVIOUS
        <5>3. d.name \in Names \cup {c.name}
          BY <1>2, <5>1, <5>2, HeadSettled
        <5>4. {c.noun} \X {c.scope} \X Names \subseteq Objects
          BY <1>2, <2>4, <4>2, ObjectsAssumption
        <5>5. d.name \in Names => <<c.noun, c.scope, d.name>> \in {c.noun} \X {c.scope} \X Names
          OBVIOUS
        <5> QED
          BY <1>3, <1>4, <5>3, <5>4, <5>5 DEF Target
      <4> QED
        BY <4>1, <4>2
    <3>2. Edited(u) = new
      BY <1>4, <2>2 DEF Edited
    <3> QED
      BY <1>5, <1>6, <2>2, <3>1, <3>2 DEF HasEdited
  <2> QED
    BY <1>11, <2>1, <2>2, <2>3, <2>4 DEF Effect, Changing, Doing
<1>12. CASE Write(r, at, to, Next1(u))
  BY <1>2, <1>8, <1>9, <1>10, <1>11, <1>12, DoesTrue
<1> QED
  BY <1>7, <1>12, FailsTrue

LEMMA PostTrue ==
    ASSUME IInv, Truthful, NEW r \in Runs, Post(r)
    PROVE  TrueAfter(r)
<1> DEFINE s == run[r]  c == s.cmd  d == s.doc  at == <<c.noun, c.scope, d.name>>
           stored == IF at[1] = "key" THEN Doc(d.name, KeyOf(r)) ELSE d
           to == [x \in Objects |-> IF x = at THEN stored
                                    ELSE IF at[1] \in {"client", "user"} /\ x = DefaultKey(at)
                                    THEN Doc("default", KeyOf(r)) ELSE server[x]]
           key == IF Generates(r) THEN r ELSE s.key
           u == [s EXCEPT !.key = key]
<1>1. At(r, {"post"}) /\ {"post"} \subseteq Steps \cap Stirrers /\ {"post"} \cap DocSteps = {}
  BY StirrersAre DEF Post, Steps, ObjectSteps, DocSteps
<1>2. /\ s.out = "running" /\ s.left[1] = "post" /\ Sound(s) /\ Tells(r, s, server) /\ DOMAIN s = DOMAIN Idle
      /\ s.left # <<>> /\ IsList(s.left) /\ 1 \in DOMAIN s.left /\ Fits(c, "post") /\ c.noun # "acl" /\ IsDoc(d)
      /\ "post" \notin DocSteps \cup {"session", "readback"} /\ "post" \in Stirrers
      /\ c \in CommandsOf[r] /\ MayWrite(c) \subseteq Objects /\ s.key \in {NoKey, r} /\ DOMAIN server = Objects
      /\ \A x \in Objects : x[1] = "group" => server[x].val \subseteq Known
  BY <1>1, AtRequest
<1>3. Target(c) \in Objects
  BY <1>2 DEF Fits, ObjectSteps
<1>4. d.name = c.name /\ at = Target(c) /\ at[1] = c.noun
  <2>1. d.name = c.name
    BY <1>2, NameIsRight DEF NameUsers
  <2> QED
    BY <2>1 DEF Target
<1>5. Fail(r) \/ /\ Write(r, at, to, Next1(u))
                 /\ at[1] = "item" => server[<<"databag", None, at[2]>>] # Gone
  BY DEF Post
<1>6. stored.name = d.name /\ (c.noun = "item" => stored = d)
  BY <1>4 DEF Doc
<1>7. stored # Gone
  BY <1>2, <1>4, <1>6, ObjectsAssumption
<1>8. c.noun = "group" => stored.val \subseteq Known
  <2> SUFFICES ASSUME c.noun = "group"
               PROVE  stored.val \subseteq Known
    OBVIOUS
  <2>1. Settled(s.left, d.val \subseteq Known, {"post"}, {"blank"}, Stirrers)
    BY <1>2 DEF Tells, KnownMembers
  <2>2. (d.val \subseteq Known) \in BOOLEAN
    OBVIOUS
  <2> QED
    BY <1>2, <2>1, <2>2, HeadSettled
<1>9. DefaultKey(at)[1] = "key" /\ DefaultKey(at) = DefaultKey(Target(c)) /\ (c.noun \in {"client", "user"} => DefaultKey(at) # at)
  BY <1>4 DEF DefaultKey
<1>10. at[2] = c.scope /\ <<"databag", None, at[2]>> = Bag(c) /\ (c.noun = "item" => Bag(c) # at)
  BY DEF Bag
<1> HIDE DEF at, stored
<1>11. \A x \in Objects : to[x] = IF x = at THEN stored
                                  ELSE IF c.noun \in {"client", "user"} /\ x = DefaultKey(at)
                                  THEN Doc("default", KeyOf(r)) ELSE server[x]
  BY <1>4
<1> HIDE DEF to
<1>12. \A x \in Objects : x[1] = "group" => to[x].val \subseteq Known
  BY <1>2, <1>4, <1>8, <1>9, <1>11
<1>13. key \in {s.key, r} /\ (key = s.key \/ Generating(c))
  BY DEF Generates, Generating
<1> HIDE DEF key
<1>14. Rekeyed(s, u) /\ u.key = key
  BY <1>2 DEF Idle, Same, Rekeyed
<1> HIDE DEF u
<1>15. ASSUME Doing(c), at[1] = "item" => server[<<"databag", None, at[2]>>] # Gone
       PROVE  Effect(r, u, to)
  <2>1. c.verb \in {"create", "bootstrap"}
    BY <1>2, <1>15 DEF Tells, Suited, Serves
  <2>2. u.cmd = c /\ u.doc = d /\ u.read = s.read /\ u.others = s.others
    BY <1>14 DEF Rekeyed, Same
  <2>3. to[Target(c)] = stored
    BY <1>3, <1>4, <1>11
  <2>4. ASSUME c.verb = "create", c.noun = "item"
        PROVE  HasItem(u, to)
    <3>1. Bag(c) \in Objects
      BY <1>2, <1>15, <2>4 DEF MayWrite, Bag, Doing
    <3>2. to[Bag(c)] = server[Bag(c)]
      BY <1>10, <1>11, <2>4, <3>1
    <3> QED
      BY <1>4, <1>6, <1>10, <1>15, <2>2, <2>3, <2>4, <3>2 DEF HasItem
  <2>5. ASSUME c.noun \in {"client", "user"}
        PROVE  HasKey(u, to, IF u.key = r \/ Generating(c) THEN {r} ELSE {"mine"})
    <3>1. DefaultKey(at) \in Objects
      BY <1>2, <1>9, <2>1, <2>5, ObjectsAssumption
    <3>2. to[DefaultKey(at)].val = KeyOf(r)
      BY <1>9, <1>11, <2>5, <3>1 DEF Doc
    <3>3. KeyOf(r) = IF u.key = r \/ Generating(c) THEN {r} ELSE {"mine"}
      BY <1>2, <1>14, KeysAssumption DEF KeyOf, Generates, Generating, key
    <3> QED
      BY <1>9, <2>2, <3>1, <3>2, <3>3 DEF HasKey
  <2>6. HasObject(r, u, to)
    BY <1>7, <2>2, <2>3, <2>5 DEF HasObject
  <2> QED
    BY <2>1, <2>2, <2>4, <2>6 DEF Effect
<1>16. CASE /\ Write(r, at, to, Next1(u))
            /\ at[1] = "item" => server[<<"databag", None, at[2]>>] # Gone
  BY <1>2, <1>12, <1>13, <1>14, <1>15, <1>16, DoesTrue
<1> QED
  BY <1>5, <1>16, FailsTrue

LEMMA PostBagTrue ==
    ASSUME IInv, Truthful, NEW r \in Runs, PostBag(r)
    PROVE  TrueAfter(r)
<1> DEFINE s == run[r]  c == s.cmd  bag == <<"databag", None, c.scope>>
           to == [server EXCEPT ![bag] = Doc(bag[3], {})]
           u == [s EXCEPT !.told = @ \cup {bag}]
<1>1. At(r, {"postbag"}) /\ {"postbag"} \subseteq Steps \cap Stirrers /\ {"postbag"} \cap DocSteps = {}
  BY StirrersAre DEF PostBag, Steps, ObjectSteps, DocSteps
<1>2. /\ s.out = "running" /\ s.left[1] = "postbag" /\ Sound(s) /\ Same(s, s) /\ DOMAIN s = DOMAIN Idle /\ c.noun # "acl"
      /\ "postbag" \notin DocSteps \cup {"session", "readback"} /\ "postbag" \in Stirrers /\ DOMAIN server = Objects
      /\ \A x \in Objects : x[1] = "group" => server[x].val \subseteq Known
  BY <1>1, AtRequest
<1>3. \A x \in Objects : x[1] = "group" => to[x].val \subseteq Known
  BY <1>2
<1>4. Local(r, Next1(s)) \/ Write(r, bag, to, Next1(u)) \/ Fail(r)
  BY DEF PostBag
<1>5. Same(s, u) /\ u.doc = s.doc /\ u.read = s.read /\ u.key = s.key
  BY <1>2 DEF Idle, Same
<1>6. "postbag" \notin Doers \cup {"backfill", "genkey", "blank", "change", "file", "editor"}
  BY DEF Doers
<1> HIDE DEF u, to, bag
<1>7. CASE Local(r, Next1(s))
  <2>1. Furthers(r, s, server, s, server)
    BY <1>2, <1>6, ReadIsKnown DEF Furthers
  <2> QED
    BY <1>2, <1>6, <1>7, <2>1, StepsTrue DEF Local
<1>8. CASE Write(r, bag, to, Next1(u))
  BY <1>2, <1>3, <1>5, <1>6, <1>8, DoesTrue
<1> QED
  BY <1>4, <1>7, <1>8, FailsTrue

\* What is deleted is gone; a new key is the run's.
LEMMA DeleteTrue ==
    ASSUME IInv, Truthful, NEW r \in Runs, DeleteObject(r) \/ DropKey(r)
    PROVE  TrueAfter(r)
<1> DEFINE s == run[r]  c == s.cmd
<1>1. At(r, {"erase", "dropkey"}) /\ {"erase", "dropkey"} \subseteq Steps \cap Stirrers /\ {"erase", "dropkey"} \cap DocSteps = {}
  BY StirrersAre DEF DeleteObject, DropKey, At, Steps, ObjectSteps, DocSteps
<1>2. /\ s.out = "running" /\ s.left[1] \in {"erase", "dropkey"} /\ Tells(r, s, server) /\ Same(s, s) /\ DOMAIN s = DOMAIN Idle /\ c.noun # "acl"
      /\ s.left[1] \notin DocSteps \cup {"session", "readback"} /\ s.left[1] \in Stirrers /\ DOMAIN server = Objects
      /\ Fits(c, s.left[1]) /\ MayWrite(c) \subseteq Objects /\ s.left # <<>> /\ IsList(s.left) /\ 1 \in DOMAIN s.left
      /\ \A x \in Objects : x[1] = "group" => server[x].val \subseteq Known
  BY <1>1, AtRequest
<1>3. Target(c) \in Objects /\ Aimed(r) = Target(c)
  BY <1>2 DEF Fits, ObjectSteps, Aimed
<1>4. Gone.val = {}
  BY DEF Gone, Doc
<1>5. Rekeyed(s, s) /\ s.left[1] \notin {"backfill", "genkey"}
  BY <1>2, OwnFields
<1>6. ASSUME NEW to, Write(r, Target(c), to, Next1(s)), \A x \in Objects : to[x] \in {Gone, server[x]}, to[Target(c)] = Gone
      PROVE  TrueAfter(r)
  <2>1. \A x \in Objects : x[1] = "group" => to[x].val \subseteq Known
    BY <1>2, <1>4, <1>6
  <2>2. ASSUME Doing(c), s.left[1] \in Doers
        PROVE  Effect(r, s, to)
    <3>1. s.left[1] = "erase"
      BY <1>2, <2>2 DEF Doers
    <3>2. c.verb = "delete"
      BY <1>2, <2>2, <3>1 DEF Tells, Suited, Serves
    <3> QED
      BY <1>6, <3>2 DEF Effect
  <2> QED
    BY <1>2, <1>5, <1>6, <2>1, <2>2, DoesTrue
<1>7. CASE DeleteObject(r)
  <2> DEFINE to == [x \in Objects |-> IF x \in {Aimed(r)} \cup Inside(Aimed(r)) THEN Gone ELSE server[x]]
  <2>1. Fail(r) \/ Write(r, Target(c), to, Next1(s))
    BY <1>3, <1>7 DEF DeleteObject
  <2>2. (\A x \in Objects : to[x] \in {Gone, server[x]}) /\ to[Target(c)] = Gone
    BY <1>3
  <2> HIDE DEF to
  <2> QED
    BY <1>6, <2>1, <2>2, FailsTrue
<1>8. CASE DropKey(r)
  <2> DEFINE to == [server EXCEPT ![Aimed(r)] = Gone]
  <2>1. Fail(r) \/ Write(r, Target(c), to, Next1(s))
    BY <1>3, <1>8 DEF DropKey
  <2>2. (\A x \in Objects : to[x] \in {Gone, server[x]}) /\ to[Target(c)] = Gone
    BY <1>2, <1>3
  <2> HIDE DEF to
  <2> QED
    BY <1>6, <2>1, <2>2, FailsTrue
<1> QED
  BY <1>7, <1>8

LEMMA NewKeyTrue ==
    ASSUME IInv, Truthful, NEW r \in Runs, NewKey(r)
    PROVE  TrueAfter(r)
<1> DEFINE s == run[r]  c == s.cmd  to == [server EXCEPT ![Aimed(r)] = Doc("default", {r})]
           u == [s EXCEPT !.key = r]
<1>1. At(r, {"newkey"}) /\ {"newkey"} \subseteq Steps \cap Stirrers /\ {"newkey"} \cap DocSteps = {}
  BY StirrersAre DEF NewKey, Steps, ObjectSteps, DocSteps
<1>2. /\ s.out = "running" /\ s.left[1] = "newkey" /\ Tells(r, s, server) /\ Same(s, s) /\ DOMAIN s = DOMAIN Idle /\ c.noun # "acl"
      /\ "newkey" \notin DocSteps \cup {"session", "readback"} /\ "newkey" \in Stirrers /\ DOMAIN server = Objects
      /\ Fits(c, "newkey") /\ MayWrite(c) \subseteq Objects /\ s.left # <<>> /\ IsList(s.left) /\ 1 \in DOMAIN s.left
      /\ \A x \in Objects : x[1] = "group" => server[x].val \subseteq Known
  BY <1>1, AtRequest
<1>3. Target(c) \in Objects /\ Aimed(r) = Target(c) /\ c.noun = "key" /\ Target(c)[1] = "key"
  BY <1>2 DEF Fits, ObjectSteps, Aimed, Target
<1>4. Fail(r) \/ Write(r, Target(c), to, Next1(u))
  BY <1>3 DEF NewKey
<1>5. Rekeyed(s, u) /\ u.key = r
  BY <1>2 DEF Idle, Same, Rekeyed
<1>6. to[Target(c)].val = {r} /\ \A x \in Objects : x[1] = "group" => to[x].val \subseteq Known
  BY <1>2, <1>3 DEF Doc
<1> HIDE DEF u, to
<1>7. Doing(c) => Effect(r, u, to)
  <2> SUFFICES ASSUME Doing(c)
               PROVE  Effect(r, u, to)
    OBVIOUS
  <2>1. c.verb = "rotate"
    BY <1>2 DEF Tells, Suited, Serves
  <2>2. u.cmd = c
    BY <1>5 DEF Rekeyed, Same
  <2> QED
    BY <1>5, <1>6, <2>1, <2>2 DEF Effect
<1>8. CASE Write(r, Target(c), to, Next1(u))
  BY <1>2, <1>3, <1>5, <1>6, <1>7, <1>8, DoesTrue
<1> QED
  BY <1>4, <1>8, FailsTrue

LEMMA UploadTrue ==
    ASSUME IInv, Truthful, NEW r \in Runs, UploadCookbook(r)
    PROVE  TrueAfter(r)
<1> DEFINE s == run[r]  c == s.cmd  at == <<c.noun, None, s.doc.name>>  to == [server EXCEPT ![at] = s.doc]
<1>1. At(r, {"upload"}) /\ {"upload"} \subseteq Steps \cap Stirrers /\ {"upload"} \cap DocSteps = {}
  BY StirrersAre DEF UploadCookbook, Steps, ObjectSteps, DocSteps
<1>2. /\ s.out = "running" /\ s.left[1] = "upload" /\ Same(s, s) /\ DOMAIN s = DOMAIN Idle /\ c.noun # "acl"
      /\ "upload" \notin DocSteps \cup {"session", "readback"} /\ "upload" \in Stirrers /\ DOMAIN server = Objects
      /\ Fits(c, "upload")
      /\ \A x \in Objects : x[1] = "group" => server[x].val \subseteq Known
  BY <1>1, AtRequest
<1>3. at[1] = c.noun /\ c.noun \in {"cookbook", "shared"}
  BY <1>2 DEF Fits
<1>4. Write(r, at, to, Next1(s))
  BY DEF UploadCookbook
<1>5. Rekeyed(s, s) /\ "upload" \notin Doers \cup {"backfill", "genkey"}
  BY <1>2, OwnFields DEF Doers
<1>6. \A x \in Objects : x[1] = "group" => to[x].val \subseteq Known
  BY <1>2, <1>3
<1> HIDE DEF to, at
<1> QED
  BY <1>2, <1>4, <1>5, <1>6, DoesTrue
-----------------------------------------------------------------------------
(* Every step                                                              *)

LEMMA StepTrue ==
    ASSUME IInv, Truthful, NEW r \in Runs, Step(r)
    PROVE  TrueAfter(r)
<1>1. CASE CheckArguments(r) \/ Prompt(r) \/ ValidateFlags(r) \/ ResolveProfile(r) \/ ResolveClient(r) \/ ResolveSecret(r)
           \/ OpenSite(r) \/ OpenSigned(r)
  <2>1. \E step \in TrySteps : Try(r, step)
    BY <1>1 DEF CheckArguments, Prompt, ValidateFlags, ResolveProfile, ResolveClient, ResolveSecret, OpenSite, OpenSigned, TrySteps
  <2> QED
    BY <2>1, TryTrue
<1>2. CASE ReadList(r) \/ RunSearch(r) \/ PaginateCookbooks(r) \/ PaginateSearch(r) \/ AttachLatestVersions(r)
           \/ LookupCategory(r) \/ ShowShared(r) \/ DownloadShared(r) \/ FetchMemberOrgNames(r) \/ SaveCookbook(r)
  <2>1. \E step \in AskSteps : Ask(r, step)
    BY <1>2 DEF ReadList, RunSearch, PaginateCookbooks, PaginateSearch, AttachLatestVersions,
                LookupCategory, ShowShared, DownloadShared, FetchMemberOrgNames, SaveCookbook, AskSteps
  <2> QED
    BY <2>1, TryTrue
<1> QED
  BY <1>1, <1>2, StartTrue, QuestionsTrue, FilesTrue, ChangeTrue, ReadsTrue, KeysTrue, ListOrgsTrue, EmitTrue, ReadBackTrue,
     ReadAclTrue, PutAceTrue, UpdateTrue, PostTrue, PostBagTrue, DeleteTrue, NewKeyTrue, UploadTrue DEF Step

LEMMA TruthfulKept ==
    ASSUME IInv, Truthful, [Next]_vars
    PROVE  Truthful'
<1>1. CASE UNCHANGED vars
  BY <1>1 DEF vars, Truthful, GroupsKnown
<1>2. ASSUME NEW r \in Runs, Step(r)
      PROVE  Truthful'
  <2>1. TrueAfter(r)
    BY <1>2, StepTrue
  <2> QED
    BY <2>1 DEF TrueAfter, Truthful
<1> QED
  BY <1>1, <1>2 DEF Next

LEMMA TruthfulFirst == Init => Truthful
<1> SUFFICES ASSUME Init
             PROVE  Truthful
  OBVIOUS
<1>1. GroupsKnown
  BY ObjectsAssumption DEF Init, GroupsKnown
<1>2. \A r \in Runs : run[r].out = "idle"
  BY DEF Init, Idle
<1> QED
  BY <1>1, <1>2 DEF Truthful

LEMMA AlwaysTruthful == Spec => []Truthful
<1>1. IInv /\ Truthful /\ [Next]_vars => Truthful'
  BY TruthfulKept
<1> QED
  BY <1>1, TruthfulFirst, Invariant, PTL DEF Spec

\* A command about permissions shows, lists, adds or removes.
LEMMA AclVerbs ==
    ASSUME NEW c, IsCommand(c), c.noun = "acl"
    PROVE  c.verb \in {"show", "list", "add", "remove"}
<1>1. c = AclShow(c.scope) => c.verb = "show"
  BY DEF AclShow, Command
<1>2. c = AclChange(c.scope, c.verb = "add", c.perms, c.entries) => c.verb \in {"add", "remove"}
  BY DEF AclChange, Command
<1> QED
  BY <1>1, <1>2 DEF IsCommand, IsAclCommand

\* A run that ends well has done what it says.
LEMMA EndIsSaid ==
    ASSUME IInv, IInv', Truthful, NEW r \in Runs, TrueAfter(r), run[r].out = "running", run'[r].out = "ok",
           run'[r].others \cap Concerns(r) = {}, "dryRun" \notin run[r].cmd.opts
    PROVE  Holds(r, server')
<1> DEFINE s == run[r]  t == run'[r]  c == s.cmd  srv == server'  h == s.left[1]
<1>1. Tells(r, t, srv) /\ Tells(r, s, server) /\ Passes(r, s, t)
  BY DEF TrueAfter, Truthful
<1>2. Sound(s) /\ Sound(t) /\ s.left # <<>> /\ IsList(s.left) /\ t.left = <<>> /\ t.cmd = c
  BY <1>1 DEF IInv, RunsSound, Sound, Shape, Ordered, Passes
<1>3. DOMAIN s.left = {1} /\ Len(s.left) = 1
  BY <1>1, <1>2, ListTail DEF Passes
<1>4. \A x : x \in MayWrite(c) => x \notin t.others
  BY DEF Concerns
<1>5. Doing(c) => Target(c) \in MayWrite(c)
  BY DEF Doing, MayWrite
<1>6. ASSUME Doing(c)
      PROVE  /\ t.doc = s.doc /\ (t.key = s.key \/ c.noun = "key" \/ Generating(c))
             /\ Effect(r, t, srv) /\ Target(c) \notin t.others
  <2>1. Delivered(s.left, Effect(r, s, server), Doers, Stirrers) /\ Delivered(t.left, Effect(r, t, srv), Doers, Stirrers)
    BY <1>1, <1>2, <1>6 DEF Tells, Effective
  <2>2. h \notin Stirrers \ Doers
    BY <1>3, <2>1 DEF Delivered
  <2>3. DOMAIN t.left = {}
    BY <1>2
  <2>4. Effect(r, t, srv)
    BY <2>1, <2>3 DEF Delivered
  <2> QED
    BY <1>1, <1>4, <1>5, <1>6, <2>2, <2>4 DEF Passes
<1>7. ASSUME c.noun = "acl"
      PROVE  Holds(r, srv)
  <2>1. Granted(t, srv) /\ DOMAIN t.left = {}
    BY <1>1, <1>2 DEF Tells
  <2>2. c.verb \in {"show", "list", "add", "remove"}
    BY <1>1, <1>7, AclVerbs, CommandsAssumption DEF Tells, Suited
  <2>3. \A i \in DOMAIN c.perms : Ace(r, c.perms[i]) \notin t.others /\ ~Changes(c, srv[Ace(r, c.perms[i])].val)
    BY <1>2, <1>4, <1>7, <2>1 DEF Granted, Ace
  <2>4. \A i \in DOMAIN c.perms : LET val == srv[Ace(r, c.perms[i])].val IN
             IF c.verb = "add" THEN c.entries \subseteq val ELSE c.entries \cap val = {}
    BY <2>3 DEF Changes
  <2> QED
    BY <1>7, <2>2, <2>4 DEF Holds
<1>8. ASSUME c.noun # "acl", c.verb \in {"add", "remove", "set"}
      PROVE  Holds(r, srv)
  <2>1. Doing(c) /\ Changing(c)
    BY <1>8 DEF Doing, Changing
  <2>2. HasChanged(t, srv) /\ Target(c) \notin t.others
    BY <1>2, <1>6, <1>8, <2>1 DEF Effect
  <2>3. IsDoc(t.read) /\ (c.verb = "set" => c.noun # "group")
    BY <1>1, <1>2, <1>8, <2>1 DEF Sound, Shape, Tells, ChangeReady
  <2>4. Changed(c, t.read).val = CASE c.verb = "add" -> t.read.val \cup c.entries
                                   [] c.verb = "remove" -> t.read.val \ c.entries
                                   [] OTHER -> (t.read.val \ c.family) \cup c.entries
    BY <2>3 DEF Changed, IsDoc
  <2>5. CASE c.noun = "group"
    <3>1. Membering(c)
      BY <1>8, <2>1, <2>3, <2>5 DEF Membering
    <3>2. MembersKept(t, srv)
      BY <1>1, <1>2, <3>1 DEF Tells, MembersSeen, Delivered
    <3> QED
      BY <1>2, <1>8, <2>2, <2>3, <2>5, <3>2 DEF MembersKept, Holds
  <2>6. CASE c.noun # "group"
    <3>1. srv[Target(c)].val = Changed(c, t.read).val
      BY <1>2, <2>2, <2>6 DEF HasChanged
    <3> QED
      BY <1>8, <2>4, <3>1 DEF Holds
  <2> QED
    BY <2>5, <2>6
<1>9. ASSUME c.noun # "acl", c.verb \in {"delete", "edit"}
      PROVE  Holds(r, srv)
  <2>1. Doing(c)
    BY <1>9 DEF Doing
  <2>2. Effect(r, t, srv) /\ Target(c) \notin t.others /\ t.doc = s.doc
    BY <1>6, <2>1
  <2>3. CASE c.verb = "delete"
    BY <1>2, <1>9, <2>2, <2>3 DEF Effect, Holds
  <2>4. CASE c.verb = "edit"
    <3>1. HasEdited(r, t, srv) /\ Edited(t) = <<c.noun, c.scope, t.doc.name>>
      BY <1>2, <2>2, <2>4 DEF Effect, Edited
    <3>2. Edited(t) \notin t.others
      BY <2>2, <3>1 DEF Concerns
    <3>3. StoredAs(r, c, t.doc) = Stored(r, t.doc)
      BY DEF Stored, StoredAs
    <3>4. srv[<<c.noun, c.scope, t.doc.name>>] = Stored(r, t.doc)
      BY <1>2, <3>1, <3>2, <3>3 DEF HasEdited
    <3> QED
      BY <1>9, <2>4, <3>4 DEF Holds
  <2> QED
    BY <1>9, <2>3, <2>4
<1>10. ASSUME c.noun # "acl", c.verb \in {"create", "bootstrap"}
       PROVE  Holds(r, srv)
  <2>1. Doing(c)
    BY <1>10 DEF Doing
  <2>2. Effect(r, t, srv) /\ Target(c) \notin t.others /\ (t.key = s.key \/ c.noun = "key" \/ Generating(c))
    BY <1>6, <2>1
  <2>3. CASE c.verb = "create" /\ c.noun = "item"
    <3>1. Bag(c) \in MayWrite(c)
      BY <2>1, <2>3 DEF MayWrite, Bag, Doing
    <3>2. HasItem(t, srv) /\ Bag(c) \notin t.others
      BY <1>2, <1>4, <2>2, <2>3, <3>1 DEF Effect
    <3> QED
      BY <1>2, <2>2, <2>3, <3>2 DEF Holds, HasItem, Bag
  <2>4. ASSUME c.noun # "item"
        PROVE  HasObject(r, t, srv) /\ srv[Target(c)] # Gone
    BY <1>2, <1>10, <2>2, <2>4 DEF Effect, HasObject
  <2>5. ASSUME c.noun \in {"client", "user"}
        PROVE  srv[DefaultKey(Target(c))].val = IF t.key = r \/ Generating(c) THEN {r} ELSE {"mine"}
    <3>1. HasKey(t, srv, IF t.key = r \/ Generating(c) THEN {r} ELSE {"mine"})
      BY <1>2, <2>4, <2>5 DEF HasObject
    <3>2. DefaultKey(Target(c)) \in Objects
      BY <1>2, <3>1 DEF HasKey
    <3>3. DefaultKey(Target(c)) \in Inside(Target(c))
      BY <2>5, <3>2 DEF Inside, DefaultKey, Target
    <3>4. DefaultKey(Target(c)) \notin t.others
      BY <1>5, <2>1, <3>3 DEF Concerns
    <3> QED
      BY <1>2, <3>1, <3>4 DEF HasKey
  <2>6. CASE c.verb = "create" /\ c.noun \in {"client", "user"}
    <3>1. s.key \in {NoKey, r} /\ t.key \in {NoKey, r}
      BY <1>1 DEF Tells, OwnKey
    <3>2. KeyOf(r) = IF t.key = r \/ Generating(c) THEN {r} ELSE {"mine"}
      BY <2>2, <2>6, <3>1, KeysAssumption DEF KeyOf, Generates, Generating
    <3> QED
      BY <2>4, <2>5, <2>6, <3>2 DEF Holds
  <2>7. CASE c.verb = "create" /\ c.noun \notin {"item", "client", "user"}
    BY <1>10, <2>4, <2>7 DEF Holds
  <2>8. CASE c.verb = "bootstrap"
    <3>1. Booting(c)
      BY <2>1, <2>8 DEF Booting
    <3>2. /\ c.noun = "client" /\ Settled(s.left, s.key = r, {"post", "session"}, {"genkey"}, {})
          /\ Delivered(s.left, FALSE, {"session"}, Steps)
      BY <1>1, <1>2, <3>1 DEF Tells, OwnKey
    <3>3. h = "session"
      BY <1>3, <3>2 DEF Delivered
    <3>4. (s.key = r) \in BOOLEAN
      OBVIOUS
    <3>5. s.key = r
      BY <1>2, <3>2, <3>3, <3>4, HeadSettled
    <3>6. t.key = r /\ host' = r
      BY <1>1, <3>3, <3>5 DEF Passes
    <3> QED
      BY <2>4, <2>5, <2>8, <3>2, <3>6 DEF Holds
  <2> QED
    BY <1>10, <2>3, <2>6, <2>7, <2>8
<1>11. ASSUME c.noun # "acl", c.verb = "rotate"
       PROVE  Holds(r, srv)
  <2>1. Doing(c)
    BY <1>11 DEF Doing
  <2>2. t.key = r /\ srv[Target(c)].val = {r}
    BY <1>2, <1>6, <1>11, <2>1 DEF Effect
  <2>3. t.shown = r
    BY <1>2, <2>2, KeysAssumption DEF Sound, KeyGoesOut, Delivered, Answered
  <2> QED
    BY <1>11, <2>2, <2>3 DEF Holds
<1>12. ASSUME c.noun # "acl", c.verb \notin {"add", "remove", "set", "delete", "edit", "create", "bootstrap", "rotate"}
       PROVE  Holds(r, srv)
  BY <1>12 DEF Holds
<1> QED
  BY <1>7, <1>8, <1>9, <1>10, <1>11, <1>12

\* A command that succeeds has done what it says: the server holds what was sent, the
\* new key is the one handed over, every permission asked for has changed, unless
\* another run wrote the same objects meanwhile (client.go, group.go, acl.go, ...).
THEOREM SaidHolds == Spec => SaidIsDone
<1> DEFINE Said == \A r \in Runs :
         (/\ run[r].out = "running" /\ run'[r].out = "ok"
          /\ run'[r].others \cap Concerns(r) = {} /\ "dryRun" \notin run[r].cmd.opts) => Holds(r, server')
<1>1. IInv /\ IInv' /\ Truthful /\ [Next]_vars => [Said]_vars
  <2> SUFFICES ASSUME IInv, IInv', Truthful, Next
               PROVE  Said
    OBVIOUS
  <2>1. PICK q \in Runs : Step(q)
    BY DEF Next
  <2>2. TrueAfter(q)
    BY <2>1, StepTrue
  <2>3. \A r \in Runs : run[r].out = "running" /\ run'[r].out = "ok" => r = q
    BY <2>2 DEF TrueAfter
  <2> QED
    BY <2>2, <2>3, EndIsSaid
<1>2. Spec => [][Said]_vars
  BY <1>1, Invariant, AlwaysTruthful, PTL DEF Spec
<1> QED
  BY <1>2 DEF SaidIsDone
=============================================================================
