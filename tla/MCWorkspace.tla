---------------------------- MODULE MCWorkspace ----------------------------
(***************************************************************************)
(* Two cookbooks, the second depending on the first, edited to another       *)
(* version, to other files under one version, to what cannot be resolved;    *)
(* and problems of three cookbooks in two versions for the solver.           *)
(***************************************************************************)
EXTENDS Workspace

R(nums) == Version(nums, <<>>)
MCContent ==
    1 :> [version |-> R(<<1, 1, 0>>), deps |-> <<>>, files |-> {"metadata.json", "recipe.rb"}]
    @@ 2 :> [version |-> R(<<1, 1, 0>>), deps |-> <<>>, files |-> {"metadata.json"}]
    @@ 3 :> [version |-> R(<<2, 1, 0>>), deps |-> <<>>, files |-> {"metadata.json", "recipe.rb"}]
    @@ 4 :> [version |-> R(<<1, 0>>), deps |-> <<Needs(1, Constraint("~>", <<1>>, <<>>))>>, files |-> {"metadata.json"}]
    @@ 5 :> [version |-> R(<<1, 2>>), deps |-> <<Needs(3, AnyVersion)>>, files |-> {"metadata.json"}]
MCOf == <<{1, 2, 3}, {4, 5}>>

Here == Spec1(TRUE, AnyVersion)
Attrs1 == <<"web">> :> Map @@ <<"web", "port">> :> <<"80">> @@ <<"tls">> :> Null
Attrs2 == <<"web">> :> <<"off">> @@ <<"tls">> :> <<"on">>
MCPolicyfiles ==
    {Policyfile("web", <<Item(2, "")>>, <<Here, Here>>, FALSE, Attrs1),
     Policyfile("web", <<Item(1, ""), Item(2, "x")>>, <<Here, Here>>, FALSE, Attrs2),
     Policyfile("web", <<Item(2, "")>>, <<Here, Spec1(FALSE, AnyVersion)>>, FALSE, <<>>)}
MCFirstPolicyfiles == {NoPolicyfile, Policyfile("web", <<Item(2, "")>>, <<Here, Here>>, FALSE, Attrs1)}
MCScaffold == Policyfile("new", <<Item(3, "default")>>, <<>>, FALSE, <<>>)

OldLock == Lock("web", <<Item(1, "default")>>, <<[version |-> Verbatim(R(<<1, 1, 0>>)), id |-> 2]>>, Attrs2)
MCServed == {[artifacts |-> <<1, 2>> :> Whole(2), revisions |-> {OldLock}, active |-> <<"prod", "web">> :> OldLock]}

MCCommands ==
    {Command("create", o, "", <<>>) : o \in {{}, {"force"}}}
    \cup {Command("install", {}, "", <<>>), Command("export", {"archive"}, "", <<>>), Command("push", {}, "", <<"staging">>)}
    \cup {Command("push-archive", {}, a, <<"prod">>) : a \in {"", "bundle", "archive"}}
    \cup {Command("diff", {}, "web", <<"staging", "prod">>), Command("download", {"force"}, "", <<>>)}

Constraints == {AnyVersion, Constraint("~>", <<2, 0>>, <<>>), Constraint("<", <<2>>, <<>>)}
V1 == R(<<1, 0, 0>>)
V2 == R(<<2, 0, 0>>)
Pair1(d1, d2) == {Candidate(V1, d1), Candidate(V2, d2)}
Deps1 == {<<>>} \cup {<<Needs(2, c)>> : c \in Constraints} \cup {<<Needs(3, AnyVersion), Needs(2, c)>> : c \in Constraints}
Deps2 == {<<>>, <<Needs(3, Malformed)>>} \cup {<<Needs(m, c)>> : m \in {1, 3}, c \in Constraints}
Pre == Candidate(Version(<<2, 0, 0>>, <<[numeric |-> FALSE, val |-> 1]>>), <<>>)
MCPosed ==
    {Problem(<<Pair1(a, b), Pair1(c, <<>>), t>>, {Needs(1, AnyVersion), Needs(2, d)}) :
        a \in Deps1, b \in Deps1, c \in Deps2, d \in {Constraint("<", <<2>>, <<>>), AnyVersion},
        t \in {{Candidate(V1, <<>>), Pre}}}
    \cup {Problem(<<Pair1(<<>>, d)>>, {Needs(1, AnyVersion)}) : d \in Deps1}
=============================================================================
