-------------------------- MODULE MCServerObjects --------------------------
(***************************************************************************)
(* An instance of ServerObjects for TLC: every command beside a rival.      *)
(***************************************************************************)
EXTENDS ServerObjects

Owner == <<"client", "n1">>
N == {"n1", "n2"}
Perms == <<"read", "grant">>
Documents == {"node", "role", "environment", "client", "user", "group", "org", "databag", "cookbook", "policy", "policygroup", "shared"}
SomeObjects ==
    (Documents \X {""} \X N) \cup {<<"user", "", "pivotal">>}
    \cup ({"item"} \X {"n1"} \X N) \cup {<<"item", "n2", "n1">>}
    \cup ({"key"} \X {Owner} \X (N \cup {"default"})) \cup {<<"key", <<noun, "n2">>, "default">> : noun \in {"client", "user"}}
    \cup ({"acl"} \X {"n1"} \X {"read", "grant"}) \cup ({"member", "invite"} \X {""} \X {"n1"})
Content(x) ==
    CASE x[1] = "key" -> IF x[2] = Owner /\ x[3] # "n2" THEN Doc(x[3], {"mine"}) ELSE Gone
      [] x[1] = "acl" -> Doc(x[3], IF x[3] = "read" THEN {"a"} ELSE {})
      [] x[1] = "item" /\ x[3] = "n2" -> [Doc("n2", {"a"}) EXCEPT !.sealed = 1]
      [] x[1] = "node" /\ x[3] = "n1" -> Doc(x[3], {"a", "env"})
      [] x[1] \in {"member", "invite"} \/ (x[3] = "n2" /\ x[1] \notin {"role", "key", "item"}) -> Gone
      [] x[1] = "item" /\ x[2] = "n2" -> Gone
      [] OTHER -> Doc(x[3], {"a"})
Server == [x \in SomeObjects |-> Content(x)]

F == {{}, {"file"}}
K == {{}, {"keyFile"}, {"publicKey"}}
Rivals ==
    {RoleEdit("n1", {}), ClientDelete("n1"), GroupMemberChange("n1", TRUE, {"a", "b"}), ItemEdit("n1", "n2", {"file"}),
     AclChange("n1", FALSE, <<"read">>, {"a"}), NodeBootstrap("n2", {}),
     KeyEdit(Owner, "n1", {"file"}), ClientReregister("n1", {}), DataBagDelete("n1"), NodeEnvironmentSet("n1", "prod")}
ClientCommands ==
    UNION {{ClientReregister("n1", o), ClientCreate("n2", o), KeyCreate(Owner, "n2", o), UserCreate("n2", o), OrgCreate("n2", o)} : o \in K}
    \cup UNION {{ClientEdit("n1", o), UserEdit("n1", o), KeyEdit(Owner, "n1", o \cup {"keyFile"})} : o \in F}
    \cup {ClientShow("n1"), ClientDelete("n1"), ClientList, UserDelete("n1", {}), UserPassword("n1"), UserShow("n1"), UserList,
          UserDelete("pivotal", {}), UserDelete("pivotal", {"yes"}), KeyList(Owner), KeyShow(Owner, "n1"), KeyDelete(Owner, "n1")}
OrgCommands ==
    UNION {{RoleCreate("n2", o), RoleEdit("n1", o), EnvironmentEdit("n1", o), EnvironmentCreate("n2", o),
            GroupEdit("n1", o), OrgEdit("n1", o)} : o \in F}
    \cup {RoleShow("n1"), RoleDelete("n1"), RoleList, EnvironmentShow("n1"), EnvironmentDelete("n1"), EnvironmentList,
          GroupCreate("n2"), GroupDelete("n1"), GroupShow("n1"), GroupList, OrgList, OrgShow("n1"), OrgDelete("n1"),
          OrgMemberList, OrgMemberAdd("n1"), OrgMemberRemove("n1"), OrgInviteList, OrgInviteCreate("n1"), OrgInviteRescind("n1"),
          AclShow("n1")}
    \cup {GroupMemberChange("n1", add, m) : add \in BOOLEAN, m \in {{"a"}, {"b"}, {"a", "c"}}}
    \cup {AclChange("n1", add, p, {"a"}) : add \in BOOLEAN, p \in {<<"read">>, Perms}}
NodeCommands ==
    UNION {{NodeCreate("n2", o), NodeEdit("n1", o)} : o \in F}
    \cup {NodeListField(v, "n1", {"b"}) : v \in {"add", "remove", "set"}}
    \cup {NodeShow("n1"), NodeDelete("n1"), NodeList, NodeStatus, NodeEnvironmentSet("n1", "prod"), NodePolicySet("n1", "policy"),
          NodeSSH({}), NodeSSH({"skipSearch"}), NodeBootstrap("n2", {}), NodeBootstrap("n2", {"dryRun"})}
ItemCommands ==
    UNION {{DataBagCreateWithItem("n2", "n1", o), DataBagCreateWithItem("n1", "n1", o), ItemCreate("n1", "n1", o), ItemEdit("n1", "n2", o),
            SecretCreate("n1", "n1", o), SecretEdit("n1", "n2", o), SecretEdit("n1", "n1", o)} : o \in F}
    \cup {DataBagCreate("n2"), DataBagDelete("n1"), DataBagList, ItemList("n1"), ItemShow("n1", "n2"), ItemDelete("n1", "n2"),
          SecretShow("n1", "n2")}
    \cup {CookbookUpload(1), CookbookUpload(2), CookbookDownload("n1"), CookbookShow("n1"), CookbookDelete("n1"),
          CookbookList, PolicyDelete("n1"), PolicyShow("n1"), PolicyList, PolicyGroupDelete("n1"), PolicyGroupShow("n1"),
          PolicyGroupList, Search("node"), SupermarketShow("n1"),
          SupermarketInstall("n1"), SupermarketExplore("n1")}
    \cup {SupermarketShare("n1", o) : o \in {{}, {"category"}, {"dryRun"}}}
    \cup UNION {{SupermarketList(o), SupermarketSearch(o)} : o \in {{}, {"verbose"}}}
Commanded == [r \in Runs |-> IF r = "p1" THEN ClientCommands \cup OrgCommands \cup NodeCommands \cup ItemCommands ELSE Rivals]
=============================================================================
