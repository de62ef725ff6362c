------------------------------ MODULE Commands ------------------------------
(***************************************************************************)
(* What the commands about objects of a Cinc Server do, each as the list of *)
(* steps its RunE takes (apps/cinc/cmd: client.go, user.go, group.go,       *)
(* org.go, role.go, environment.go, keys.go, acl.go, node*.go, databag*.go, *)
(* cookbook.go, search.go, policy.go, policygroup.go).  ServerObjects runs  *)
(* them.                                                                   *)
(*                                                                         *)
(* An object is <<noun, scope, name>>: the scope of an item is its bag, of a *)
(* key its owner (a client or a user), of a permission the object whose ACL  *)
(* it is in.                                                               *)
(***************************************************************************)
EXTENDS Integers, Sequences, Functions

CONSTANTS Superuser,  \* the user a server cannot do without
          AllPerms,   \* the permissions of an ACL, in the order `all` expands to
          RunList, Settings  \* entries of a node's run list; its environment or policy

\* No scope, or no name.
None == ""
Command(verb, noun, scope, name, opts, entries, steps) ==
    [verb |-> verb, noun |-> noun, scope |-> scope, name |-> name,
     opts |-> opts, entries |-> entries, perms |-> <<>>, family |-> {}, steps |-> steps]
Plain(verb, noun, name, opts, steps) == Command(verb, noun, None, name, opts, {}, steps)

Show(noun, scope, name) == Command("show", noun, scope, name, {}, {}, <<"check", "connect", "get">>)
List(noun) == Plain("list", noun, None, {}, <<"check", "connect", "list">>)
Delete(noun, scope, name) == Command("delete", noun, scope, name, {}, {}, <<"connect", "erase">>)

\* An edit reads a file, or the server and the editor.
Edit(noun, name, opts) ==
    Plain("edit", noun, name, opts,
          IF "file" \in opts THEN <<"connect", "file", "pin", "put">>
          ELSE <<"connect", "get", "editor", "compare", "pin", "put">>)
Create(noun, name, opts) ==
    Plain("create", noun, name, opts,
          IF "file" \in opts THEN <<"connect", "file", "pin", "post">> ELSE <<"connect", "blank", "post">>)
\* The server makes a key pair, unless --public-key gave it one.
CreateWithKey(noun, name, opts) ==
    Plain("create", noun, name, opts,
          IF "publicKey" \in opts THEN <<"connect", "check", "blank", "post", "emit">>
          ELSE <<"connect", "blank", "post", "emit">>)

\* The names of the steps; a permission is not called like one.
Steps ==
    {"check", "prompt", "flags", "profile", "connect", "secret", "site", "identity", "file", "itemfile", "blank", "stub",
     "editor", "itemeditor", "compare", "pin", "backfill", "change", "seal", "ask", "get", "list", "search", "cookbooks",
     "matches", "universe", "category", "record", "download", "hosts", "unseal", "put", "post", "postbag", "erase",
     "dropkey", "newkey", "readback", "readacl", "listorgs", "memberorgs", "locate", "pack", "upload", "save", "genkey",
     "emit", "openkey", "chmodkey", "writekey", "script", "session"}
ASSUME PermsAssumption == Range(AllPerms) \cap Steps = {}
-----------------------------------------------------------------------------
(* clients and users                                                       *)

ClientReregister(n, o) == Command("rotate", "key", <<"client", n>>, "default", o, {}, <<"connect", "dropkey", "newkey", "emit">>)
ClientShow(n) == Show("client", None, n)
ClientEdit(n, o) == Edit("client", n, o)
ClientCreate(n, o) == CreateWithKey("client", n, o)
ClientDelete(n) == Delete("client", None, n)
ClientList == List("client")

UserEdit(n, o) == Edit("user", n, o)
UserCreate(n, o) == CreateWithKey("user", n, o)
UserDelete(n, o) ==
    Plain("delete", "user", n, o,
          IF n = Superuser /\ "yes" \notin o THEN <<"connect", "ask", "erase">> ELSE <<"connect", "erase">>)
\* The library reads the user and sends it back with the password.
UserPassword(n) == Command("add", "user", None, n, {}, {"password"}, <<"connect", "prompt", "get", "change", "put">>)
UserShow(n) == Show("user", None, n)
UserList == List("user")

KeyList(owner) == Command("list", "key", owner, None, {}, {}, <<"check", "connect", "list">>)
KeyShow(owner, k) == Show("key", owner, k)
KeyCreate(owner, k, o) == [CreateWithKey("key", k, o) EXCEPT !.scope = owner]
KeyEdit(owner, k, o) ==
    Command("edit", "key", owner, k, o, {},
            IF "file" \in o THEN <<"connect", "file", "backfill", "put", "emit">>
            ELSE <<"connect", "get", "editor", "compare", "backfill", "put", "emit">>)
KeyDelete(owner, k) == Delete("key", owner, k)
-----------------------------------------------------------------------------
(* roles, environments, groups, organizations                              *)

RoleCreate(n, o) == Create("role", n, o)
RoleEdit(n, o) == Edit("role", n, o)
RoleShow(n) == Show("role", None, n)
RoleDelete(n) == Delete("role", None, n)
RoleList == List("role")

EnvironmentEdit(n, o) == Edit("environment", n, o)
EnvironmentShow(n) == Show("environment", None, n)
EnvironmentCreate(n, o) == Create("environment", n, o)
EnvironmentDelete(n) == Delete("environment", None, n)
EnvironmentList == List("environment")

GroupEdit(n, o) == Edit("group", n, o)
GroupCreate(n) == Create("group", n, {})
GroupDelete(n) == Delete("group", None, n)
GroupShow(n) == Show("group", None, n)
GroupList == List("group")
\* The library reads the group, changes a list, and reads it back.
GroupMemberChange(g, add, names) ==
    Command(IF add THEN "add" ELSE "remove", "group", None, g, {}, names,
            <<"check", "connect", "get", "change", "compare", "put", "readback">>)

OrgList == Plain("list", "org", None, {}, <<"check", "connect", "listorgs">>)
OrgShow(n) == Show("org", None, n)
OrgCreate(n, o) == CreateWithKey("org", n, o \ {"publicKey"})
OrgEdit(n, o) == Edit("org", n, o)
OrgDelete(n) == Delete("org", None, n)
OrgMemberList == List("member")
OrgMemberAdd(u) == Create("member", u, {})
OrgMemberRemove(u) == Delete("member", None, u)
OrgInviteList == List("invite")
OrgInviteCreate(u) == Create("invite", u, {})
OrgInviteRescind(u) == Delete("invite", None, u)

AclShow(object) == Command("show", "acl", object, None, {}, {}, <<"check", "connect", "list">>)
AclChange(object, grant, perms, entries) ==
    [Command(IF grant THEN "add" ELSE "remove", "acl", object, None, {}, entries, <<"check", "connect", "readacl">>)
        EXCEPT !.perms = perms]
-----------------------------------------------------------------------------
(* nodes                                                                   *)

NodeCreate(n, o) ==
    Plain("create", "node", n, o,
          IF "file" \in o THEN <<"check", "connect", "file", "pin", "post">> ELSE <<"check", "connect", "blank", "post">>)
NodeEdit(n, o) ==
    Plain("edit", "node", n, o,
          IF "file" \in o THEN <<"connect", "file", "pin", "put">>
          ELSE <<"connect", "get", "editor", "pin", "compare", "put">>)
NodeShow(n) == Show("node", None, n)
NodeDelete(n) == Delete("node", None, n)
NodeList == List("node")
NodeStatus == Plain("list", "node", None, {"query"}, <<"check", "connect", "search">>)

\* Nodes.Modify: read, change, send back only what differs.
Modify(verb, n, family, entries, steps) ==
    [Command(verb, "node", None, n, {}, entries, steps) EXCEPT !.family = family]
Setting(n, entry) == Modify("set", n, Settings, {entry}, <<"connect", "get", "change", "compare", "put">>)
NodeListField(verb, n, entries) ==
    Modify(verb, n, RunList, entries, <<"check", "connect", "get", "change", "compare", "put">>)
NodeEnvironmentSet(n, env) == Setting(n, env)
NodePolicySet(n, policy) == Setting(n, policy)

\* The hosts come from a search, or from the command line; RemotePool is the session.
NodeSSH(o) ==
    Plain("run", "node", None, o,
          IF "skipSearch" \in o THEN <<"check", "prompt">> ELSE <<"check", "prompt", "connect", "hosts">>)

\* The client is made with a key pair of our own, and the private key goes to the host.
NodeBootstrap(n, o) ==
    Plain("bootstrap", "client", n, o \cup {"publicKey"},
          IF "dryRun" \in o THEN <<"check", "prompt", "flags", "profile", "script">>
          ELSE <<"check", "prompt", "flags", "profile", "connect", "genkey", "blank", "post", "script", "session">>)
-----------------------------------------------------------------------------
(* data bags                                                               *)

DataBagCreate(bag) == Create("databag", bag, {})
DataBagCreateWithItem(bag, id, o) ==
    Command("create", "item", bag, id, o, {},
            IF "file" \in o THEN <<"connect", "itemfile", "postbag", "post">>
            ELSE <<"connect", "stub", "itemeditor", "postbag", "post">>)
DataBagDelete(bag) == Delete("databag", None, bag)
DataBagList == List("databag")
ItemList(bag) == Command("list", "item", bag, None, {}, {}, <<"check", "connect", "list">>)
ItemCreate(bag, id, o) ==
    Command("create", "item", bag, id, o, {},
            IF "file" \in o THEN <<"connect", "itemfile", "post">> ELSE <<"connect", "stub", "itemeditor", "post">>)
ItemShow(bag, id) == Show("item", bag, id)
ItemEdit(bag, id, o) ==
    Command("edit", "item", bag, id, o, {},
            IF "file" \in o THEN <<"connect", "itemfile", "put">>
            ELSE <<"connect", "get", "itemeditor", "compare", "put">>)
ItemDelete(bag, id) == Delete("item", bag, id)

Secret(verb, bag, id, o, steps) == Command(verb, "item", bag, id, o \cup {"secret"}, {}, steps)
SecretCreate(bag, id, o) ==
    Secret("create", bag, id, o,
           IF "file" \in o THEN <<"secret", "connect", "itemfile", "seal", "post">>
           ELSE <<"secret", "connect", "stub", "itemeditor", "seal", "post">>)
SecretShow(bag, id) == Secret("show", bag, id, {}, <<"check", "secret", "connect", "unseal">>)
SecretEditInClear(bag, id, o) ==                                         \* mutant
    Secret("edit", bag, id, o,
           IF "file" \in o THEN <<"secret", "connect", "itemfile", "put">>
           ELSE <<"secret", "connect", "unseal", "itemeditor", "compare", "seal", "put">>)
SecretEdit(bag, id, o) ==
    Secret("edit", bag, id, o,
           IF "file" \in o THEN <<"secret", "connect", "itemfile", "seal", "put">>
           ELSE <<"secret", "connect", "unseal", "itemeditor", "compare", "seal", "put">>)
-----------------------------------------------------------------------------
(* cookbooks, policies, search                                             *)

\* As many cookbooks as are named, one after the other.
CookbookUpload(count) ==
    Plain("upload", "cookbook", None, {},
          [i \in 1..(2 + 2 * count) |-> CASE i = 1 -> "check" [] i = 2 -> "connect"
                                          [] i > 2 /\ i % 2 = 1 -> "locate" [] i > 2 /\ i % 2 = 0 -> "upload"])
CookbookDownload(n) == Plain("show", "cookbook", n, {}, <<"connect", "get", "save">>)
CookbookShow(n) == Show("cookbook", None, n)
CookbookDelete(n) == Delete("cookbook", None, n)
CookbookList == List("cookbook")

PolicyDelete(n) == Delete("policy", None, n)
PolicyShow(n) == Show("policy", None, n)
PolicyList == List("policy")
PolicyGroupDelete(n) == Delete("policygroup", None, n)
PolicyGroupShow(n) == Show("policygroup", None, n)
PolicyGroupList == List("policygroup")
Search(index) == Plain("list", index, None, {"query"}, <<"check", "connect", "search">>)
-----------------------------------------------------------------------------
(* Chef Supermarket, whose cookbooks are shared objects.  Reading needs no   *)
(* credentials: there is no client of ours to resolve.                      *)

\* --verbose asks for the latest version of everything listed.
Listing(o) ==
    IF "verbose" \in o THEN <<"check", "site", "cookbooks", "universe">> ELSE <<"check", "site", "cookbooks">>
Searching(o) ==
    IF "verbose" \in o THEN <<"check", "site", "check", "matches", "universe">> ELSE <<"check", "site", "check", "matches">>
SupermarketList(o) == Plain("list", "shared", None, o, Listing(o))
SupermarketSearch(o) == Plain("list", "shared", None, o \cup {"query"}, Searching(o))
SupermarketShow(n) == Plain("show", "shared", n, {}, <<"check", "site", "record">>)

\* The latest version is asked for, then downloaded, unpacked, read and uploaded.
Installing(n, steps) == Plain("install", "cookbook", n, {}, steps)
SupermarketInstall(n) ==
    Installing(n, <<"check", "connect", "site", "record", "download", "locate", "upload">>)
\* The browser is SupermarketBrowse; credentials are resolved when a cookbook is installed.
SupermarketExplore(n) == Installing(n, <<"connect", "site", "record", "download", "locate", "upload">>)

\* The category a cookbook has already is asked for, before anything is packed.
Sharing(o) ==
    IF "dryRun" \in o THEN <<"check", "pack">>
    ELSE IF "category" \in o THEN <<"check", "profile", "identity", "pack", "upload">>
    ELSE <<"check", "profile", "identity", "category", "pack", "upload">>
SupermarketShare(n, o) == Plain("share", "shared", n, o, Sharing(o))
-----------------------------------------------------------------------------
(* What an invocation can be: the constructors above, with their own flags. *)

IsClientCommand(c, n, o) ==
    \/ c \in {ClientShow(n), ClientDelete(n), ClientList}
    \/ o \subseteq {"file"} /\ c = ClientEdit(n, o)
    \/ o \subseteq {"keyFile", "publicKey"} /\ c = ClientCreate(n, o)
    \/ o \subseteq {"publicKey", "dryRun"} /\ c = NodeBootstrap(n, o)
IsUserCommand(c, n, o) ==
    \/ c \in {UserShow(n), UserList, UserPassword(n)}
    \/ o \subseteq {"file"} /\ c = UserEdit(n, o)
    \/ o \subseteq {"keyFile", "publicKey"} /\ c = UserCreate(n, o)
    \/ o \subseteq {"yes"} /\ c = UserDelete(n, o)
IsKeyCommand(c, owner, n, o) ==
    \/ c \in {KeyList(owner), KeyShow(owner, n), KeyDelete(owner, n)}
    \/ o \subseteq {"keyFile", "publicKey"} /\ c = KeyCreate(owner, n, o)
    \/ o \subseteq {"file", "keyFile"} /\ c = KeyEdit(owner, n, o)
    \/ o \subseteq {"keyFile", "publicKey"} /\ c.verb = "rotate" /\ c = ClientReregister(owner[2], o)
IsRoleCommand(c, n, o) ==
    \/ c \in {RoleShow(n), RoleDelete(n), RoleList}
    \/ o \subseteq {"file"} /\ c \in {RoleCreate(n, o), RoleEdit(n, o)}
IsEnvironmentCommand(c, n, o) ==
    \/ c \in {EnvironmentShow(n), EnvironmentDelete(n), EnvironmentList}
    \/ o \subseteq {"file"} /\ c \in {EnvironmentCreate(n, o), EnvironmentEdit(n, o)}
IsGroupCommand(c, n, o) ==
    \/ c \in {GroupShow(n), GroupCreate(n), GroupDelete(n), GroupList}
    \/ o \subseteq {"file"} /\ c = GroupEdit(n, o)
    \/ c = GroupMemberChange(n, c.verb = "add", c.entries)
IsOrgCommand(c, n, o) ==
    \/ c \in {OrgList, OrgShow(n), OrgDelete(n), OrgMemberList, OrgMemberAdd(n), OrgMemberRemove(n)}
    \/ c \in {OrgInviteList, OrgInviteCreate(n), OrgInviteRescind(n)}
    \/ o \subseteq {"file"} /\ c = OrgEdit(n, o)
    \/ o \subseteq {"keyFile", "publicKey"} /\ c = OrgCreate(n, o)
IsAclCommand(c, object) ==
    \/ c = AclShow(object)
    \/ c.perms \in Seq(Range(AllPerms)) /\ c = AclChange(object, c.verb = "add", c.perms, c.entries)
IsNodeCommand(c, n, o) ==
    \/ c \in {NodeShow(n), NodeDelete(n), NodeList, NodeStatus}
    \/ o \subseteq {"file"} /\ c \in {NodeCreate(n, o), NodeEdit(n, o)}
    \/ o \subseteq {"skipSearch"} /\ c = NodeSSH(o)
    \/ c.verb \in {"add", "remove", "set"} /\ c = NodeListField(c.verb, n, c.entries)
    \/ \E e \in c.entries : c \in {NodeEnvironmentSet(n, e), NodePolicySet(n, e)}
IsBagCommand(c, n) == c \in {DataBagCreate(n), DataBagDelete(n), DataBagList}
IsItemCommand(c, bag, n, o) ==
    \/ c \in {ItemList(bag), ItemShow(bag, n), ItemDelete(bag, n), SecretShow(bag, n)}
    \/ o \subseteq {"file"} /\ c \in {DataBagCreateWithItem(bag, n, o), ItemCreate(bag, n, o), ItemEdit(bag, n, o)}
    \/ o \subseteq {"file", "secret"} /\ c \in {SecretCreate(bag, n, o), SecretEdit(bag, n, o)}
IsCookbookCommand(c, n) ==
    \/ c \in {CookbookDownload(n), CookbookShow(n), CookbookDelete(n), CookbookList}
    \/ c \in {SupermarketInstall(n), SupermarketExplore(n)}
    \/ c.verb = "upload" /\ \E count \in 1..Len(c.steps) : c = CookbookUpload(count)
IsPolicyCommand(c, n) ==
    c \in {PolicyDelete(n), PolicyShow(n), PolicyList, PolicyGroupDelete(n), PolicyGroupShow(n), PolicyGroupList}
IsSharedCommand(c, n, o) ==
    \/ c = SupermarketShow(n)
    \/ o \subseteq {"verbose"} /\ c = SupermarketList(o)
    \/ o \subseteq {"verbose", "query"} /\ c = SupermarketSearch(o)
    \/ o \subseteq {"category", "dryRun"} /\ c = SupermarketShare(n, o)

IsCommand(c) ==
    LET n == c.name  o == c.opts  s == c.scope IN
    \/ c.noun = "client" /\ IsClientCommand(c, n, o)
    \/ c.noun = "user" /\ IsUserCommand(c, n, o)
    \/ c.noun = "key" /\ IsKeyCommand(c, s, n, o)
    \/ c.noun = "role" /\ IsRoleCommand(c, n, o)
    \/ c.noun = "environment" /\ IsEnvironmentCommand(c, n, o)
    \/ c.noun = "group" /\ IsGroupCommand(c, n, o)
    \/ c.noun \in {"org", "member", "invite"} /\ IsOrgCommand(c, n, o)
    \/ c.noun = "acl" /\ IsAclCommand(c, s)
    \/ c.noun = "node" /\ IsNodeCommand(c, n, o)
    \/ c.noun = "databag" /\ IsBagCommand(c, n)
    \/ c.noun = "item" /\ IsItemCommand(c, s, n, o)
    \/ c.noun = "cookbook" /\ IsCookbookCommand(c, n)
    \/ c.noun \in {"policy", "policygroup"} /\ IsPolicyCommand(c, n)
    \/ c.noun = "shared" /\ IsSharedCommand(c, n, o)
    \/ c.verb = "list" /\ o = {"query"} /\ c = Search(c.noun)
=============================================================================
