------------------------------ MODULE Profiles ------------------------------
(***************************************************************************)
(* Credentials profiles (cli/config/config.go, cli/setup/migrate.go): how   *)
(* an entry of the TOML file is read, checked and rewritten.               *)
(*                                                                         *)
(* An entry is a function on the keys it has.  client_name and client_key   *)
(* come and go together and are the key "client"; the keys that no prompt   *)
(* asks for (secret_file, trusted_certs_dir, the Supermarket identity) are  *)
(* "secret_file"; what cinc does not know of is "node_name".  Unset is "".  *)
(***************************************************************************)
EXTENDS FiniteSets

CONSTANTS ServerUrls, \* URLs that name a server and an organization
          SiteUrls,   \* other URLs
          Public      \* the URL of the public Supermarket, one of SiteUrls

Unset == ""
ASSUME UrlsAssumption == Unset \notin ServerUrls /\ Public \notin ServerUrls \cup {Unset}
ManagedKeys == {"cinc_server_url", "chef_server_url", "supermarket_site", "client",
                "ssl_verify_mode", "secret_file"}
Foreign == "node_name"
Get(entry, key) == IF key \in DOMAIN entry THEN entry[key] ELSE Unset
IsServerUrl(url) == url \in ServerUrls
IsSiteUrl(url) == url \in ServerUrls \cup SiteUrls

ServerUrl(entry) ==
    LET cinc == Get(entry, "cinc_server_url") IN IF cinc # Unset THEN cinc ELSE Get(entry, "chef_server_url")

\* resolveProfile: a URL that does not parse is kept as it was written.
Resolve(entry) ==
    [server |-> IF IsServerUrl(ServerUrl(entry)) THEN ServerUrl(entry) ELSE Unset,
     raw |-> ServerUrl(entry),
     site |-> Get(entry, "supermarket_site"), client |-> Get(entry, "client"),
     ssl |-> Get(entry, "ssl_verify_mode"), secret |-> Get(entry, "secret_file")]
NoProfile == Resolve([key \in {} |-> Unset])

\* NewProfile: a URL that is no server's is taken for a Supermarket's.
NewProfileFails(url, site, client) ==
    \/ client = Unset
    \/ url # Unset /\ ~IsServerUrl(url) /\ (site # Unset \/ ~IsSiteUrl(url))
NewProfile(url, site, client, ssl) ==
    [NoProfile EXCEPT !.server = IF IsServerUrl(url) THEN url ELSE Unset,
                      !.site = IF url # Unset /\ ~IsServerUrl(url) THEN url ELSE site,
                      !.client = client, !.ssl = ssl]

\* The mutation of config create: the keys the prompts do not cover stay.
Answered(profile, a) == [NewProfile(a.url, a.site, a.client, a.ssl) EXCEPT !.secret = profile.secret]

\* WriteProfileWithExtras: managed keys are set or cleared, chef_server_url only
\* follows where it was; the rest is carried across.
Managed(p) ==
    [cinc_server_url |-> IF p.server = Unset THEN p.raw ELSE p.server,
     supermarket_site |-> p.site, client |-> p.client, ssl_verify_mode |-> p.ssl, secret_file |-> p.secret]
RewrittenCincOnly(entry, p, extra) ==                                     \* mutant
    LET managed == Managed(p)
        set == {key \in DOMAIN managed : managed[key] # Unset}
        others == (DOMAIN entry \cup DOMAIN extra) \ ManagedKeys
    IN  [key \in set \cup others \cup (DOMAIN entry \cap {"chef_server_url"}) |->
            IF key \in set THEN managed[key]
            ELSE IF key \in others /\ key \in DOMAIN extra THEN extra[key] ELSE entry[key]]
Rewritten(entry, p, extra) ==
    LET managed == Managed(p)
        url == managed.cinc_server_url
        set == {key \in DOMAIN managed : managed[key] # Unset}
        others == (DOMAIN entry \cup DOMAIN extra) \ ManagedKeys
    IN  [key \in set \cup others \cup (DOMAIN entry \cap {"chef_server_url"}) |->
            IF key \in set THEN managed[key]
            ELSE IF key = "chef_server_url" /\ url # Unset THEN url
            ELSE IF key \in others /\ key \in DOMAIN extra THEN extra[key] ELSE entry[key]]
-----------------------------------------------------------------------------
(* Migration of a knife file                                               *)

\* A server URL without an organization must not become a Supermarket site.
OrglessOf(entry) == IF IsServerUrl(ServerUrl(entry)) THEN Unset ELSE ServerUrl(entry)
ParsedUrl(entry) == IF IsServerUrl(ServerUrl(entry)) THEN ServerUrl(entry) ELSE Unset
Unmigratable(entry) == NewProfileFails(ParsedUrl(entry), Get(entry, "supermarket_site"), Get(entry, "client"))
MigratedAsSite(entry) ==                                                  \* mutant
    [NewProfile(ServerUrl(entry), Get(entry, "supermarket_site"), Get(entry, "client"), Get(entry, "ssl_verify_mode"))
        EXCEPT !.secret = Get(entry, "secret_file")]
Migrated(entry) ==
    [NewProfile(ParsedUrl(entry), Get(entry, "supermarket_site"), Get(entry, "client"), Get(entry, "ssl_verify_mode"))
        EXCEPT !.raw = OrglessOf(entry), !.secret = Get(entry, "secret_file")]
-----------------------------------------------------------------------------
(* Checks                                                                  *)

VerifyPeer == ":verify_peer"
SslModes == {VerifyPeer, ":verify_none"}

\* validateProfile: the fields with an issue.
Issues(p) ==
    LET wrong == [client |-> p.client = Unset,
                  endpoint |-> p.server = Unset /\ p.raw = Unset /\ p.site = Unset,
                  cinc_server_url |-> p.raw # Unset /\ p.server = Unset,
                  supermarket_site |-> p.site # Unset /\ ~IsSiteUrl(p.site),
                  ssl_verify_mode |-> p.ssl # Unset /\ p.ssl \notin SslModes]
    IN  {field \in DOMAIN wrong : wrong[field]}

\* Profile.Validate and client.New: whether a command gets a client for the profile,
\* given what else is on the machine.
Connects(p) == p.client # Unset /\ p.server # Unset
Machines == [key : BOOLEAN, dirs : SUBSET {"configured", "cinc", "chef"}, server : BOOLEAN, site : BOOLEAN]

\* ResolveTrustedCertsDir: trusted_certs_dir has to be there, the others may be.
TrustedDir(p, machine) ==
    IF p.secret # Unset THEN "configured"
    ELSE IF "cinc" \in machine.dirs THEN "cinc" ELSE IF "chef" \in machine.dirs THEN "chef" ELSE "none"
TrustedCertsFail(p, machine) == TrustedDir(p, machine) \notin machine.dirs \cup {"none"}
Opens(p, machine) == Connects(p) /\ machine.key /\ ~TrustedCertsFail(p, machine)

\* profileChecks: the checks that apply and do not pass.  Each network check has a
\* deadline of its own, so they fail independently.
FailedChecksLax(p, machine) ==                                            \* mutant
    LET fails == [client |-> p.client = Unset,
                  endpoint |-> p.raw = Unset /\ p.site = Unset,
                  siteUrl |-> p.site # Unset /\ ~IsSiteUrl(p.site),
                  ssl |-> p.ssl # Unset /\ p.ssl \notin SslModes,
                  certs |-> TrustedCertsFail(p, machine),
                  key |-> p.client # Unset /\ ~machine.key,
                  server |-> p.server # Unset /\ (~Opens(p, machine) \/ ~machine.server),
                  site |-> p.site # Unset /\ ~machine.site]
    IN  {check \in DOMAIN fails : fails[check]}
FailedChecks(p, machine) ==
    LET fails == [client |-> p.client = Unset,
                  endpoint |-> p.raw = Unset /\ p.site = Unset,
                  serverUrl |-> p.raw # Unset /\ ~IsServerUrl(p.raw),
                  siteUrl |-> p.site # Unset /\ ~IsSiteUrl(p.site),
                  ssl |-> p.ssl # Unset /\ p.ssl \notin SslModes,
                  certs |-> TrustedCertsFail(p, machine),
                  key |-> p.client # Unset /\ ~machine.key,
                  server |-> p.server # Unset /\ (~Opens(p, machine) \/ ~machine.server),
                  site |-> p.site # Unset /\ ~machine.site]
    IN  {check \in DOMAIN fails : fails[check]}

\* selectSupermarketProfile, given the profile asked for, if any.
SupermarketProfile(file, asked) ==
    IF asked # Unset THEN asked ELSE IF "supermarket" \in DOMAIN file THEN "supermarket" ELSE "default"
=============================================================================
