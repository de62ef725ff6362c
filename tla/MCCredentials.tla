--------------------------- MODULE MCCredentials ---------------------------
(***************************************************************************)
(* Instances of Credentials for TLC.                                       *)
(***************************************************************************)
EXTENDS Credentials

Knife == [chef_server_url |-> "serverA", client |-> "old", node_name |-> "n1", secret_file |-> "s1"]
Orgless == [chef_server_url |-> "bare", client |-> "old", ssl_verify_mode |-> ":verify_none"]
Market == [supermarket_site |-> "public", client |-> "old"]
NoClient == [chef_server_url |-> "serverA"]
OddSsl == [cinc_server_url |-> "serverA", chef_server_url |-> "bare", client |-> "old", ssl_verify_mode |-> "none"]

Held(profiles) == [NoFile EXCEPT !.exists = TRUE, !.mode = "0644", !.profiles = profiles]
CredentialFiles == {NoFile, [Held(NoFile.profiles) EXCEPT !.garbled = TRUE],
                    Held([default |-> Knife, work |-> Market]), Held([default |-> OddSsl])}
KnifeFiles == {NoFile, [Held(NoFile.profiles) EXCEPT !.garbled = TRUE],
               Held([default |-> Knife, work |-> Orgless]), Held([default |-> NoClient, work |-> Knife])}
=============================================================================
