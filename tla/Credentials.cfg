SPECIFICATION Spec
CONSTANTS
    ServerUrls = {"serverA", "serverB"}
    SiteUrls = {"bare", "public"}
    Public = "public"
    Runs = {r1, r2}
    Names = {"default", "work"}
    FileSeeds <- CredentialFiles
    ChefSeeds <- KnifeFiles
CHECK_DEADLOCK FALSE
INVARIANTS UpdateIsRight MigrationIsWhole OwnerOnly ChecksAgree
