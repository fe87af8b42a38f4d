-------------------------------- MODULE Vaults --------------------------------
(***************************************************************************)
(* Vaults and their credentials: the rows vault and credential of          *)
(* managed_resources and the routes that write them                        *)
(* (app/routers/generic_resources.py).                                     *)
(*                                                                         *)
(* A route on a credential reads data, changes a part of it and writes it  *)
(* whole at its commit: Begin and End.  Encryption at rest                 *)
(* (app/secret_cipher.py) maps distinct secrets to distinct secrets and is *)
(* left out.                                                               *)
(***************************************************************************)
EXTENDS Integers, FiniteSets

CONSTANTS
  VaultIds,       \* the vaults, which exist from the start
  MaxCredentials, \* bound: create_credential gives the ids 1 .. MaxCredentials, in this order
  AuthTypes,      \* CREDENTIAL_AUTH_TYPES
  Urls,           \* normalized mcp_server_url
  Secrets,        \* values of the keys that is_secret_key names
  VaultClients,   \* HTTP requests on credentials in flight at the same time
  Purged          \* a secret that is null

ASSUME PurgedIsNoSecret == Purged \notin Secrets
ASSUME CredentialBound == MaxCredentials \in Nat

VARIABLES
  vault,          \* the vault rows
  credential,     \* the credential rows
  credReq         \* the requests

vaultVars == <<vault, credential, credReq>>

-----------------------------------------------------------------------------
(* Data. *)

Credentials == 1 .. MaxCredentials

VaultRows == [archived : BOOLEAN, deleted : BOOLEAN]

\* data.auth, normalized: the type, the server and the secrets, which share their fate.
Auths == [type : AuthTypes, url : Urls, secret : Secrets \cup {Purged}]

CredentialRows == [exists : {TRUE}, archived : BOOLEAN, deleted : BOOLEAN, vault : VaultIds, auth : Auths]

NoCredential == [exists |-> FALSE, archived |-> FALSE, deleted |-> FALSE, vault |-> Purged, auth |-> Purged]

\* _must_exist: archived rows exist, deleted ones do not.
VaultFound(v) == ~vault[v].deleted

CredentialFound(k) == credential[k].exists /\ ~credential[k].deleted

\* _validate_session_vault_ids, _validate_deployment_vault_ids.
VaultUsable(v) == ~vault[v].deleted /\ ~vault[v].archived

\* _merge_credential_auth: the type is immutable; a secret that is null in the patch
\* is left as it is.  Empty when the request is answered 422.
MergedAuth(auth, patch) ==
  {[auth EXCEPT !.url = patch.url, !.secret = IF patch.secret = Purged THEN @ ELSE patch.secret] :
     t \in {t \in {auth.type} : t = patch.type}}

\* Mutant: nothing of auth is left.
PurgedAuthWhole(auth) == Purged

\* _purge_credential_secret_data.
PurgedAuth(auth) == [auth EXCEPT !.secret = Purged]

-----------------------------------------------------------------------------
(* Requests. *)

CredentialOps == {"create", "update", "validate", "archive", "delete"}

\* read is the row as it was read, auth what is written, given the secret in the body.
CredentialRequests == [op : CredentialOps, id : Credentials \cup {0},
                       read : CredentialRows \cup {NoCredential}, vault : VaultIds,
                       auth : Auths, given : Secrets \cup {Purged}]

CredentialIdle == [op |-> "none", id |-> 0, read |-> NoCredential, vault |-> Purged, auth |-> Purged,
                   given |-> Purged]

CredentialBegin(c, op, k, row, v, auth, given) ==
  /\ credReq[c].op = "none"
  /\ credReq' = [credReq EXCEPT ![c] =
                   [op |-> op, id |-> k, read |-> row, vault |-> v, auth |-> auth, given |-> given]]
  /\ UNCHANGED <<vault, credential>>

CredentialEnd(c, op) ==
  /\ credReq[c].op = op
  /\ credReq' = [credReq EXCEPT ![c] = CredentialIdle]

\* data is written, with it archived_at and deleted_at if the request sets them.
WriteCredential(c, archived, deleted) ==
  LET k == credReq[c].id IN
    /\ credential' = [credential EXCEPT ![k].auth = credReq[c].auth,
                                        ![k].archived = @ \/ archived,
                                        ![k].deleted = @ \/ deleted]
    /\ UNCHANGED vault

\* An archived vault still takes credentials; their secrets are optional.
BeginCreateCredential(c) ==
  \E v \in VaultIds, type \in AuthTypes, url \in Urls, secret \in Secrets \cup {Purged} :
    /\ VaultFound(v)
    /\ CredentialBegin(c, "create", 0, NoCredential, v, [type |-> type, url |-> url, secret |-> secret], secret)

EndCreateCredential(c) ==
  /\ CredentialEnd(c, "create")
  /\ \E k \in Credentials :
       /\ ~credential[k].exists /\ \A l \in 1 .. k - 1 : credential[l].exists
       /\ credential' = [credential EXCEPT ![k] =
            [exists |-> TRUE, archived |-> FALSE, deleted |-> FALSE,
             vault |-> credReq[c].vault, auth |-> credReq[c].auth]]
  /\ UNCHANGED vault

\* An archived credential is updated as any other.
BeginUpdateCredential(c) ==
  \E k \in Credentials, type \in AuthTypes, url \in Urls, secret \in Secrets \cup {Purged} :
    /\ CredentialFound(k)
    /\ \E auth \in MergedAuth(credential[k].auth, [type |-> type, url |-> url, secret |-> secret]) :
         /\ CredentialBegin(c, "update", k, credential[k], credential[k].vault, auth, secret)

EndUpdateCredential(c) == CredentialEnd(c, "update") /\ WriteCredential(c, FALSE, FALSE)

\* Mutant: a token is refreshed on the way.
BeginValidateRefreshing(c) ==
  \E k \in Credentials, secret \in Secrets :
    /\ CredentialFound(k)
    /\ CredentialBegin(c, "validate", k, credential[k], credential[k].vault,
                       [credential[k].auth EXCEPT !.secret = secret], Purged)

\* validate_credential records its result in data.metadata.
BeginValidateCredential(c) ==
  \E k \in Credentials :
    /\ CredentialFound(k)
    /\ CredentialBegin(c, "validate", k, credential[k], credential[k].vault, credential[k].auth, Purged)

EndValidateCredential(c) == CredentialEnd(c, "validate") /\ WriteCredential(c, FALSE, FALSE)

BeginCloseCredential(c) ==
  \E k \in Credentials, op \in {"archive", "delete"} :
    /\ CredentialFound(k)
    /\ CredentialBegin(c, op, k, credential[k], credential[k].vault, PurgedAuth(credential[k].auth), Purged)

EndArchiveCredential(c) == CredentialEnd(c, "archive") /\ WriteCredential(c, TRUE, FALSE)

EndDeleteCredential(c) == CredentialEnd(c, "delete") /\ WriteCredential(c, FALSE, TRUE)

\* Neither touches the credentials of the vault.
ArchiveVault ==
  \E v \in VaultIds :
    /\ VaultFound(v)
    /\ vault' = [vault EXCEPT ![v].archived = TRUE]
    /\ UNCHANGED <<credential, credReq>>

DeleteVault ==
  \E v \in VaultIds :
    /\ VaultFound(v)
    /\ vault' = [vault EXCEPT ![v].deleted = TRUE]
    /\ UNCHANGED <<credential, credReq>>

VaultsInit ==
  /\ vault = [v \in VaultIds |-> [archived |-> FALSE, deleted |-> FALSE]]
  /\ credential = [k \in Credentials |-> NoCredential]
  /\ credReq = [c \in VaultClients |-> CredentialIdle]

VaultsNext ==
  \/ \E c \in VaultClients : BeginCreateCredential(c)
  \/ \E c \in VaultClients : EndCreateCredential(c)
  \/ \E c \in VaultClients : BeginUpdateCredential(c)
  \/ \E c \in VaultClients : EndUpdateCredential(c)
  \/ \E c \in VaultClients : BeginValidateCredential(c)
  \/ \E c \in VaultClients : EndValidateCredential(c)
  \/ \E c \in VaultClients : BeginCloseCredential(c)
  \/ \E c \in VaultClients : EndArchiveCredential(c)
  \/ \E c \in VaultClients : EndDeleteCredential(c)
  \/ ArchiveVault
  \/ DeleteVault

VaultsSpec == VaultsInit /\ [][VaultsNext]_vaultVars

-----------------------------------------------------------------------------
(* Properties. *)

\* Rows and requests have their types.
VaultsTypeOK ==
  /\ vault \in [VaultIds -> VaultRows]
  /\ credential \in [Credentials -> CredentialRows \cup {NoCredential}]
  /\ credReq \in [VaultClients -> CredentialRequests \cup {CredentialIdle}]

\* Secrets that an archive or a delete has purged come back in two ways only: a request
\* that read the row before the purge writes it back, or an update brings new ones.
PurgeIsUndoneOnlyBy ==
  [][\A k \in Credentials : credential[k].exists /\ credential[k].auth.secret = Purged
                              /\ credential'[k].auth.secret # Purged =>
       \E c \in VaultClients :
         /\ credReq[c].id = k /\ credReq'[c].op = "none"
         /\ credReq[c].read.auth.secret # Purged
              \/ (credReq[c].op = "update" /\ credReq[c].given = credential'[k].auth.secret)]_vaultVars
=============================================================================
