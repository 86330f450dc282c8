------------------------------ MODULE ServeSsh ------------------------------
(***************************************************************************)
(* `flarenvd serve-ssh <addr> <workspace-id> <authorized-key>' (main.rs):  *)
(* the server of SshServer over the control plane and the allow list that  *)
(* main builds for it, and clients that offer one key or another.          *)
(*                                                                         *)
(* A line in OpenSSH's format is a record: a key, and the comment that may *)
(* follow it in the text.                                                  *)
(***************************************************************************)
EXTENDS Naturals, Sequences, Maps

CONSTANTS
  Conns, MaxPipelined, LastId, ExecFaults, \* as in SshServer
  Keys,      \* the keys of the clients
  NoComment, \* the comment of a line that ends with its key
  Workspace, \* <workspace-id>
  Authorized \* <authorized-key>, as it is typed

VARIABLES
  link, authed, inbox, handler, id, waiters, counter, since, \* as in SshServer
  offers     \* history: of every connection, the keys it offered and the answers

server == <<link, authed, inbox, handler, id, waiters, counter, since>>
vars == <<server, offers>>

-----------------------------------------------------------------------------
(* AllowListAuthorizer.                                                    *)

\* The workspaces of a principal, a text, that is granted one more.
Grant(grants, principal, workspace) ==
  Put(grants, principal,
      {workspace} \cup (IF principal \in DOMAIN grants THEN grants[principal] ELSE {}))

CanOpen(grants, principal, workspace) ==
  principal \in DOMAIN grants /\ workspace \in grants[principal]

\* main: the text of the command line is the principal.
Grants == Grant(EmptyMap, Authorized, Workspace)

\* ssh_key's PublicKey::to_openssh. The wire carries a key and no comment.
ToOpenssh(key) == [key |-> key, comment |-> NoComment]

-----------------------------------------------------------------------------
\* ControlPlane::new, which main calls: nothing is loaded.
Metadata == EmptyMap

Server == INSTANCE SshServer WITH Serves <- Workspace \in DOMAIN Metadata

Init == Server!Init /\ offers = [c \in Conns |-> {}]

\* auth_publickey: the principal is the key the client proves to have.
AuthPublickey(c, key) ==
  LET accepted == CanOpen(Grants, ToOpenssh(key), Workspace)
  IN  /\ link[c] = "up"
      /\ handler[c] = "idle"
      /\ ~authed[c]
      /\ \/ accepted /\ Server!AuthPublickey(c)
         \/ ~accepted /\ UNCHANGED server
      /\ offers' = [offers EXCEPT ![c] = @ \cup {[key |-> key, accepted |-> accepted]}]

\* A new handler for a new client.
NewClient(c) ==
  /\ Server!NewClient(c)
  /\ offers' = [offers EXCEPT ![c] = {}]

\* Whatever else happens to a connection.
Other(c) ==
  /\ \/ Server!Request(c)
     \/ Server!Leave(c)
     \/ Server!TimeOut(c)
     \/ Server!Server(c)
  /\ UNCHANGED offers

Next ==
  \E c \in Conns : NewClient(c) \/ (\E key \in Keys : AuthPublickey(c, key)) \/ Other(c)

Spec == Init /\ [][Next]_vars

-----------------------------------------------------------------------------
(* Properties.                                                             *)

\* The client that has the key of the command line is let in, and nobody else
\* is. README.md:26 starts the server with a line whose key is followed by a
\* comment: main.rs:84 grants the workspace to the whole line, ssh_wire.rs:172
\* asks for the line without the comment.
OnlyTheAuthorizedKeyIsAccepted ==
  \A c \in Conns : \A offer \in offers[c] :
    offer.accepted <=> offer.key = Authorized.key
=============================================================================
