\* One connection to `serve-ssh 127.0.0.1:2222 workspace_a 'ssh-ed25519 AAAA...
\* agent@example''.
CONSTANTS
  Conns = {c1}
  MaxPipelined = 1
  LastId = 1
  ExecFaults = FALSE
  agentKey = agentKey
  otherKey = otherKey
  agentAtExample = agentAtExample
  NoComment = NoComment
  Keys = {agentKey, otherKey}
  Workspace = workspace_a
  Authorized <- WithComment
SPECIFICATION Spec
INVARIANTS OnlyTheAuthorizedKeyIsAccepted
