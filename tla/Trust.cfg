CONSTANTS
  Root = "R"
  Aud = "x"
  Grant <- Grants
  Token <- Tokens
  Action = {"a", "b"}
  Nonce = {1}
  Call = {1, 2}
  SweepEvery = 1
  MaxClock = 2
  MaxCalls = 3
  MaxRestart = 1
  Proc = {"p", "q", "r"}
  Agent = {"a", "b"}
  MaxEnsure = 3
  MaxDeath = 1
  Holder = {"x", "y", "z"}
  Ring <- Rings
  MinSealN = 2
  Authorising = {"k", "l"}
  MaxKey = 2
  KeyName = {"x", "y"}
  Body = {"b", "c"}
  Scheme = {"mayo", "mayo-5"}
  MemoMax = 1
  Contract = {"A", "B"}
  Gated = {"B"}
  Peer <- Peers
  Coin <- Genesis
  Create = {0, 1}
  Caller = {1, 2}
  MaxFrames = 2
  MaxHostCalls = 2
  Code = {1, 2}
  Kind <- Kinds
  MaxWirings = 5
  Anchor = {a, b}
  MaxWrites = 2
  MaxAdmits = 1
  Faults = TRUE
  Module = {"m", "n"}
  StateKey = {"k", "l"}
  MaxOps = 4
  MaxRestarts = 1
SPECIFICATION Spec
INVARIANTS
  AuthorisedOnce
  IdentityKept
  FundedIsSweepable
  AcceptedAsSigned
  NoMint
  ImportsExact
  ContractsSurvive
  
CHECK_DEADLOCK FALSE
