--------------------------------- MODULE Loops ---------------------------------
(***************************************************************************)
(* The loops around a model and the client they may share: an agent, the   *)
(* coordinator of several, the correcting harness of one, the generation   *)
(* of a LlamacppLLM, the calls of a tool over MCP, and (extended here) the *)
(* configuration of an AIClient.  Each stands alone; MCClients runs one of *)
(* them at a time.                                                         *)
(***************************************************************************)
EXTENDS ClientConfig, Sequences

CONSTANTS
  MaxIterations, MaxCalls, MaxOthers,     \* the agent
  MaxAgents,                              \* the coordinator
  MinScore, MaxScore, MaxCorrections,     \* the harness
  Pieces, Stops,                          \* the generation
  ContextSize, MaxPrompt, MaxNew, MaxPrompts,
  Tools, MaxBatch, None                   \* the calls over MCP

VARIABLES
  agent, mode, mem, pc, iter, memory, stored, conv, todo, open, events, steps, finished, aborted,
  size, stopOnError, passPrevious, cpc, given, results, allFinished,
  hpc, evolution, iterations, corrections, best, succeeded, learned,
  ctx, calls, spent, unpaid, lphase, limit, willing, output, pieces, promptTokens, finishReason,
  registered, body, batched, replies, ran, spans, status

Letters == UNION {{s[i] : i \in DOMAIN s} : s \in Pieces \cup Stops}

(* The bounds are numbers, an answer may name a tool, and what a token or  *)
(* a stop string stands for is a text.                                     *)
ASSUME ClientsAssumption ==
  /\ MaxIterations \in Nat /\ MaxCalls \in Nat \ {0}
  /\ MaxAgents \in Nat
  /\ MinScore \in Nat /\ MaxScore \in Nat /\ MaxCorrections \in Nat
  /\ Pieces \cup Stops \subseteq Seq(Letters)
  /\ ContextSize \in Nat /\ MaxPrompt \in Nat /\ MaxNew \in Nat

(* An id, a status, a method and a text may be missing: None is none.      *)
ASSUME McpAssumption ==
  /\ MaxBatch \in Nat
  /\ None \notin {200, 400, 500} /\ None \notin {"tools/call", "observation", "error", "unknownTool"}

Agent == INSTANCE Agents
Coord == INSTANCE Coordinator
Harn  == INSTANCE Harness
Llama == INSTANCE LlamaCpp WITH MaxCalls <- MaxPrompts
Mcp   == INSTANCE McpRpc

agentVars   == <<agent, mode, mem, pc, iter, memory, stored, conv, todo, open, events, steps, finished, aborted>>
coordVars   == <<size, stopOnError, passPrevious, cpc, given, results, allFinished>>
harnessVars == <<hpc, evolution, iterations, corrections, best, succeeded, learned>>
llamaVars   == <<ctx, calls, spent, unpaid, lphase, limit, willing, output, pieces, promptTokens, finishReason>>
mcpVars     == <<registered, body, batched, replies, ran, spans, status>>
=============================================================================
