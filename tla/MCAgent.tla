------------------------------- MODULE MCAgent -------------------------------
(***************************************************************************)
(* Parts of the agent process that share no variable: the delivery of a    *)
(* reply, the inside of turns, the memory store, the sampler and the life  *)
(* of the process.  One run explores each by itself, as `scope` says.      *)
(***************************************************************************)
EXTENDS TelegramDelivery, Turn, MemoryStore, Sampler, Lifecycle

VARIABLE scope
agentVars == <<vars, turnVars, memoryVars, samplerVars, lifeVars, scope>>

MCSeeds == <<2>>
MCNamespaces == <<2, 1, 1>>

MCInit ==
  /\ scope \in {"delivery", "turn", "memory", "sampler", "lifecycle"}
  /\ Init /\ TurnInit /\ MemoryInit /\ SamplerInit /\ LifecycleInit
  /\ scope # "delivery" => pc = "turn"

Delivery(A) ==
  scope = "delivery" /\ A /\ UNCHANGED <<turnVars, memoryVars, samplerVars, lifeVars, scope>>
Life(A) ==
  scope = "lifecycle" /\ A /\ UNCHANGED <<vars, turnVars, memoryVars, samplerVars, scope>>

MCNext ==
  \/ Delivery(Next)
  \/ scope = "turn" /\ TurnNext /\ UNCHANGED <<vars, memoryVars, samplerVars, lifeVars, scope>>
  \/ scope = "memory" /\ MemoryNext /\ UNCHANGED <<vars, turnVars, samplerVars, lifeVars, scope>>
  \/ scope = "sampler" /\ SamplerNext /\ UNCHANGED <<vars, turnVars, memoryVars, lifeVars, scope>>
  \/ Life(LifecycleNext)

\* The fairness of TelegramDelivery's FairSpec and of LifecycleSpec.
MCSpec ==
  /\ MCInit /\ [][MCNext]_agentVars
  /\ WF_agentVars(Delivery(TurnReturns \/ TurnRaises))
  /\ WF_agentVars(Delivery(TypingAwaited)) /\ WF_agentVars(Delivery(Send))
  /\ WF_agentVars(Delivery(ActionSent)) /\ WF_agentVars(Delivery(Woken))
  /\ WF_agentVars(Life(Stopping))
  /\ \A i \in 1..MaxWork : WF_agentVars(Life(i \in DOMAIN work /\ (TakeUpdate(i) \/ EndWork(i))))

(***************************************************************************)
(* A handler ends, where the delivery is what the run follows, and a       *)
(* process that was told to stop does (HandlerEnds, StopEnds).             *)
(***************************************************************************)
AgentEnds == (scope = "delivery" => HandlerEnds) /\ StopEnds

(***************************************************************************)
(* The inductive invariants that the proofs about the parts rest on, each  *)
(* with the part's types.                                                  *)
(***************************************************************************)
AgentInv == DInv /\ TurnInv /\ MemoryInv /\ ListInv /\ SamplerInv /\ LifeInv
=============================================================================
