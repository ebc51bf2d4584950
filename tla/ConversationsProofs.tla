------------------------- MODULE ConversationsProofs -------------------------
(***************************************************************************)
(* Conversations: its types, that a reset separates, and the order in      *)
(* which Telegram's queue has the turns of a chat begin and end, for any   *)
(* chats on either platform and any number of messages, resets, jobs and   *)
(* crashes.                                                                *)
(***************************************************************************)
EXTENDS Conversations, SequenceTheorems, FiniteSetTheorems, TLAPS

\* The log as a sequence of events.
LEMMA LogFacts ==
  ASSUME log \in Seq(Event)
  PROVE  /\ Len(log) \in Nat
         /\ log = [e \in Events |-> log[e]]
         /\ \A e \in Events : log[e] \in Event
BY LenProperties, ElementOfSeq DEF Events

\* One event takes a step.
LEMMA LogStep ==
  ASSUME log \in Seq(Event), NEW e \in Events, NEW x \in Event,
         log' = [log EXCEPT ![e] = x]
  PROVE  /\ log' \in Seq(Event) /\ Len(log') = Len(log) /\ Events' = Events
         /\ \A i \in Events : log'[i] = IF i = e THEN x ELSE log[i]
<1>1. e \in 1..Len(log)
  BY DEF Events
<1> QED BY <1>1, ExceptSeq DEF Events

LEMMA OverFinite ==
  ASSUME log \in Seq(Event), NEW c \in Chats
  PROVE  /\ IsFiniteSet(ResetsOver(c))
         /\ Cardinality(ResetsOver(c)) \in Nat
         /\ Cardinality(ResetsOver(c)) <= Len(log)
<1>1. Len(log) \in Nat
  BY LogFacts
<1>2. IsFiniteSet(1..Len(log)) /\ Cardinality(1..Len(log)) = Len(log)
  BY <1>1, FS_Interval
<1>3. ResetsOver(c) \in SUBSET (1..Len(log))
  BY DEF ResetsOver, OfChat, Events
<1> QED BY <1>2, <1>3, FS_Subset, FS_CardinalityType

\* An epoch that stays is bounded by the resets that stay over.
LEMMA OverGrows ==
  ASSUME log \in Seq(Event), log' \in Seq(Event), NEW c \in Chats,
         ResetsOver(c) \subseteq ResetsOver(c)'
  PROVE  /\ Cardinality(ResetsOver(c)) \in Nat /\ Cardinality(ResetsOver(c)') \in Nat
         /\ Cardinality(ResetsOver(c)) <= Cardinality(ResetsOver(c)')
         /\ IsFiniteSet(ResetsOver(c)')
         /\ Cardinality(ResetsOver(c)') <= Len(log')
<1>1. Len(log') \in Nat
  BY LenProperties
<1>2. /\ IsFiniteSet(1..Len(log'))
      /\ Cardinality(1..Len(log')) = Len(log')
  <2> DEFINE n == Len(log')
  <2>1. n \in Nat
    BY <1>1
  <2> HIDE DEF n
  <2>2. IsFiniteSet(1..n) /\ Cardinality(1..n) = n
    BY <2>1, FS_Interval
  <2> QED BY <2>2 DEF n
<1>3. ResetsOver(c)' \in SUBSET (1..Len(log'))
  BY DEF ResetsOver, OfChat, Events
<1>4. IsFiniteSet(ResetsOver(c)') /\ Cardinality(ResetsOver(c)') <= Len(log')
  BY <1>2, <1>3, FS_Subset
<1> QED BY <1>4, OverFinite, FS_Subset, FS_CardinalityType

LEMMA BoundedKept ==
  ASSUME CInv, log' \in Seq(Event), UNCHANGED epoch,
         \A c \in Chats : ResetsOver(c) \subseteq ResetsOver(c)'
  PROVE  Bounded'
<1> SUFFICES ASSUME NEW c \in Chats PROVE epoch[c] <= Cardinality(ResetsOver(c)')
  BY DEF Bounded
<1>1. epoch[c] \in Int /\ epoch[c] <= Cardinality(ResetsOver(c)) /\ log \in Seq(Event)
  BY ConversationsAssumption DEF CInv, TypeOK, Bounded, Epochs, NoRow
<1> QED BY <1>1, OverGrows

LEMMA InitCInv == Init => CInv
<1> SUFFICES ASSUME Init PROVE CInv
  OBVIOUS
<1>1. log = <<>> /\ Events = {} /\ Len(log) = 0
  BY DEF Init, Events
<1>2. TypeOK
  BY <1>1, ConversationsAssumption DEF Init, TypeOK, Epochs, History
<1>3. Bounded
  <2> SUFFICES ASSUME NEW c \in Chats PROVE epoch[c] <= Cardinality(ResetsOver(c))
    BY DEF Bounded
  <2>1. Cardinality(ResetsOver(c)) \in Nat
    BY <1>2, OverFinite DEF TypeOK
  <2> QED BY <2>1 DEF Init, NoRow
<1>4. Apart
  BY <1>1 DEF Apart, Init
<1> QED BY <1>1, <1>2, <1>3, <1>4 DEF CInv, Threaded, CutOff, UnderWay

-----------------------------------------------------------------------------
(***************************************************************************)
(* Steps by the parts of the log they leave alone: an event of the log     *)
(* keeps its chat, kind, thread and cut, and one just added has none.      *)
(***************************************************************************)
Steady ==
  /\ log' \in Seq(Event)
  /\ Events \subseteq Events'
  /\ \A e \in Events : /\ log'[e].chat = log[e].chat /\ log'[e].kind = log[e].kind
                       /\ log'[e].thread = log[e].thread /\ log'[e].cut = log[e].cut
  /\ \A e \in Events' \ Events :
       /\ log'[e].pc \in {"queued", "called"}
       /\ log'[e].thread = NoRow /\ log'[e].saw = {} /\ log'[e].cut = {}

\* A stage is left for a later one.
Onward(e) ==
  \/ log'[e].pc = log[e].pc
  \/ log'[e].pc \in {"ended"} \cup Over
  \/ log'[e].pc \in UnderWay /\ log[e].pc \in {"keyed"} \cup UnderWay
  \/ log'[e].pc = "called" /\ log[e].pc = "queued"

LEMMA CutOffKept ==
  ASSUME CInv, Steady, UNCHANGED epoch
  PROVE  CutOff'
<1>1. \A r \in Events' : \A f \in log'[r].cut :
        r \in Events /\ f \in log[r].cut /\ f \in Events
  BY DEF Steady, CInv, CutOff
<1>2. ASSUME NEW r \in Events, NEW f \in log[r].cut, NEW e \in Events', log'[e].chat = log[r].chat,
             e \notin log[r].cut, log'[e].thread # NoRow
      PROVE  log[f].thread < log'[e].thread
  <2>1. e \in Events
    BY <1>2 DEF Steady
  <2>2. log[e].thread # NoRow /\ log[e].thread = log'[e].thread /\ e \in OfChat(log[r].chat) \ log[r].cut
    BY <2>1, <1>2 DEF Steady, OfChat
  <2> QED BY <2>2, <1>2 DEF CInv, CutOff
<1>3. ASSUME NEW r \in Events, NEW f \in log[r].cut
      PROVE  /\ f \in Events' /\ log'[f].chat = log[r].chat /\ log'[f].thread # NoRow
             /\ log'[f].thread < epoch'[log[r].chat]
             /\ log'[f].thread = log[f].thread /\ log'[r].chat = log[r].chat
             /\ log'[r].cut = log[r].cut
  <2>1. f \in Events /\ f \in Events'
    BY <1>1, <1>3 DEF Steady, CInv, CutOff
  <2> QED BY <2>1, <1>3 DEF Steady, CInv, CutOff
<1> QED BY <1>1, <1>2, <1>3 DEF CutOff, OfChat

LEMMA BoundedAndThreadedKept ==
  ASSUME CInv, Steady, \A e \in Events : Onward(e), UNCHANGED epoch
  PROVE  Bounded' /\ Threaded'
<1>1. \A d \in Chats : ResetsOver(d) \subseteq ResetsOver(d)'
  BY DEF ResetsOver, OfChat, IsTurn, Steady, Onward, Over, UnderWay
<1>2. Bounded'
  BY <1>1, BoundedKept DEF Steady
<1>3. Threaded'
  <2> SUFFICES ASSUME NEW e \in Events'
               PROVE  /\ log'[e].pc \in {"queued", "called"} => log'[e].thread = NoRow
                      /\ log'[e].pc \in {"keyed"} \cup UnderWay => log'[e].thread # NoRow
                      /\ log'[e].thread # NoRow =>
                           log'[e].kind # "reset" /\ log'[e].thread <= epoch'[log'[e].chat]
    BY DEF Threaded, IsTurn, UnderWay
  <2>1. CASE e \in Events
    BY <2>1 DEF CInv, Threaded, IsTurn, Steady, Onward, Over, UnderWay
  <2>2. CASE e \notin Events
    BY <2>2 DEF Steady, UnderWay
  <2> QED BY <2>1, <2>2
<1> QED BY <1>2, <1>3

\* What is saved or seen is of its own thread.
LEMMA ApartKept ==
  ASSUME CInv, Steady,
         \A t \in Chats \X Epochs : \A m \in saved'[t] :
            m \in saved[t] \/ (m[1] \in Events /\ Thread(m[1]) = t),
         \A e \in Events : \A m \in log'[e].saw :
            m \in log[e].saw \/ (m[1] \in Events /\ log[e].thread # NoRow
                                   /\ Thread(m[1]) = Thread(e))
  PROVE  Apart'
<1>1. \A e \in Events : Thread(e)' = Thread(e)
  BY DEF Thread, Steady
<1>2. \A t \in Chats \X Epochs : \A m \in saved'[t] : m[1] \in Events' /\ Thread(m[1])' = t
  BY <1>1 DEF CInv, Apart, Steady
<1>3. ASSUME NEW e \in Events', NEW m \in log'[e].saw
      PROVE  m[1] \in Events' /\ log'[e].thread # NoRow /\ Thread(m[1])' = Thread(e)'
  <2>1. e \in Events
    BY <1>3 DEF Steady
  <2> QED BY <1>1, <2>1, <1>3 DEF CInv, Apart, Steady
<1> QED BY <1>2, <1>3 DEF Apart

\* Steps that neither save nor load.
LEMMA PlainStep ==
  ASSUME CInv, Steady, Len(log') <= MaxEvents, \A e \in Events : Onward(e),
         \A e \in Events : log'[e].saw = log[e].saw,
         UNCHANGED <<epoch, saved>>, crashes' \in 0..MaxCrashes
  PROVE  CInv'
<1>1. TypeOK'
  BY DEF CInv, TypeOK, Steady
<1>2. Apart'
  BY ApartKept
<1> QED BY <1>1, <1>2, BoundedAndThreadedKept, CutOffKept DEF CInv

LEMMA ArriveCInv ==
  ASSUME CInv, NEW c \in Chats, NEW kind \in {"message", "reset", "job"}, Arrive(c, kind)
  PROVE  CInv'
<1>1. PICK x \in Event : /\ log' = Append(log, x) /\ x.pc \in {"queued", "called"}
                         /\ x.thread = NoRow /\ x.saw = {} /\ x.cut = {}
  <2> DEFINE x == [chat |-> c, kind |-> kind,
                   pc |-> IF c \in Serial /\ kind # "job" THEN "queued" ELSE "called",
                   thread |-> NoRow, saw |-> {}, beside |-> {}, ok |-> FALSE,
                   after |-> {e \in OfChat(c) : log[e].pc = "replied"},
                   cut |-> {}]
  <2>1. x.after \subseteq 1..MaxEvents
    BY ConversationsAssumption, LogFacts DEF CInv, TypeOK, OfChat, Events
  <2>2. x \in Event
    BY <2>1 DEF Event, Stage, Waiting, UnderWay, Over, History
  <2> QED BY <2>2 DEF Arrive
<1>2. log \in Seq(Event) /\ Len(log) \in Nat /\ Len(log) < MaxEvents
  BY LogFacts DEF CInv, TypeOK, Arrive
<1>3. /\ log' \in Seq(Event) /\ Len(log') = Len(log) + 1
      /\ log'[Len(log) + 1] = x
      /\ \A i \in Events : log'[i] = log[i]
  BY <1>1, <1>2 DEF Events
<1>4. Events' = Events \cup {Len(log) + 1}
  BY <1>2, <1>3 DEF Events
<1>5. Steady
  BY <1>1, <1>3, <1>4 DEF Steady
<1>6. Len(log') <= MaxEvents
  BY <1>2, <1>3, ConversationsAssumption
<1>7. /\ \A e \in Events : Onward(e) /\ log'[e].saw = log[e].saw
      /\ UNCHANGED <<epoch, saved>> /\ crashes' \in 0..MaxCrashes
  BY <1>3 DEF Onward, Arrive, CInv, TypeOK, UnderWay
<1> QED BY <1>5, <1>6, <1>7, PlainStep

\* Take, Fail and Reply change nothing but the stage.
LEMMA StageStep ==
  ASSUME CInv, NEW e \in Events, NEW pc \in {"called", "ended"} \cup Over,
         pc = "called" => log[e].pc = "queued",
         log' = [log EXCEPT ![e].pc = pc], UNCHANGED <<epoch, saved, crashes>>
  PROVE  CInv'
<1> DEFINE x == [log[e] EXCEPT !.pc = pc]
<1>1. log \in Seq(Event) /\ log[e] \in Event
  BY LogFacts DEF CInv, TypeOK
<1>2. x \in Event /\ x.pc = pc /\ x.chat = log[e].chat /\ x.kind = log[e].kind
      /\ x.thread = log[e].thread /\ x.saw = log[e].saw /\ x.cut = log[e].cut
  BY <1>1 DEF Event, Stage, Waiting, UnderWay, Over
<1>3. log' = [log EXCEPT ![e] = x]
  BY <1>1
<1> HIDE DEF x
<1>4. /\ log' \in Seq(Event) /\ Len(log') = Len(log) /\ Events' = Events
      /\ \A i \in Events : log'[i] = IF i = e THEN x ELSE log[i]
  BY <1>1, <1>2, <1>3, LogStep
<1>5. Steady
  BY <1>2, <1>4 DEF Steady
<1>6. \A i \in Events : Onward(i) /\ log'[i].saw = log[i].saw
  BY <1>2, <1>4 DEF Onward, UnderWay
<1> QED BY <1>4, <1>5, <1>6, PlainStep DEF CInv, TypeOK

LEMMA CrashCInv ==
  ASSUME CInv, Crash
  PROVE  CInv'
<1>1. log \in Seq(Event) /\ Len(log) \in Nat /\ \A e \in Events : log[e] \in Event
  BY LogFacts DEF CInv, TypeOK
<1> DEFINE x(e) == IF log[e].pc \in Over THEN log[e] ELSE [log[e] EXCEPT !.pc = "lost"]
<1>2. \A e \in Events : /\ x(e) \in Event
                        /\ x(e).pc = log[e].pc \/ x(e).pc = "lost"
                        /\ x(e).chat = log[e].chat /\ x(e).kind = log[e].kind
                        /\ x(e).thread = log[e].thread /\ x(e).saw = log[e].saw
                        /\ x(e).cut = log[e].cut
  BY <1>1 DEF Event, Stage, Waiting, UnderWay, Over
<1>3. log' = [e \in Events |-> x(e)]
  BY DEF Crash
<1> HIDE DEF x
<1>4. log' \in Seq(Event) /\ Len(log') = Len(log)
  <2>1. log' \in [1..Len(log) -> Event]
    BY <1>2, <1>3 DEF Events
  <2> QED BY <1>1, <2>1
<1>5. Events' = Events /\ \A e \in Events : log'[e] = x(e)
  BY <1>3, <1>4 DEF Events
<1>6. Steady
  BY <1>2, <1>4, <1>5 DEF Steady
<1>7. \A e \in Events : Onward(e) /\ log'[e].saw = log[e].saw
  BY <1>2, <1>5 DEF Onward, Over, UnderWay
<1>8. crashes' \in 0..MaxCrashes
  BY ConversationsAssumption DEF Crash, CInv, TypeOK
<1>9. UNCHANGED <<epoch, saved>> /\ Len(log') <= MaxEvents
  BY <1>4 DEF Crash, CInv, TypeOK
<1> QED BY <1>6, <1>7, <1>8, <1>9, PlainStep

\* The turn sees what its thread holds.
LEMMA LoadThreadCInv ==
  ASSUME CInv, NEW e \in Events, LoadThread(e)
  PROVE  CInv'
<1> DEFINE x == [log[e] EXCEPT !.pc = "loaded", !.saw = saved[Thread(e)],
                               !.beside = Running(Thread(e))]
<1>1. log \in Seq(Event) /\ log[e] \in Event /\ e \in 1..MaxEvents
  BY LogFacts, ConversationsAssumption DEF CInv, TypeOK, Events
<1>2. Thread(e) \in Chats \X Epochs
  BY <1>1 DEF LoadThread, CInv, Threaded, Thread, Event, UnderWay
<1>3. saved[Thread(e)] \in History /\ Running(Thread(e)) \in SUBSET (1..MaxEvents)
  <2>1. Running(Thread(e)) \subseteq Events /\ Events \subseteq 1..MaxEvents
    BY <1>1, LogFacts, ConversationsAssumption DEF Running, Events, CInv, TypeOK
  <2> QED BY <1>2, <2>1 DEF CInv, TypeOK
<1>4. x \in Event /\ x.pc = "loaded" /\ x.chat = log[e].chat /\ x.kind = log[e].kind
      /\ x.thread = log[e].thread /\ x.saw = saved[Thread(e)] /\ x.cut = log[e].cut
  BY <1>1, <1>3 DEF Event, Stage, Waiting, UnderWay, Over
<1>5. log' = [log EXCEPT ![e] = x]
  BY <1>1 DEF LoadThread
<1> HIDE DEF x
<1>6. /\ log' \in Seq(Event) /\ Len(log') = Len(log) /\ Events' = Events
      /\ \A i \in Events : log'[i] = IF i = e THEN x ELSE log[i]
  BY <1>1, <1>4, <1>5, LogStep
<1>7. Steady
  BY <1>4, <1>6 DEF Steady
<1>8. \A i \in Events : Onward(i)
  BY <1>4, <1>6 DEF Onward, LoadThread, UnderWay
<1>9. TypeOK'
  BY <1>6 DEF LoadThread, CInv, TypeOK
<1>10. Apart'
  <2>1. \A t \in Chats \X Epochs : \A m \in saved'[t] : m \in saved[t]
    BY DEF LoadThread
  <2>2. \A i \in Events : \A m \in log'[i].saw :
          m \in log[i].saw \/ (m[1] \in Events /\ log[i].thread # NoRow
                                 /\ Thread(m[1]) = Thread(i))
    BY <1>2, <1>4, <1>6 DEF CInv, Apart, Threaded, LoadThread, UnderWay
  <2> QED BY <1>7, <2>1, <2>2, ApartKept
<1>11. UNCHANGED epoch
  BY DEF LoadThread
<1> QED BY <1>7, <1>8, <1>9, <1>10, <1>11, BoundedAndThreadedKept, CutOffKept DEF CInv

\* A turn saves what it loaded and parts of its own exchange.
LEMMA SaveCInv ==
  ASSUME CInv, NEW e \in Events, Checkpoint(e) \/ Answer(e)
  PROVE  CInv'
<1>1. log \in Seq(Event) /\ log[e] \in Event /\ e \in 1..MaxEvents
      /\ log[e].pc \in UnderWay
  BY LogFacts, ConversationsAssumption
     DEF CInv, TypeOK, Events, Checkpoint, Answer, Concludes, UnderWay
<1>2. Thread(e) \in Chats \X Epochs
  BY <1>1 DEF CInv, Threaded, Thread, Event, UnderWay
<1>3. log[e].saw \in History /\ saved \in [Chats \X Epochs -> History]
  BY <1>1 DEF Event, CInv, TypeOK
<1>4. PICK pc \in {"working", "ended"}, ok \in BOOLEAN, own \in SUBSET ({e} \X Part) :
        /\ log' = [log EXCEPT ![e] = [log[e] EXCEPT !.pc = pc, !.ok = ok]]
        /\ saved' = [saved EXCEPT ![Thread(e)] = log[e].saw \cup own]
        /\ UNCHANGED <<epoch, crashes>>
  <2>1. CASE Checkpoint(e)
    <3>1. log' = [log EXCEPT ![e] = [log[e] EXCEPT !.pc = "working", !.ok = log[e].ok]]
      BY <1>1, <2>1 DEF Checkpoint, Event
    <3>2. {<<e, "asked">>} \in SUBSET ({e} \X Part) /\ log[e].ok \in BOOLEAN
      BY <1>1 DEF Part, Event
    <3> QED BY <2>1, <3>1, <3>2 DEF Checkpoint, Save
  <2>2. CASE Answer(e)
    <3>1. log' = [log EXCEPT ![e] = [log[e] EXCEPT !.pc = "ended", !.ok = TRUE]]
      BY <1>1, <2>2 DEF Answer, Concludes, Event
    <3> QED BY <2>2, <3>1 DEF Answer, Concludes, Save
  <2> QED BY <2>1, <2>2
<1> DEFINE x == [log[e] EXCEPT !.pc = pc, !.ok = ok]
<1>5. x \in Event /\ x.pc = pc /\ x.chat = log[e].chat /\ x.kind = log[e].kind
      /\ x.thread = log[e].thread /\ x.saw = log[e].saw /\ x.cut = log[e].cut
  BY <1>1 DEF Event, Stage, Waiting, UnderWay, Over
<1>6. log' = [log EXCEPT ![e] = x]
  BY <1>4
<1> HIDE DEF x
<1>7. /\ log' \in Seq(Event) /\ Len(log') = Len(log) /\ Events' = Events
      /\ \A i \in Events : log'[i] = IF i = e THEN x ELSE log[i]
  BY <1>1, <1>5, <1>6, LogStep
<1>8. Steady
  BY <1>5, <1>7 DEF Steady
<1>9. \A i \in Events : Onward(i)
  BY <1>1, <1>5, <1>7 DEF Onward, UnderWay
<1>10. \A t \in Chats \X Epochs :
         saved'[t] = IF t = Thread(e) THEN log[e].saw \cup own ELSE saved[t]
  BY <1>2, <1>3, <1>4
<1>11. TypeOK'
  <2>1. own \subseteq (1..MaxEvents) \X Part
    BY <1>1
  <2>2. saved' \in [Chats \X Epochs -> History]
    BY <1>2, <1>3, <1>4, <2>1 DEF History
  <2> QED BY <1>4, <1>7, <2>2 DEF CInv, TypeOK
<1>12. Apart'
  <2>1. ASSUME NEW t \in Chats \X Epochs, NEW m \in saved'[t]
        PROVE  m \in saved[t] \/ (m[1] \in Events /\ Thread(m[1]) = t)
    BY <1>4, <1>10, <2>1 DEF CInv, Apart
  <2>2. \A i \in Events : log'[i].saw = log[i].saw
    BY <1>5, <1>7
  <2> QED BY <1>8, <2>1, <2>2, ApartKept
<1> QED BY <1>4, <1>8, <1>9, <1>11, <1>12, BoundedAndThreadedKept, CutOffKept DEF CInv

(***************************************************************************)
(* A turn gets the chat's newest epoch, which lies above every thread a    *)
(* reset has cut off.                                                      *)
(***************************************************************************)
LEMMA ThreadIdCInv ==
  ASSUME CInv, NEW e \in Events, ThreadId(e)
  PROVE  CInv'
<1> DEFINE c == log[e].chat
           stored == IF epoch[c] = NoRow THEN 0 ELSE epoch[c]
           x == [log[e] EXCEPT !.pc = "keyed", !.thread = stored]
<1>1. log \in Seq(Event) /\ log[e] \in Event /\ c \in Chats
  BY LogFacts DEF CInv, TypeOK, Event
<1>2. epoch \in [Chats -> Epochs \cup {NoRow}] /\ epoch[c] \in Epochs \cup {NoRow}
  BY <1>1 DEF CInv, TypeOK
<1>3. stored \in Epochs /\ stored # NoRow /\ epoch[c] <= stored
      /\ (epoch[c] # NoRow => stored = epoch[c]) /\ (epoch[c] = NoRow => stored = 0)
  BY <1>2, ConversationsAssumption DEF Epochs, NoRow
<1>4. epoch' = [epoch EXCEPT ![c] = stored]
  BY DEF ThreadId
<1>5. \A d \in Chats : epoch'[d] = IF d = c THEN stored ELSE epoch[d]
  BY <1>2, <1>4
<1>6. x \in Event /\ x.pc = "keyed" /\ x.chat = c /\ x.kind = log[e].kind
      /\ x.thread = stored /\ x.saw = log[e].saw /\ x.cut = log[e].cut
  BY <1>1, <1>3 DEF Event, Stage, Waiting, UnderWay, Over
<1>7. log' = [log EXCEPT ![e] = x]
  BY <1>1 DEF ThreadId
<1>8. log[e].kind # "reset" /\ log[e].pc = "called" /\ log[e].thread = NoRow
  BY DEF ThreadId, IsTurn, CInv, Threaded, UnderWay
<1> HIDE DEF x, stored
<1>9. /\ log' \in Seq(Event) /\ Len(log') = Len(log) /\ Events' = Events
      /\ \A i \in Events : log'[i] = IF i = e THEN x ELSE log[i]
  BY <1>1, <1>6, <1>7, LogStep
<1>10. \A i \in Events : log[i] \in Event
  BY <1>1, LogFacts
<1>11. TypeOK'
  BY <1>2, <1>3, <1>4, <1>9 DEF ThreadId, CInv, TypeOK
<1>12. Bounded'
  <2> SUFFICES ASSUME NEW d \in Chats PROVE epoch'[d] <= Cardinality(ResetsOver(d)')
    BY DEF Bounded
  <2>1. ResetsOver(d) \subseteq ResetsOver(d)'
    BY <1>6, <1>8, <1>9 DEF ResetsOver, OfChat, IsTurn
  <2>2. /\ Cardinality(ResetsOver(d)) \in Nat /\ Cardinality(ResetsOver(d)') \in Nat
        /\ Cardinality(ResetsOver(d)) <= Cardinality(ResetsOver(d)')
    BY <1>1, <1>9, <2>1, OverGrows
  <2>3. epoch[d] <= Cardinality(ResetsOver(d)) /\ epoch[d] \in Int
    BY ConversationsAssumption DEF CInv, TypeOK, Bounded, Epochs, NoRow
  <2>4. epoch'[d] = epoch[d] \/ epoch'[d] = 0
    BY <1>3, <1>5
  <2> QED BY <2>2, <2>3, <2>4
<1>13. \A d \in Chats : epoch[d] <= epoch'[d] /\ epoch[d] \in Int /\ epoch'[d] \in Int
  BY <1>2, <1>3, <1>5, ConversationsAssumption DEF Epochs, NoRow
<1>14. Threaded'
  <2> SUFFICES ASSUME NEW i \in Events
               PROVE  /\ log'[i].pc \in {"queued", "called"} => log'[i].thread = NoRow
                      /\ log'[i].pc \in {"keyed"} \cup UnderWay => log'[i].thread # NoRow
                      /\ log'[i].thread # NoRow =>
                           log'[i].kind # "reset" /\ log'[i].thread <= epoch'[log'[i].chat]
    BY <1>9 DEF Threaded, IsTurn, UnderWay
  <2>1. CASE i = e
    BY <2>1, <1>1, <1>3, <1>5, <1>6, <1>8, <1>9, ConversationsAssumption DEF Epochs
  <2>2. CASE i # e
    <3>1. log'[i] = log[i] /\ log[i].chat \in Chats /\ log[i].thread \in Int
      BY <2>2, <1>9, <1>10, ConversationsAssumption DEF Event, Epochs, NoRow
    <3> QED BY <3>1, <1>13 DEF CInv, Threaded, IsTurn, UnderWay
  <2> QED BY <2>1, <2>2
<1>15. \A i \in Events : i # e => Thread(i)' = Thread(i)
  BY <1>9 DEF Thread
<1>16. Apart'
  <2>1. ASSUME NEW t \in Chats \X Epochs, NEW m \in saved'[t]
        PROVE  m[1] \in Events' /\ Thread(m[1])' = t
    <3>1. m \in saved[t]
      BY <2>1 DEF ThreadId
    <3>2. m[1] \in Events /\ Thread(m[1]) = t
      BY <3>1 DEF CInv, Apart
    <3>3. t[2] # NoRow
      BY ConversationsAssumption DEF Epochs, NoRow
    <3>4. m[1] # e
      BY <3>2, <3>3, <1>8 DEF Thread
    <3> QED BY <3>2, <3>4, <1>9, <1>15
  <2>2. ASSUME NEW i \in Events, NEW m \in log'[i].saw
        PROVE  m[1] \in Events' /\ log'[i].thread # NoRow /\ Thread(m[1])' = Thread(i)'
    <3>1. m \in log[i].saw
      BY <1>6, <1>9, <2>2
    <3>2. m[1] \in Events /\ log[i].thread # NoRow /\ Thread(m[1]) = Thread(i)
      BY <3>1 DEF CInv, Apart
    <3>3. i # e /\ m[1] # e
      BY <3>2, <1>8 DEF Thread
    <3> QED BY <3>2, <3>3, <1>9, <1>15
  <2> QED BY <2>1, <2>2, <1>9 DEF Apart
<1>17. CutOff'
  <2> SUFFICES ASSUME NEW r \in Events, NEW f \in log[r].cut
               PROVE  /\ f \in Events /\ log'[f].chat = log[r].chat /\ log'[f].thread # NoRow
                      /\ log'[f].thread < epoch'[log[r].chat]
                      /\ \A i \in Events : log'[i].chat = log[r].chat /\ i \notin log[r].cut
                           /\ log'[i].thread # NoRow => log'[f].thread < log'[i].thread
    BY <1>6, <1>9 DEF CutOff, OfChat
  <2>1. /\ f \in Events /\ log[f].chat = log[r].chat /\ log[f].thread # NoRow
        /\ log[f].thread < epoch[log[r].chat]
        /\ \A i \in OfChat(log[r].chat) \ log[r].cut :
             log[i].thread # NoRow => log[f].thread < log[i].thread
    BY DEF CInv, CutOff
  <2>2. f # e /\ log'[f] = log[f] /\ log[f].thread \in Int /\ log[r].chat \in Chats
    BY <2>1, <1>8, <1>9, <1>10, ConversationsAssumption DEF Event, Epochs, NoRow
  <2>3. log[f].thread < epoch'[log[r].chat]
    BY <2>1, <2>2, <1>13
  <2>4. ASSUME NEW i \in Events, log'[i].chat = log[r].chat, i \notin log[r].cut,
               log'[i].thread # NoRow
        PROVE  log[f].thread < log'[i].thread
    <3>1. CASE i = e
      BY <3>1, <2>3, <2>4, <1>5, <1>6, <1>9, <1>1
    <3>2. CASE i # e
      BY <3>2, <2>1, <2>4, <1>9 DEF OfChat
    <3> QED BY <3>1, <3>2
  <2> QED BY <2>1, <2>2, <2>3, <2>4
<1> QED BY <1>11, <1>12, <1>14, <1>16, <1>17 DEF CInv

(***************************************************************************)
(* A reset is through once, so it is one more reset over for its one more  *)
(* epoch; the turns it cuts off are in epochs below the new one.           *)
(***************************************************************************)
LEMMA ResetCInv ==
  ASSUME CInv, NEW e \in Events, Reset(e)
  PROVE  CInv'
<1>0. PICK c \in Chats : c = log[e].chat
  BY LogFacts DEF CInv, TypeOK, Event
<1> DEFINE next == IF epoch[c] = NoRow THEN 1 ELSE epoch[c] + 1
           x == [log[e] EXCEPT !.pc = "ended", !.ok = TRUE, !.cut = Keyed(c)]
<1>1. log \in Seq(Event) /\ log[e] \in Event /\ Len(log) \in Nat
  BY LogFacts DEF CInv, TypeOK
<1>2. epoch \in [Chats -> Epochs \cup {NoRow}] /\ epoch[c] \in Epochs \cup {NoRow}
  BY <1>1 DEF CInv, TypeOK
<1>3. next \in Int /\ epoch[c] < next /\ (epoch[c] # NoRow => next = epoch[c] + 1)
      /\ (epoch[c] = NoRow => next = 1) /\ next >= 0
  BY <1>2, ConversationsAssumption DEF Epochs, NoRow
<1>4. epoch' = [epoch EXCEPT ![c] = next]
  BY <1>0 DEF Reset
<1>5. \A d \in Chats : epoch'[d] = IF d = c THEN next ELSE epoch[d]
  BY <1>2, <1>4
<1>6. Keyed(c) \subseteq 1..MaxEvents
  BY <1>1, ConversationsAssumption DEF Keyed, OfChat, Events, CInv, TypeOK
<1>7. x \in Event /\ x.pc = "ended" /\ x.chat = c /\ x.kind = "reset"
      /\ x.thread = log[e].thread /\ x.saw = log[e].saw /\ x.cut = Keyed(c)
  BY <1>0, <1>1, <1>6 DEF Event, Stage, Waiting, UnderWay, Over, Reset
<1>8. log' = [log EXCEPT ![e] = x]
  BY <1>0, <1>1 DEF Reset
<1>9. log[e].kind = "reset" /\ log[e].pc = "called"
  BY DEF Reset
<1>10. log[e].thread = NoRow
  BY <1>9 DEF CInv, Threaded, UnderWay
<1> HIDE DEF x, next
<1>11. /\ log' \in Seq(Event) /\ Len(log') = Len(log) /\ Events' = Events
       /\ \A i \in Events : log'[i] = IF i = e THEN x ELSE log[i]
  BY <1>1, <1>7, <1>8, LogStep
<1>12. \A i \in Events : log[i] \in Event
  BY <1>1, LogFacts
<1>13. \A i \in Events : /\ log'[i].chat = log[i].chat /\ log'[i].kind = log[i].kind
                         /\ log'[i].thread = log[i].thread /\ log'[i].saw = log[i].saw
  BY <1>0, <1>7, <1>9, <1>11
<1>14. \A d \in Chats : ResetsOver(d) \subseteq ResetsOver(d)'
  BY <1>0, <1>7, <1>11 DEF ResetsOver, OfChat, IsTurn
<1>15. \A d \in Chats : /\ Cardinality(ResetsOver(d)) \in Nat
                        /\ Cardinality(ResetsOver(d)') \in Nat
                        /\ Cardinality(ResetsOver(d)) <= Cardinality(ResetsOver(d)')
                        /\ IsFiniteSet(ResetsOver(d)')
                        /\ Cardinality(ResetsOver(d)') <= Len(log)
  BY <1>1, <1>11, <1>14, OverGrows
<1>16. Cardinality(ResetsOver(c)) + 1 <= Cardinality(ResetsOver(c)')
  <2>1. e \in ResetsOver(c)' /\ e \notin ResetsOver(c)
    BY <1>0, <1>7, <1>9, <1>11 DEF ResetsOver, OfChat, IsTurn
  <2>2. ResetsOver(c) \in SUBSET (ResetsOver(c)') /\ ResetsOver(c) # ResetsOver(c)'
    BY <2>1, <1>1, <1>14
  <2>3. Cardinality(ResetsOver(c)) # Cardinality(ResetsOver(c)')
    BY <2>2, <1>1, <1>15, FS_Subset
  <2> QED BY <2>3, <1>1, <1>15
<1>17. \A d \in Chats : epoch[d] \in Int /\ epoch[d] <= Cardinality(ResetsOver(d))
  BY ConversationsAssumption DEF CInv, TypeOK, Bounded, Epochs, NoRow
<1>18. next <= Cardinality(ResetsOver(c)')
  BY <1>1, <1>3, <1>15, <1>16, <1>17
<1>19. Bounded'
  <2> SUFFICES ASSUME NEW d \in Chats PROVE epoch'[d] <= Cardinality(ResetsOver(d)')
    BY DEF Bounded
  <2> QED BY <1>5, <1>15, <1>17, <1>18
<1>20. TypeOK'
  <2>1. next \in Epochs
    BY <1>1, <1>3, <1>15, <1>18, ConversationsAssumption DEF Epochs, CInv, TypeOK
  <2> QED BY <2>1, <1>2, <1>4, <1>11 DEF Reset, CInv, TypeOK
<1>21. \A d \in Chats : epoch[d] <= epoch'[d] /\ epoch[d] \in Int /\ epoch'[d] \in Int
  BY <1>3, <1>5, <1>17
<1>22. \A i \in Events : log[i].chat \in Chats /\ log[i].thread \in Int
  BY <1>12, ConversationsAssumption DEF Event, Epochs, NoRow
<1>23. Threaded'
  <2> SUFFICES ASSUME NEW i \in Events
               PROVE  /\ log'[i].pc \in {"queued", "called"} => log'[i].thread = NoRow
                      /\ log'[i].pc \in {"keyed"} \cup UnderWay => log'[i].thread # NoRow
                      /\ log'[i].thread # NoRow =>
                           log'[i].kind # "reset" /\ log'[i].thread <= epoch'[log'[i].chat]
    BY <1>11 DEF Threaded, IsTurn, UnderWay
  <2>1. CASE i = e
    BY <2>1, <1>7, <1>10, <1>11 DEF UnderWay
  <2>2. CASE i # e
    BY <2>2, <1>11, <1>21, <1>22 DEF CInv, Threaded, IsTurn, UnderWay
  <2> QED BY <2>1, <2>2
<1>24. Apart'
  <2>1. \A i \in Events : Thread(i)' = Thread(i)
    BY <1>13 DEF Thread
  <2>2. \A t \in Chats \X Epochs : \A m \in saved'[t] : m[1] \in Events' /\ Thread(m[1])' = t
    BY <2>1, <1>11 DEF Reset, CInv, Apart
  <2>3. \A i \in Events' : \A m \in log'[i].saw :
          m[1] \in Events' /\ log'[i].thread # NoRow /\ Thread(m[1])' = Thread(i)'
    BY <2>1, <1>11, <1>13 DEF CInv, Apart
  <2> QED BY <2>2, <2>3 DEF Apart
<1>25. CutOff'
  <2> SUFFICES ASSUME NEW r \in Events, NEW f \in log'[r].cut
               PROVE  /\ f \in Events /\ log[f].chat = log[r].chat /\ log[f].thread # NoRow
                      /\ log[f].thread < epoch'[log[r].chat]
                      /\ \A i \in Events : log[i].chat = log[r].chat /\ i \notin log'[r].cut
                           /\ log[i].thread # NoRow => log[f].thread < log[i].thread
    BY <1>11, <1>13 DEF CutOff, OfChat
  <2>1. CASE r = e
    <3>1. f \in Events /\ log[f].chat = c /\ log[f].thread # NoRow
      BY <2>1, <1>0, <1>7, <1>11 DEF Keyed, OfChat
    <3>2. log[f].thread < epoch'[c]
      BY <3>1, <1>1, <1>3, <1>5, <1>22, <1>17 DEF CInv, Threaded, UnderWay
    <3>3. ASSUME NEW i \in Events, log[i].chat = c, log[i].thread # NoRow
          PROVE  i \in log'[e].cut
      BY <3>3, <1>7, <1>11 DEF Keyed, OfChat, CInv, Threaded, UnderWay
    <3> QED BY <2>1, <3>1, <3>2, <3>3, <1>0
  <2>2. CASE r # e
    <3>1. f \in log[r].cut /\ log'[r].cut = log[r].cut
      BY <2>2, <1>11
    <3>2. /\ f \in Events /\ log[f].chat = log[r].chat /\ log[f].thread # NoRow
          /\ log[f].thread < epoch[log[r].chat]
          /\ \A i \in OfChat(log[r].chat) \ log[r].cut :
               log[i].thread # NoRow => log[f].thread < log[i].thread
      BY <3>1 DEF CInv, CutOff
    <3>3. log[f].thread < epoch'[log[r].chat]
      BY <3>2, <1>21, <1>22
    <3> QED BY <3>1, <3>2, <3>3 DEF OfChat
  <2> QED BY <2>1, <2>2
<1> QED BY <1>19, <1>20, <1>23, <1>24, <1>25 DEF CInv

LEMMA HandleCInv ==
  ASSUME CInv, NEW e \in Events, Handle(e)
  PROVE  CInv'
<1>1. CASE Take(e)
  BY <1>1, StageStep DEF Take
<1>2. CASE Fail(e)
  <2>1. PICK pc \in {"ended", "unsent"} :
          log' = [log EXCEPT ![e].pc = pc] /\ UNCHANGED <<epoch, saved, crashes>>
    BY <1>2 DEF Fail
  <2> QED BY <2>1, StageStep DEF Over
<1>3. CASE Reply(e)
  <2>1. PICK pc \in {"replied", "unsent"} :
          log' = [log EXCEPT ![e].pc = pc] /\ UNCHANGED <<epoch, saved, crashes>>
    BY <1>3 DEF Reply
  <2> QED BY <2>1, StageStep DEF Over
<1> QED BY <1>1, <1>2, <1>3, ResetCInv, ThreadIdCInv, LoadThreadCInv, SaveCInv DEF Handle

LEMMA StutterCInv ==
  ASSUME CInv, UNCHANGED vars
  PROVE  CInv'
<1>1. TypeOK'
  BY DEF CInv, TypeOK, vars
<1>2. Steady
  BY <1>1 DEF TypeOK, Steady, vars, Events
<1>3. /\ \A e \in Events : Onward(e) /\ log'[e].saw = log[e].saw
      /\ UNCHANGED <<epoch, saved>>
  BY DEF Onward, vars, UnderWay
<1> QED BY <1>1, <1>2, <1>3, PlainStep DEF TypeOK

LEMMA NextCInv == CInv /\ [Next]_vars => CInv'
<1> SUFFICES ASSUME CInv, [Next]_vars PROVE CInv'
  OBVIOUS
<1>1. ASSUME NEW c \in Chats, Arrive(c, "message") \/ Arrive(c, "reset") \/ FireJob(c)
      PROVE  CInv'
  BY <1>1, ArriveCInv DEF FireJob
<1>2. ASSUME NEW e \in Events, Handle(e) PROVE CInv'
  BY <1>2, HandleCInv
<1>3. CASE Crash
  BY <1>3, CrashCInv
<1>4. CASE Quiet \/ UNCHANGED vars
  BY <1>4, StutterCInv DEF Quiet
<1> QED BY <1>1, <1>2, <1>3, <1>4 DEF Next

-----------------------------------------------------------------------------
(***************************************************************************)
(* Every thread holds its own turns only, and a reset puts all turns that  *)
(* follow it into threads above those of the turns it cut off.             *)
(***************************************************************************)
THEOREM ConversationInvariance == Spec => []CInv
BY InitCInv, NextCInv, PTL DEF Spec

\* Every variable keeps its type; the epochs stay within the events seen.
THEOREM ConversationTypes == Spec => []TypeOK
<1>1. CInv => TypeOK
  BY DEF CInv
<1> QED BY <1>1, ConversationInvariance, PTL

\* A turn in flight across a reset never leaks into the conversation after it,
\* however many messages, jobs and resets of the chat run at once.
THEOREM ResetIsolatesCorrect == Spec => []ResetIsolates
<1>1. ASSUME CInv PROVE ResetIsolates
  <2> SUFFICES ASSUME NEW r \in Events, NEW e \in Events,
                      log[r].chat = log[e].chat, e \notin log[r].cut,
                      NEW f \in log[r].cut, NEW part \in Part, <<f, part>> \in log[e].saw
               PROVE  FALSE
    BY DEF ResetIsolates
  <2>1. log[e].thread # NoRow /\ Thread(f) = Thread(e)
    BY <1>1 DEF CInv, Apart
  <2>2. log[f].thread < log[e].thread /\ f \in Events
    BY <1>1, <2>1 DEF CInv, CutOff, OfChat
  <2>3. log[f].thread \in Int
    BY <1>1, <2>2, LogFacts, ConversationsAssumption
       DEF CInv, TypeOK, Event, Epochs, NoRow
  <2> QED BY <2>1, <2>2, <2>3 DEF Thread
<1> QED BY <1>1, ConversationInvariance, PTL

-----------------------------------------------------------------------------

(***************************************************************************)
(* What a step may do to an event: one that is over stays as it is, one    *)
(* that waits in the queue is taken in its turn or lost, one that is       *)
(* through waits for its reply, and what succeeded has succeeded for good. *)
(***************************************************************************)
Silent == Waiting \cup {"loaded"}
Loads(e) == log[e].pc = "keyed" /\ log'[e].pc \in UnderWay

InTurn(e) == \A f \in Events : f # e /\ Serialized(f) =>
               log[f].pc \in Over \/ (f > e /\ log[f].pc = "queued")

Advances(e) ==
  /\ log'[e].chat = log[e].chat /\ log'[e].kind = log[e].kind /\ log'[e].after = log[e].after
  /\ log[e].pc \in Over => log'[e] = log[e]
  /\ log[e].pc = "ended" => log'[e].pc \in {"ended"} \cup Over
  /\ log[e].pc \notin Silent => log'[e].pc \notin Silent
  /\ log[e].pc \notin Waiting => log'[e].pc \notin Waiting
  /\ log'[e].pc \in UnderWay => Loads(e) \/ log[e].pc \in UnderWay
  /\ Loads(e) => log'[e].saw = saved[Thread(e)] /\ log'[e].beside = Running(Thread(e))
  /\ (log'[e].saw = log[e].saw /\ log'[e].beside = log[e].beside) \/ Loads(e)
  /\ \/ log'[e].ok = log[e].ok
     \/ log'[e].ok /\ log'[e].pc = "ended" /\ log[e].pc = IF IsTurn(e) THEN "working" ELSE "called"
  /\ log[e].pc = "queued" /\ log'[e].pc \in Taken => InTurn(e)
  /\ log'[e].thread = log[e].thread \/ (log[e].pc = "called" /\ IsTurn(e) /\ log'[e].cut = log[e].cut)
  /\ log'[e].pc \in {"keyed"} \cup UnderWay =>
       log[e].pc \in {"keyed"} \cup UnderWay \/ log'[e].thread = epoch'[log[e].chat]
  /\ \/ log'[e].cut = log[e].cut
     \/ log'[e].pc = "ended" /\ log'[e].cut = Keyed(log[e].chat) /\ log'[e].thread = log[e].thread
  /\ log[e].kind = "reset" /\ log'[e].pc \in {"ended", "replied"} =>
       log[e].pc \in {"ended", "replied"} \/ log'[e].cut = Keyed(log[e].chat)

Arrives(e) ==
  /\ e = Len(log) + 1
  /\ log'[e].chat \in Chats
  /\ log'[e].kind = "job" => log'[e].chat \in JobChats
  /\ log'[e].pc = IF log'[e].chat \in Serial /\ log'[e].kind # "job" THEN "queued" ELSE "called"
  /\ log'[e].thread = NoRow /\ log'[e].saw = {} /\ log'[e].beside = {}
  /\ ~log'[e].ok /\ log'[e].cut = {}
  /\ log'[e].after = {f \in OfChat(log'[e].chat) : log[f].pc = "replied"}

\* Steps of events, or one that arrives.
Steps ==
  /\ \/ Events' = Events
     \/ Events' = Events \cup {Len(log) + 1} /\ Arrives(Len(log) + 1)
  /\ \A e \in Events : Advances(e)
  /\ \A e, f \in Events :
       e # f /\ (log'[e].thread # log[e].thread \/ Loads(e)) => log'[f] = log[f]

LEMMA ArriveSteps ==
  ASSUME TypeOK, NEW c \in Chats, NEW kind \in {"message", "reset", "job"},
         Arrive(c, kind), kind = "job" => c \in JobChats
  PROVE  Steps /\ UNCHANGED saved /\ \A e \in Events : log'[e] = log[e]
<1> DEFINE x == [chat |-> c, kind |-> kind,
                 pc |-> IF c \in Serial /\ kind # "job" THEN "queued" ELSE "called",
                 thread |-> NoRow, saw |-> {}, beside |-> {}, ok |-> FALSE,
                 after |-> {e \in OfChat(c) : log[e].pc = "replied"},
                 cut |-> {}]
<1>1. log \in Seq(Event) /\ Len(log) \in Nat
  BY LogFacts DEF TypeOK
<1>2. log' = Append(log, x) /\ saved' = saved
  BY DEF Arrive
<1>3. /\ Len(log') = Len(log) + 1 /\ log'[Len(log) + 1] = x
      /\ \A i \in Events : log'[i] = log[i]
  <2> HIDE DEF x
  <2> QED BY <1>1, <1>2 DEF Events
<1>4. Events' = Events \cup {Len(log) + 1}
  BY <1>1, <1>3 DEF Events
<1>5. Arrives(Len(log) + 1)
  BY <1>3 DEF Arrives
<1>6. \A e \in Events : Advances(e)
  BY <1>3 DEF Advances, Taken, Silent, Waiting, UnderWay, Loads
<1> QED BY <1>2, <1>3, <1>4, <1>5, <1>6 DEF Steps

\* A step of one event, which becomes x.
LEMMA EventSteps ==
  ASSUME log \in Seq(Event), NEW e \in Events, NEW x \in Event, log' = [log EXCEPT ![e] = x],
         log'[e] = x => Advances(e)
  PROVE  /\ Steps /\ Events' = Events /\ log'[e] = x
         /\ \A i \in Events : i # e => log'[i] = log[i]
<1>1. Events' = Events /\ \A i \in Events : log'[i] = IF i = e THEN x ELSE log[i]
  BY LogStep
<1>2. \A i \in Events : i # e => Advances(i)
  BY <1>1 DEF Advances, Taken, Silent, Waiting, UnderWay, Loads
<1> QED BY <1>1, <1>2 DEF Steps, Loads, UnderWay

LEMMA HandleSteps ==
  ASSUME CInv, NEW e \in Events, Handle(e)
  PROVE  Steps /\ Events' = Events /\ \A i \in Events : i # e => log'[i] = log[i]
<1>1. log \in Seq(Event) /\ log[e] \in Event /\ TypeOK
      /\ (log[e].pc \in {"keyed"} \cup UnderWay => IsTurn(e))
  BY LogFacts DEF CInv, TypeOK, Threaded, UnderWay
<1>2. CASE Take(e)
  <2> DEFINE x == [log[e] EXCEPT !.pc = "called"]
  <2>1. log' = [log EXCEPT ![e] = x] /\ x \in Event
    BY <1>1, <1>2 DEF Take, Event, Stage, Waiting, UnderWay
  <2>2. log'[e] = x => Advances(e)
    BY <1>1, <1>2 DEF Take, Advances, InTurn, Event, Over, Silent, Waiting, UnderWay, Loads
  <2> HIDE DEF x
  <2> QED BY <1>1, <2>1, <2>2, EventSteps
<1>3. CASE Reset(e)
  <2> DEFINE x == [log[e] EXCEPT !.pc = "ended", !.ok = TRUE, !.cut = Keyed(log[e].chat)]
  <2>1. log' = [log EXCEPT ![e] = x]
    BY <1>1, <1>3 DEF Reset
  <2>2. x \in Event
    <3>1. Keyed(log[e].chat) \in SUBSET (1..MaxEvents)
      BY <1>1, LogFacts, ConversationsAssumption DEF Keyed, OfChat, Events, TypeOK
    <3> QED BY <1>1, <3>1 DEF Event, Stage, Waiting, UnderWay
  <2>3. log'[e] = x => Advances(e)
    <3>1. /\ x.chat = log[e].chat /\ x.kind = "reset" /\ x.after = log[e].after
          /\ x.thread = log[e].thread /\ x.pc = "ended" /\ x.cut = Keyed(log[e].chat)
          /\ x.saw = log[e].saw /\ x.beside = log[e].beside /\ x.ok
          /\ log[e].kind = "reset" /\ log[e].pc = "called"
      BY <1>1, <1>3 DEF Reset, Event
    <3> HIDE DEF x
    <3> QED BY <3>1 DEF Advances, Over, Taken, Silent, Waiting, UnderWay, Loads, IsTurn
  <2> HIDE DEF x
  <2> QED BY <1>1, <2>1, <2>2, <2>3, EventSteps
<1>4. CASE ThreadId(e)
  <2> DEFINE stored == IF epoch[log[e].chat] = NoRow THEN 0 ELSE epoch[log[e].chat]
             x == [log[e] EXCEPT !.pc = "keyed", !.thread = stored]
  <2>1. log' = [log EXCEPT ![e] = x]
    BY <1>1, <1>4 DEF ThreadId
  <2>2. x \in Event
    <3>1. epoch[log[e].chat] \in Epochs \cup {NoRow} /\ 0 \in Epochs
      BY <1>1, ConversationsAssumption DEF TypeOK, Event, Epochs
    <3> QED BY <1>1, <3>1 DEF Event, Stage, Waiting, UnderWay
  <2>3. log'[e] = x => Advances(e)
    <3>1. /\ x.chat = log[e].chat /\ x.kind = log[e].kind /\ x.after = log[e].after
          /\ x.pc = "keyed" /\ x.cut = log[e].cut /\ x.ok = log[e].ok /\ x.saw = log[e].saw
          /\ x.beside = log[e].beside
          /\ IsTurn(e) /\ log[e].pc = "called" /\ x.thread = epoch'[log[e].chat]
      BY <1>1, <1>4 DEF ThreadId, Event, TypeOK
    <3> HIDE DEF x
    <3> QED BY <3>1 DEF Advances, Over, Taken, Silent, Waiting, UnderWay, Loads
  <2> HIDE DEF x
  <2> QED BY <1>1, <2>1, <2>2, <2>3, EventSteps
<1>5. CASE LoadThread(e)
  <2> DEFINE x == [log[e] EXCEPT !.pc = "loaded", !.saw = saved[Thread(e)],
                                 !.beside = Running(Thread(e))]
  <2>1. log' = [log EXCEPT ![e] = x]
    BY <1>1, <1>5 DEF LoadThread
  <2>2. x \in Event
    <3>1. Thread(e) \in Chats \X Epochs
      BY <1>1, <1>5 DEF LoadThread, CInv, Threaded, UnderWay, Thread, Event
    <3>2. Running(Thread(e)) \in SUBSET (1..MaxEvents)
      <4>1. Running(Thread(e)) \subseteq Events /\ Events \subseteq 1..MaxEvents
        BY <1>1, LogFacts, ConversationsAssumption DEF Running, Events, TypeOK
      <4> QED BY <4>1
    <3> QED BY <1>1, <3>1, <3>2 DEF Event, Stage, UnderWay, TypeOK
  <2>3. log'[e] = x => Advances(e)
    <3>1. /\ x.chat = log[e].chat /\ x.kind = log[e].kind /\ x.after = log[e].after
          /\ x.pc = "loaded" /\ x.cut = log[e].cut /\ x.thread = log[e].thread
          /\ x.ok = log[e].ok /\ x.saw = saved[Thread(e)] /\ x.beside = Running(Thread(e))
          /\ log[e].pc = "keyed" /\ IsTurn(e)
      BY <1>1, <1>5 DEF LoadThread, Event
    <3> HIDE DEF x
    <3> QED BY <3>1 DEF Advances, Over, Taken, Silent, Waiting, UnderWay, Loads, IsTurn
  <2> HIDE DEF x
  <2> QED BY <1>1, <2>1, <2>2, <2>3, EventSteps
<1>6. CASE Checkpoint(e) \/ Answer(e)
  <2>1. PICK pc \in {"working", "ended"}, ok \in BOOLEAN :
          /\ log' = [log EXCEPT ![e] = [log[e] EXCEPT !.pc = pc, !.ok = ok]]
          /\ \/ pc = "working" /\ ok = log[e].ok
             \/ pc = "ended" /\ ok = TRUE /\ log[e].pc = "working"
          /\ log[e].pc \in UnderWay
    <3>1. CASE Checkpoint(e)
      <4>1. log' = [log EXCEPT ![e] = [log[e] EXCEPT !.pc = "working", !.ok = log[e].ok]]
        BY <1>1, <3>1 DEF Checkpoint, Event
      <4>2. log[e].ok \in BOOLEAN
        BY <1>1 DEF Event
      <4> WITNESS "working" \in {"working", "ended"}, log[e].ok \in BOOLEAN
      <4> QED BY <3>1, <4>1 DEF Checkpoint
    <3>2. CASE Answer(e)
      <4>1. log' = [log EXCEPT ![e] = [log[e] EXCEPT !.pc = "ended", !.ok = TRUE]]
        BY <1>1, <3>2 DEF Answer, Concludes, Event
      <4> QED BY <3>2, <4>1 DEF Answer, Concludes, UnderWay
    <3> QED BY <1>6, <3>1, <3>2
  <2> DEFINE x == [log[e] EXCEPT !.pc = pc, !.ok = ok]
  <2>2. /\ x \in Event /\ x.chat = log[e].chat /\ x.kind = log[e].kind /\ x.after = log[e].after
        /\ x.pc = pc /\ x.cut = log[e].cut /\ x.thread = log[e].thread /\ x.ok = ok
        /\ x.saw = log[e].saw /\ x.beside = log[e].beside
    BY <1>1, <2>1 DEF Event, Stage, UnderWay
  <2>3. IsTurn(e) /\ log' = [log EXCEPT ![e] = x]
    BY <1>1, <2>1
  <2> HIDE DEF x
  <2>4. log'[e] = x => Advances(e)
    BY <2>1, <2>2, <2>3 DEF Advances, Over, Taken, Silent, Waiting, UnderWay, Loads, IsTurn
  <2> QED BY <1>1, <2>2, <2>3, <2>4, EventSteps
<1>7. CASE Fail(e) \/ Reply(e)
  <2>1. PICK pc \in {"ended", "unsent", "replied"} :
          /\ log' = [log EXCEPT ![e].pc = pc]
          /\ log[e].kind = "reset" /\ pc = "ended" => FALSE
          /\ log[e].kind = "reset" /\ pc = "replied" => log[e].pc = "ended"
          /\ log[e].pc \in {"called", "keyed", "ended"} \cup UnderWay
    BY <1>7 DEF Fail, Reply, IsTurn
  <2> DEFINE x == [log[e] EXCEPT !.pc = pc]
  <2>2. log' = [log EXCEPT ![e] = x] /\ x \in Event
    BY <1>1, <2>1 DEF Event, Stage, Waiting, UnderWay, Over
  <2>3. log'[e] = x => Advances(e)
    BY <1>1, <2>1 DEF Advances, Event, Over, Silent, Waiting, UnderWay, Loads
  <2> HIDE DEF x
  <2> QED BY <1>1, <2>2, <2>3, EventSteps
<1> QED BY <1>2, <1>3, <1>4, <1>5, <1>6, <1>7 DEF Handle

LEMMA CrashSteps ==
  ASSUME TypeOK, Crash
  PROVE  /\ Steps /\ Events' = Events
         /\ \A e \in Events :
              log'[e] = IF log[e].pc \in Over THEN log[e] ELSE [log[e] EXCEPT !.pc = "lost"]
<1>1. log \in Seq(Event) /\ Len(log) \in Nat /\ \A e \in Events : log[e] \in Event
  BY LogFacts DEF TypeOK
<1>2. log' = [e \in Events |->
               IF log[e].pc \in Over THEN log[e] ELSE [log[e] EXCEPT !.pc = "lost"]]
  BY DEF Crash
<1> DEFINE x(e) == IF log[e].pc \in Over THEN log[e] ELSE [log[e] EXCEPT !.pc = "lost"]
<1>3. \A e \in Events :
        /\ x(e) \in Event /\ x(e).pc = (IF log[e].pc \in Over THEN log[e].pc ELSE "lost")
        /\ log[e].pc \in Over => x(e) = log[e]
        /\ x(e).chat = log[e].chat /\ x(e).kind = log[e].kind /\ x(e).after = log[e].after
        /\ x(e).thread = log[e].thread /\ x(e).saw = log[e].saw /\ x(e).ok = log[e].ok
        /\ x(e).beside = log[e].beside /\ x(e).cut = log[e].cut
  BY <1>1 DEF Event, Stage, Over
<1>4. Len(log') = Len(log) /\ Events' = Events /\ \A e \in Events : log'[e] = x(e)
  <2>1. log' = [e \in 1..Len(log) |-> x(e)] /\ \A e \in 1..Len(log) : x(e) \in Event
    BY <1>2, <1>3 DEF Events
  <2> HIDE DEF x
  <2>2. log' \in [1..Len(log) -> Event]
    BY <2>1
  <2>3. Len(log') = Len(log)
    BY <1>1, <2>2
  <2> QED BY <2>1, <2>3 DEF Events
<1>5. \A e \in Events : Advances(e) /\ log'[e].thread = log[e].thread /\ ~Loads(e)
  <2> HIDE DEF x
  <2> QED BY <1>3, <1>4 DEF Advances, Over, Taken, Silent, Waiting, UnderWay, Loads
<1> QED BY <1>4, <1>5 DEF Steps

LEMMA StaySteps ==
  ASSUME UNCHANGED vars
  PROVE  Steps /\ Events' = Events
BY DEF vars, Steps, Events, Advances, Taken, Silent, Waiting, UnderWay, Loads

LEMMA EventNumbers ==
  ASSUME TypeOK
  PROVE  /\ Len(log) \in Nat /\ Events = 1..Len(log) /\ \A e \in Events : log[e] \in Event
BY LogFacts DEF TypeOK, Events

LEMMA TakenInOrderKept ==
  ASSUME CInv, TakenInOrder, Steps
  PROVE  TakenInOrder'
<1>1. Len(log) \in Nat /\ Events = 1..Len(log) /\ \A e \in Events : log[e] \in Event
  BY EventNumbers DEF CInv
<1> SUFFICES ASSUME NEW e \in Events', log'[e].chat \in Serial, log'[e].kind # "job",
                    log'[e].pc \in Taken \/ log'[e].thread # NoRow \/ log'[e].ok,
                    NEW f \in 1..(e - 1), log'[f].chat \in Serial, log'[f].kind # "job"
             PROVE  log'[f].pc \in Over
  BY DEF TakenInOrder, Serialized, Begun
<1>2. e \in Events
  BY DEF Steps, Arrives, Taken
<1>3. f \in Events /\ Advances(e) /\ Advances(f) /\ Serialized(e) /\ Serialized(f) /\ f < e
  BY <1>1, <1>2 DEF Steps, Advances, Serialized
<1>4. log[f].pc \in Over
  <2>1. CASE Begun(e)
    BY <1>2, <1>3, <2>1 DEF TakenInOrder
  <2>2. CASE ~Begun(e)
    <3>1. log[e].pc \in {"queued", "lost"} /\ log[e].thread = NoRow /\ ~log[e].ok
      BY <1>1, <1>2, <2>2 DEF Begun, Event, Stage, Waiting, UnderWay, Over, Taken
    <3>2. log[e].pc = "queued"
      BY <1>3, <3>1 DEF Advances, Over, Taken
    <3>3. log'[e].pc \in Taken
      BY <1>3, <3>1, <3>2 DEF Advances, Taken
    <3> QED BY <1>1, <1>2, <1>3, <3>2, <3>3 DEF Advances, InTurn
  <2> QED BY <2>1, <2>2
<1> QED BY <1>3, <1>4 DEF Advances

LEMMA ResetsCutKept ==
  ASSUME CInv, TakenInOrder, ResetsCut, Steps
  PROVE  ResetsCut'
<1>1. Len(log) \in Nat /\ Events = 1..Len(log) /\ \A e \in Events : log[e] \in Event
  BY EventNumbers DEF CInv
<1> SUFFICES ASSUME NEW r \in Events', log'[r].kind = "reset", log'[r].chat \in Serial,
                    log'[r].pc \in {"ended", "replied"},
                    NEW f \in 1..(r - 1), f \in Events', log'[f].chat = log'[r].chat,
                    log'[f].kind # "job", log'[f].thread # NoRow
             PROVE  f \in log'[r].cut
  BY DEF ResetsCut, Serialized, OfChat
<1>2. r \in Events
  BY DEF Steps, Arrives
<1>3. /\ f \in Events /\ f < r /\ Advances(r) /\ Advances(f) /\ Serialized(r) /\ Serialized(f)
      /\ log[r].kind = "reset" /\ log[f].chat = log[r].chat
  <2>1. f \in Events /\ f < r
    BY <1>1, <1>2
  <2>2. Advances(r) /\ Advances(f)
    BY <1>2, <2>1 DEF Steps
  <2> QED BY <2>1, <2>2 DEF Advances, Serialized
<1>4. log'[f].thread = log[f].thread
  <2> SUFFICES ASSUME log'[f].thread # log[f].thread PROVE FALSE
    OBVIOUS
  <2>1. log'[r] = log[r] /\ log[f].pc = "called"
    BY <1>1, <1>2, <1>3 DEF Steps, Advances
  <2>2. log[f].pc \in Over
    BY <1>2, <1>3, <2>1 DEF TakenInOrder, Begun, Taken
  <2> QED BY <2>1, <2>2 DEF Over
<1>5. f \in Keyed(log[r].chat)
  BY <1>3, <1>4 DEF Keyed, OfChat, CInv, Threaded, UnderWay
<1>6. CASE log[r].pc \in {"ended", "replied"}
  <2>1. f \in log[r].cut
    BY <1>2, <1>3, <1>4, <1>6 DEF ResetsCut, OfChat
  <2> QED BY <1>3, <1>5, <2>1 DEF Advances
<1>7. CASE log[r].pc \notin {"ended", "replied"}
  BY <1>3, <1>5, <1>7 DEF Advances
<1> QED BY <1>6, <1>7

LEMMA RepliedBeforeKept ==
  ASSUME CInv, RepliedBefore, Steps
  PROVE  RepliedBefore'
<1>1. Len(log) \in Nat /\ Events = 1..Len(log) /\ Events \subseteq Events'
  BY EventNumbers DEF CInv, Steps
<1> SUFFICES ASSUME NEW e \in Events', NEW f \in log'[e].after
             PROVE  /\ f \in Events' /\ log'[f].chat = log'[e].chat /\ f < e
                    /\ log'[f].pc = "replied" /\ e \notin log'[f].cut
  BY DEF RepliedBefore, OfChat
<1>2. CASE e \in Events
  <2>1. Advances(e) /\ f \in log[e].after
    BY <1>2 DEF Steps, Advances
  <2>2. /\ f \in Events /\ log[f].chat = log[e].chat /\ f < e /\ log[f].pc = "replied"
        /\ e \notin log[f].cut
    BY <1>2, <2>1 DEF RepliedBefore, OfChat
  <2>3. log'[f] = log[f]
    BY <2>2 DEF Steps, Advances, Over
  <2> QED BY <1>1, <2>1, <2>2, <2>3 DEF Advances
<1>3. CASE e \notin Events
  <2>1. Arrives(e) /\ e = Len(log) + 1
    BY <1>3 DEF Steps
  <2>2. f \in Events /\ log[f].chat = log'[e].chat /\ log[f].pc = "replied"
    BY <2>1 DEF Arrives, OfChat
  <2>3. log'[f] = log[f]
    BY <2>2 DEF Steps, Advances, Over
  <2>4. e \notin log[f].cut
    BY <1>3, <2>2 DEF CInv, CutOff
  <2> QED BY <1>1, <2>1, <2>2, <2>3, <2>4
<1> QED BY <1>2, <1>3

LEMMA JobsOfChatsKept ==
  ASSUME JobsOfChats, Steps
  PROVE  JobsOfChats'
BY DEF JobsOfChats, Steps, Advances, Arrives

\* In a Telegram chat without jobs one turn at a time is under way.
LEMMA OneAtATime ==
  ASSUME CInv, TakenInOrder, JobsOfChats, NEW c \in Serial \ JobChats,
         NEW e \in OfChat(c), NEW f \in OfChat(c),
         log[e].pc \in Taken \ Over, log[f].pc \in Taken \ Over
  PROVE  e = f
<1>1. e \in Events /\ f \in Events /\ Serialized(e) /\ Serialized(f) /\ e \in Nat /\ f \in Nat
      /\ e >= 1 /\ f >= 1
  BY EventNumbers DEF CInv, OfChat, JobsOfChats, Serialized
<1>2. ~(e < f) /\ ~(f < e)
  BY <1>1 DEF TakenInOrder, Begun
<1> QED BY <1>1, <1>2

(***************************************************************************)
(* A turn that overlapped with another has done so for good: both had      *)
(* loaded by then.  What runs after a step in the thread of an answer it   *)
(* did not load ran beside the turn that gave it, or loaded a thread the   *)
(* answer was lost from.                                                   *)
(***************************************************************************)
LEMMA OverlapStays ==
  ASSUME Beside, Steps, NEW f \in Events, NEW h \in Events, Overlap(f, h)
  PROVE  Overlap(f, h)'
<1>1. log[f].pc \notin Waiting /\ log[h].pc \notin Waiting
  BY DEF Overlap, Beside
<1>2. Advances(f) /\ Advances(h)
  BY DEF Steps
<1>3. /\ log'[f].beside = log[f].beside /\ log'[h].beside = log[h].beside
      /\ log'[h].saw = log[h].saw
  BY <1>1, <1>2 DEF Advances, Loads, Waiting
<1> QED BY <1>3 DEF Overlap

LEMMA AnsweredStays ==
  ASSUME Concluded, Steps, NEW f \in Events, log[f].ok, IsTurn(f)
  PROVE  /\ log'[f].ok /\ log'[f].thread = log[f].thread /\ log'[f].saw = log[f].saw
         /\ log'[f].chat = log[f].chat /\ log[f].thread # NoRow /\ Thread(f)' = Thread(f)
<1>1. Advances(f) /\ log[f].pc \in {"ended"} \cup Over /\ log[f].thread # NoRow
  BY DEF Steps, Concluded
<1> QED BY <1>1 DEF Advances, Thread, Over, Loads

\* A turn that runs after a step has loaded its thread in it, or ran already.
LEMMA RunsInThread ==
  ASSUME CInv, Steps, NEW g \in Events', log'[g].pc \in UnderWay
  PROVE  /\ g \in Events /\ Advances(g) /\ (Loads(g) \/ log[g].pc \in UnderWay)
         /\ log[g].thread # NoRow /\ log'[g].thread = log[g].thread /\ Thread(g)' = Thread(g)
         /\ log[g].pc \in UnderWay =>
              log'[g].saw = log[g].saw /\ log'[g].beside = log[g].beside
<1>1. g \in Events
  BY DEF Steps, Arrives, UnderWay
<1>2. Advances(g)
  BY <1>1 DEF Steps
<1>3. Loads(g) \/ log[g].pc \in UnderWay
  BY <1>2 DEF Advances
<1>4. log[g].thread # NoRow
  BY <1>1, <1>3 DEF CInv, Threaded, Loads
<1>5. log'[g].thread = log[g].thread /\ log'[g].chat = log[g].chat
  BY <1>2, <1>3 DEF Advances, Loads, UnderWay
<1>6. log[g].pc \in UnderWay => log'[g].saw = log[g].saw /\ log'[g].beside = log[g].beside
  BY <1>2 DEF Advances, Loads, UnderWay
<1> QED BY <1>1, <1>2, <1>3, <1>4, <1>5, <1>6 DEF Thread

LEMMA BesideKept ==
  ASSUME CInv, Concluded, Beside, LostOnlyToOverlap, Steps
  PROVE  Beside'
<1>1. ASSUME NEW e \in Events', NEW g \in log'[e].beside
      PROVE  g \in Events' /\ log'[e].pc \notin Waiting /\ log'[g].pc \notin Waiting
  <2>1. e \in Events /\ Advances(e)
    BY <1>1 DEF Steps, Arrives
  <2>2. CASE Loads(e)
    <3>1. g \in Events /\ log[g].pc \in UnderWay
      BY <1>1, <2>1, <2>2 DEF Advances, Running
    <3>2. Advances(g) /\ g \in Events'
      BY <3>1 DEF Steps
    <3> QED BY <2>2, <3>1, <3>2 DEF Advances, Loads, Waiting, UnderWay
  <2>3. CASE ~Loads(e)
    <3>1. g \in Events /\ log[e].pc \notin Waiting /\ log[g].pc \notin Waiting
      BY <1>1, <2>1, <2>3 DEF Advances, Beside
    <3>2. Advances(g) /\ g \in Events'
      BY <3>1 DEF Steps
    <3> QED BY <2>1, <3>1, <3>2 DEF Advances
  <2> QED BY <2>2, <2>3
<1>2. ASSUME NEW f \in Events', NEW g \in Events', f # g, Thread(f)' = Thread(g)',
             log'[f].pc \in UnderWay, log'[g].pc \in UnderWay
      PROVE  g \in log'[f].beside \/ f \in log'[g].beside
  <2>1. /\ f \in Events /\ Advances(f) /\ (Loads(f) \/ log[f].pc \in UnderWay)
        /\ g \in Events /\ Advances(g) /\ (Loads(g) \/ log[g].pc \in UnderWay)
        /\ Thread(f) = Thread(g)
        /\ log[f].pc \in UnderWay => log'[f].beside = log[f].beside
        /\ log[g].pc \in UnderWay => log'[g].beside = log[g].beside
    BY <1>2, RunsInThread
  <2>2. CASE Loads(g)
    <3>1. log[f].pc \in UnderWay /\ log'[g].beside = Running(Thread(g))
      BY <1>2, <2>1, <2>2 DEF Steps, Advances
    <3> QED BY <2>1, <3>1 DEF Running
  <2>3. CASE Loads(f)
    <3>1. log[g].pc \in UnderWay /\ log'[f].beside = Running(Thread(f))
      BY <1>2, <2>1, <2>3 DEF Steps, Advances
    <3> QED BY <2>1, <3>1 DEF Running
  <2>4. CASE log[f].pc \in UnderWay /\ log[g].pc \in UnderWay
    BY <1>2, <2>1, <2>4 DEF Beside
  <2> QED BY <2>1, <2>2, <2>3, <2>4
<1>3. ASSUME NEW f \in Events', NEW g \in Events', f # g, Thread(f)' = Thread(g)',
             log'[g].pc \in UnderWay, log'[f].kind # "reset", log'[f].ok,
             <<f, "answer">> \notin log'[g].saw
      PROVE  \E h \in Events' : Overlap(f, h)'
  <2>0. f \in Events
    BY <1>3 DEF Steps, Arrives
  <2>1. f \in Events /\ Advances(f) /\ IsTurn(f)
    BY <1>3, <2>0 DEF Steps, Advances, IsTurn
  <2>2. /\ g \in Events /\ Advances(g) /\ (Loads(g) \/ log[g].pc \in UnderWay)
        /\ Thread(g)' = Thread(g)
        /\ log[g].pc \in UnderWay =>
             log'[g].saw = log[g].saw /\ log'[g].beside = log[g].beside
    BY <1>3, RunsInThread
  <2>3. ASSUME NEW h \in Events, Overlap(f, h) PROVE \E i \in Events' : Overlap(f, i)'
    BY <2>1, <2>3, OverlapStays DEF Steps
  <2>4. CASE log[f].ok
    <3>1. Thread(f) = Thread(g)
      BY <1>3, <2>1, <2>2, <2>4, AnsweredStays
    <3>2. CASE Loads(g)
      <4>1. <<f, "answer">> \notin saved[Thread(f)]
        BY <1>3, <2>2, <3>1, <3>2 DEF Advances
      <4>2. \E h \in Events : Overlap(f, h)
        BY <2>1, <2>4, <4>1 DEF LostOnlyToOverlap
      <4> QED BY <2>3, <4>2
    <3>3. CASE log[g].pc \in UnderWay
      <4>1. \E h \in Events : Overlap(f, h)
        BY <1>3, <2>1, <2>2, <2>4, <3>1, <3>3 DEF Beside
      <4> QED BY <2>3, <4>1
    <3> QED BY <2>2, <3>2, <3>3
  <2>5. CASE ~log[f].ok
    <3>1. log[f].pc = "working" /\ log'[f] # log[f]
      BY <1>3, <2>1, <2>5 DEF Advances
    <3>2. ~Loads(g)
      BY <1>3, <2>1, <2>2, <3>1 DEF Steps
    <3>3. Thread(f)' = Thread(f) /\ log'[f].beside = log[f].beside
      BY <2>1, <3>1 DEF Advances, Thread, Loads
    <3>4. g \in log[f].beside \/ f \in log[g].beside
      BY <1>3, <2>1, <2>2, <3>1, <3>2, <3>3 DEF Beside, UnderWay
    <3>5. Overlap(f, g)'
      BY <1>3, <2>2, <3>2, <3>3, <3>4 DEF Overlap
    <3> QED BY <1>3, <3>5
  <2> QED BY <2>4, <2>5
<1> QED BY <1>1, <1>2, <1>3 DEF Beside, IsTurn

-----------------------------------------------------------------------------
\* What is to be shown of an event after a step.
Follows(e) ==
  /\ log'[e].ok => {e} \X Part \subseteq saved'[Thread(e)']
  /\ log'[e].pc = "loaded" => saved'[Thread(e)'] = log'[e].saw
  /\ log'[e].pc = "working" => saved'[Thread(e)'] = log'[e].saw \cup {<<e, "asked">>}
  /\ log'[e].ok \/ log'[e].pc \in UnderWay =>
       \A f \in log'[e].after :
         log'[f].kind # "reset" /\ log'[f].ok /\ log'[f].thread = log'[e].thread =>
           {f} \X Part \subseteq log'[e].saw

LEMMA FollowsIsInOneThread ==
  ASSUME CInv', NEW c, \A e \in Events' : log'[e].chat = c /\ log'[e].kind # "reset" => Follows(e)
  PROVE  InOneThread(c)'
<1>1. \A e \in Events' : log'[e].pc \in UnderWay => log'[e].kind # "reset"
  BY DEF CInv, Threaded, IsTurn
<1> QED BY <1>1 DEF InOneThread, Follows, OfChat, IsTurn, UnderWay

\* Steps that save nothing and let no turn see or answer anything.
LEMMA InOneThreadKept ==
  ASSUME CInv, CInv', Concluded, RepliedBefore, Steps, UNCHANGED saved, NEW c \in Chats,
         InOneThread(c),
         \A e \in Events : /\ IsTurn(e) => log'[e].ok = log[e].ok
                           /\ log'[e].saw = log[e].saw
                           /\ log'[e].pc \in UnderWay => log'[e].pc = log[e].pc
  PROVE  InOneThread(c)'
<1> SUFFICES ASSUME NEW e \in Events', log'[e].chat = c, log'[e].kind # "reset"
             PROVE  Follows(e)
  BY FollowsIsInOneThread
<1>1. CASE e \notin Events
  BY <1>1 DEF Steps, Arrives, Follows, UnderWay
<1>2. CASE e \in Events /\ (log'[e].ok \/ log'[e].pc \in UnderWay)
  <2>1. Advances(e)
    BY <1>2 DEF Steps
  <2>2. e \in OfChat(c) /\ IsTurn(e)
    BY <1>2, <2>1 DEF Advances, OfChat, IsTurn
  <2>3. log[e].ok \/ log[e].pc \in UnderWay
    BY <1>2, <2>2
  <2>4. log[e].thread # NoRow
    BY <1>2, <2>2, <2>3 DEF Concluded, CInv, Threaded, UnderWay
  <2>5. log[e].pc # "called"
    BY <1>2, <2>4 DEF CInv, Threaded
  <2>6. Thread(e)' = Thread(e) /\ log'[e].thread = log[e].thread /\ log'[e].after = log[e].after
    BY <2>1, <2>5 DEF Advances, Thread
  <2>7. \A f \in log[e].after : f \in Events /\ log[f].pc \in Over
    BY <1>2 DEF RepliedBefore, OfChat, Over
  <2>8. \A f \in log[e].after : log'[f] = log[f]
    BY <2>7 DEF Steps, Advances
  <2>9. /\ log[e].ok => {e} \X Part \subseteq saved[Thread(e)]
        /\ log[e].pc = "loaded" => saved[Thread(e)] = log[e].saw
        /\ log[e].pc = "working" => saved[Thread(e)] = log[e].saw \cup {<<e, "asked">>}
        /\ \A f \in log[e].after :
             IsTurn(f) /\ log[f].ok /\ log[f].thread = log[e].thread =>
               {f} \X Part \subseteq log[e].saw
    BY <2>2, <2>3 DEF InOneThread
  <2> QED BY <1>2, <2>2, <2>6, <2>8, <2>9 DEF Follows, IsTurn, UnderWay
<1>3. CASE e \in Events /\ ~(log'[e].ok \/ log'[e].pc \in UnderWay)
  BY <1>3 DEF Follows, UnderWay
<1> QED BY <1>1, <1>2, <1>3

(***************************************************************************)
(* A step of a turn on its thread: it loads it, saves what it asked or     *)
(* saves the answer.                                                       *)
(***************************************************************************)
OnThread(g) == LoadThread(g) \/ Checkpoint(g) \/ Answer(g)

LEMMA ThreadStep ==
  ASSUME CInv, Concluded, NEW g \in Events, OnThread(g)
  PROVE  /\ IsTurn(g) /\ log[g].pc \in {"keyed"} \cup UnderWay /\ log[g].thread # NoRow
         /\ log[g] \in Event /\ Thread(g) \in Chats \X Epochs /\ ~log[g].ok
         /\ Steps /\ Events' = Events /\ UNCHANGED epoch
         /\ \A i \in Events : i # g => log'[i] = log[i]
         /\ \A i \in Events : Thread(i)' = Thread(i) /\ log'[i].kind = log[i].kind
                              /\ log'[i].chat = log[i].chat /\ log'[i].thread = log[i].thread
         /\ log'[g].after = log[g].after
         /\ \A t \in Chats \X Epochs : t # Thread(g) => saved'[t] = saved[t]
         /\ LoadThread(g) => /\ log'[g].pc = "loaded" /\ log'[g].saw = saved[Thread(g)]
                             /\ log[g].pc = "keyed" /\ ~log'[g].ok /\ saved' = saved
         /\ Checkpoint(g) => /\ log'[g].pc = "working" /\ log'[g].saw = log[g].saw
                             /\ log[g].pc \in UnderWay /\ ~log'[g].ok
                             /\ saved'[Thread(g)] = log[g].saw \cup {<<g, "asked">>}
         /\ Answer(g) => /\ log'[g].pc = "ended" /\ log'[g].saw = log[g].saw
                         /\ log[g].pc = "working" /\ log'[g].ok
                         /\ saved'[Thread(g)] = log[g].saw \cup ({g} \X Part)
<1>1. log[g] \in Event /\ log \in Seq(Event) /\ Events = 1..Len(log)
      /\ saved \in [Chats \X Epochs -> History]
  BY EventNumbers DEF CInv, TypeOK
<1>2. log[g].pc \in {"keyed"} \cup UnderWay /\ UNCHANGED epoch
  BY DEF OnThread, LoadThread, Checkpoint, Answer, Concludes, UnderWay
<1>3. IsTurn(g) /\ log[g].thread # NoRow /\ ~log[g].ok
  BY <1>2 DEF CInv, Threaded, Concluded, Over, UnderWay
<1>4. Thread(g) \in Chats \X Epochs
  BY <1>1, <1>3 DEF Thread, Event
<1>5. Handle(g)
  BY DEF Handle, OnThread
<1>6. Steps /\ Events' = Events /\ \A i \in Events : i # g => log'[i] = log[i]
  BY <1>5, HandleSteps
<1>7. Advances(g)
  BY <1>6 DEF Steps
<1>8. log'[g].kind = log[g].kind /\ log'[g].chat = log[g].chat /\ log'[g].thread = log[g].thread
      /\ log'[g].after = log[g].after
  BY <1>2, <1>7 DEF Advances, UnderWay
<1>9. \A i \in Events : Thread(i)' = Thread(i) /\ log'[i].kind = log[i].kind
                        /\ log'[i].chat = log[i].chat /\ log'[i].thread = log[i].thread
  BY <1>6, <1>8 DEF Thread
<1>10. \A t \in Chats \X Epochs : t # Thread(g) => saved'[t] = saved[t]
  <2> DEFINE th == Thread(g)
  <2>1. \E h : saved' = [saved EXCEPT ![th] = h] \/ saved' = saved
    BY DEF OnThread, LoadThread, Checkpoint, Answer, Save
  <2> HIDE DEF th
  <2>2. \A t \in Chats \X Epochs : t # th => saved'[t] = saved[t]
    BY <1>1, <2>1
  <2> QED BY <2>2 DEF th
<1>11. ASSUME LoadThread(g)
       PROVE  /\ log'[g].pc = "loaded" /\ log'[g].saw = saved[Thread(g)]
              /\ log[g].pc = "keyed" /\ ~log'[g].ok /\ saved' = saved
  BY <1>1, <1>3, <1>11 DEF LoadThread, Event
<1>12. ASSUME Checkpoint(g)
       PROVE  /\ log'[g].pc = "working" /\ log'[g].saw = log[g].saw
              /\ log[g].pc \in UnderWay /\ ~log'[g].ok
              /\ saved'[Thread(g)] = log[g].saw \cup {<<g, "asked">>}
  BY <1>1, <1>3, <1>4, <1>12 DEF Checkpoint, Save, Event
<1>13. ASSUME Answer(g)
       PROVE  /\ log'[g].pc = "ended" /\ log'[g].saw = log[g].saw
              /\ log[g].pc = "working" /\ log'[g].ok
              /\ saved'[Thread(g)] = log[g].saw \cup ({g} \X Part)
  BY <1>1, <1>4, <1>13 DEF Answer, Concludes, Save, Event
<1> QED BY <1>1, <1>2, <1>3, <1>4, <1>6, <1>8, <1>9, <1>10, <1>11, <1>12, <1>13

\* In a Telegram chat without jobs the step keeps what the thread has.
LEMMA ThreadGrows ==
  ASSUME OrderInv, NEW g \in Events, OnThread(g), NEW c \in Orderly, log[g].chat = c
  PROVE  saved[Thread(g)] \subseteq saved'[Thread(g)]
<1>1. CInv /\ Concluded /\ InOneThread(c) /\ g \in OfChat(c)
  BY DEF OrderInv, OfChat
<1>2. /\ log[g].pc = "loaded" => saved[Thread(g)] = log[g].saw
      /\ log[g].pc = "working" => saved[Thread(g)] = log[g].saw \cup {<<g, "asked">>}
  BY <1>1 DEF InOneThread
<1>3. <<g, "asked">> \in {g} \X Part
  BY DEF Part
<1>4. CASE LoadThread(g)
  BY <1>4 DEF LoadThread
<1>5. CASE Checkpoint(g)
  <2>1. log[g].pc \in UnderWay /\ saved'[Thread(g)] = log[g].saw \cup {<<g, "asked">>}
    BY <1>1, <1>5, ThreadStep
  <2> QED BY <1>2, <2>1 DEF UnderWay
<1>6. CASE Answer(g)
  <2>1. log[g].pc = "working" /\ saved'[Thread(g)] = log[g].saw \cup ({g} \X Part)
    BY <1>1, <1>6, ThreadStep
  <2> QED BY <1>2, <1>3, <2>1
<1> QED BY <1>4, <1>5, <1>6 DEF OnThread

LEMMA TurnInOneThread ==
  ASSUME OrderInv, CInv', NEW g \in Events, OnThread(g), NEW c \in Orderly
  PROVE  InOneThread(c)'
<1>1. /\ CInv /\ TakenInOrder /\ RepliedBefore /\ JobsOfChats /\ InOneThread(c) /\ Concluded
      /\ c \in Serial \ JobChats
  BY DEF OrderInv, Orderly
<1>2. /\ IsTurn(g) /\ log[g].pc \in {"keyed"} \cup UnderWay /\ Thread(g) \in Chats \X Epochs
      /\ Events' = Events /\ ~log[g].ok
      /\ \A i \in Events : i # g => log'[i] = log[i]
      /\ \A i \in Events : Thread(i)' = Thread(i) /\ log'[i].kind = log[i].kind
                           /\ log'[i].chat = log[i].chat /\ log'[i].thread = log[i].thread
      /\ log'[g].after = log[g].after
      /\ \A t \in Chats \X Epochs : t # Thread(g) => saved'[t] = saved[t]
  BY <1>1, ThreadStep
<1>3. \A e \in OfChat(c) : \A f \in log[e].after :
        f \in OfChat(c) /\ f # g /\ log'[f] = log[f]
  <2>1. \A e \in OfChat(c) : \A f \in log[e].after : f \in OfChat(c) /\ log[f].pc = "replied"
    BY <1>1 DEF RepliedBefore, OfChat
  <2> QED BY <1>2, <2>1 DEF UnderWay, OfChat
<1>4. ASSUME NEW e \in OfChat(c), IsTurn(e), e # g PROVE Follows(e)
  <2>1. e \in Events /\ log[e].chat = c /\ log[e] \in Event /\ log'[e] = log[e]
    BY <1>1, <1>2, <1>4, EventNumbers DEF OfChat, CInv
  <2>2. log[e].thread # NoRow => Thread(e) \in Chats \X Epochs
    BY <2>1 DEF Thread, Event
  <2>3. Thread(e) = Thread(g) => log[g].chat = c
    BY <2>1 DEF Thread
  <2>4. log[e].thread # NoRow => saved[Thread(e)] \subseteq saved'[Thread(e)]
    BY <1>2, <2>2, <2>3, ThreadGrows
  <2>5. log[e].ok => {e} \X Part \subseteq saved'[Thread(e)]
    <3>1. log[e].ok => log[e].thread # NoRow /\ {e} \X Part \subseteq saved[Thread(e)]
      BY <1>1, <1>4, <2>1 DEF InOneThread, Concluded
    <3> QED BY <2>4, <3>1
  <2>6. ASSUME log[e].pc \in UnderWay PROVE saved'[Thread(e)] = saved[Thread(e)]
    <3>1. log[e].thread # NoRow
      BY <1>1, <2>1, <2>6 DEF CInv, Threaded
    <3>2. Thread(e) # Thread(g)
      <4> SUFFICES ASSUME Thread(e) = Thread(g) PROVE FALSE
        OBVIOUS
      <4>1. g \in OfChat(c)
        BY <2>3 DEF OfChat
      <4> QED BY <1>1, <1>2, <1>4, <2>6, <4>1, OneAtATime DEF Taken, Over, UnderWay
    <3> QED BY <1>2, <2>2, <3>1, <3>2
  <2>7. /\ log[e].pc = "loaded" => saved[Thread(e)] = log[e].saw
        /\ log[e].pc = "working" => saved[Thread(e)] = log[e].saw \cup {<<e, "asked">>}
        /\ log[e].ok \/ log[e].pc \in UnderWay =>
             \A f \in log[e].after :
               IsTurn(f) /\ log[f].ok /\ log[f].thread = log[e].thread =>
                 {f} \X Part \subseteq log[e].saw
    BY <1>1, <1>4 DEF InOneThread
  <2>8. Thread(e)' = Thread(e) /\ \A f \in log[e].after : log'[f] = log[f]
    BY <1>2, <1>3, <1>4, <2>1
  <2> QED BY <2>1, <2>5, <2>6, <2>7, <2>8 DEF Follows, IsTurn, UnderWay
<1>5. ASSUME log[g].chat = c PROVE Follows(g)
  <2>1. g \in OfChat(c)
    BY <1>5 DEF OfChat
  <2>2. ASSUME NEW f \in log[g].after, IsTurn(f), log[f].ok, log[f].thread = log[g].thread
        PROVE  {f} \X Part \subseteq log'[g].saw
    <3>1. f \in OfChat(c) /\ Thread(f) = Thread(g)
      BY <1>3, <1>5, <2>1, <2>2 DEF Thread, OfChat
    <3>2. CASE LoadThread(g)
      <4>1. log'[g].saw = saved[Thread(g)]
        BY <1>1, <3>2, ThreadStep DEF OnThread
      <4> QED BY <1>1, <2>2, <3>1, <4>1 DEF InOneThread
    <3>3. CASE Checkpoint(g) \/ Answer(g)
      <4>1. log'[g].saw = log[g].saw /\ log[g].pc \in UnderWay
        BY <1>1, <3>3, ThreadStep DEF OnThread, UnderWay
      <4> QED BY <1>1, <1>2, <2>1, <2>2, <4>1 DEF InOneThread
    <3> QED BY <3>2, <3>3 DEF OnThread
  <2>3. \A f \in log'[g].after :
          log'[f].kind # "reset" /\ log'[f].ok /\ log'[f].thread = log'[g].thread =>
            {f} \X Part \subseteq log'[g].saw
    BY <1>2, <1>3, <2>1, <2>2 DEF IsTurn
  <2>4. /\ log'[g].ok => {g} \X Part \subseteq saved'[Thread(g)]
        /\ log'[g].pc = "loaded" => saved'[Thread(g)] = log'[g].saw
        /\ log'[g].pc = "working" => saved'[Thread(g)] = log'[g].saw \cup {<<g, "asked">>}
    <3>1. CASE LoadThread(g)
      BY <1>1, <3>1, ThreadStep DEF OnThread
    <3>2. CASE Checkpoint(g)
      BY <1>1, <3>2, ThreadStep DEF OnThread
    <3>3. CASE Answer(g)
      BY <1>1, <3>3, ThreadStep DEF OnThread
    <3> QED BY <3>1, <3>2, <3>3 DEF OnThread
  <2> QED BY <1>2, <2>3, <2>4 DEF Follows
<1>6. ASSUME NEW e \in Events', log'[e].chat = c, log'[e].kind # "reset" PROVE Follows(e)
  <2>1. e \in OfChat(c) /\ IsTurn(e)
    BY <1>2, <1>6 DEF OfChat, IsTurn
  <2> QED BY <1>4, <1>5, <2>1 DEF OfChat
<1> QED BY <1>6, FollowsIsInOneThread

\* A part that is in a thread or was seen in one.
Told(m) == \/ \E t \in Chats \X Epochs : m \in saved[t]
           \/ \E e \in Events : m \in log[e].saw

LEMMA ToldFacts ==
  ASSUME CInv, Spoken, NEW m, Told(m)
  PROVE  m[1] \in Events /\ Said(m)
BY DEF CInv, Apart, Spoken, Told

\* What was said stays said; a step may repeat it, or say what it lets be said.
LEMMA SpokenKept ==
  ASSUME CInv, Spoken, Steps,
         \A t \in Chats \X Epochs : \A m \in saved'[t] : Told(m) \/ Said(m)',
         \A e \in Events : \A m \in log'[e].saw : Told(m) \/ Said(m)'
  PROVE  Spoken'
<1>1. ASSUME NEW m, Told(m) PROVE Said(m)'
  <2>1. m[1] \in Events /\ Said(m) /\ Advances(m[1])
    BY <1>1, ToldFacts DEF Steps
  <2> QED BY <2>1 DEF Said, Advances, Silent, Waiting, UnderWay, Loads
<1>2. \A e \in Events' : \A m \in log'[e].saw : Said(m)'
  BY <1>1 DEF Steps, Arrives
<1> QED BY <1>1, <1>2 DEF Spoken

LEMMA ConcludedKept ==
  ASSUME CInv, Concluded, Steps
  PROVE  Concluded'
<1> SUFFICES ASSUME NEW e \in Events', log'[e].ok
             PROVE  /\ log'[e].pc \in {"ended"} \cup Over
                    /\ log'[e].kind # "reset" => log'[e].thread # NoRow
  BY DEF Concluded, IsTurn
<1>1. e \in Events /\ Advances(e)
  BY DEF Steps, Arrives
<1>2. CASE log'[e].ok = log[e].ok
  <2>1. log[e].pc \in {"ended"} \cup Over /\ (IsTurn(e) => log[e].thread # NoRow)
    BY <1>1, <1>2 DEF Concluded
  <2> QED BY <1>1, <2>1 DEF Advances, IsTurn, Over
<1>3. CASE log'[e].ok # log[e].ok
  <2>1. log'[e].pc = "ended" /\ (IsTurn(e) => log[e].pc = "working")
    BY <1>1, <1>3 DEF Advances
  <2>2. IsTurn(e) => log[e].thread # NoRow
    BY <1>1, <2>1 DEF CInv, Threaded, UnderWay, UnderWay
  <2> QED BY <1>1, <2>1, <2>2 DEF Advances, IsTurn
<1> QED BY <1>2, <1>3

LEMMA LostKept ==
  ASSUME CInv, Concluded, Beside, LostOnlyToOverlap, Steps,
         \A f \in Events :
           IsTurn(f) /\ log'[f].ok /\ <<f, "answer">> \notin saved'[Thread(f)'] =>
             \/ log[f].ok /\ <<f, "answer">> \notin saved[Thread(f)]
             \/ \E g \in Events : Overlap(f, g)
  PROVE  LostOnlyToOverlap'
<1> SUFFICES ASSUME NEW f \in Events', log'[f].kind # "reset", log'[f].ok,
                    <<f, "answer">> \notin saved'[Thread(f)']
             PROVE  \E g \in Events' : Overlap(f, g)'
  BY DEF LostOnlyToOverlap, IsTurn
<1>1. f \in Events /\ IsTurn(f)
  BY DEF Steps, Arrives, Advances, IsTurn
<1>2. PICK g \in Events : Overlap(f, g)
  BY <1>1 DEF LostOnlyToOverlap
<1> QED BY <1>1, <1>2, OverlapStays DEF Steps

\* A checkpoint takes out of its thread what the turn has not loaded: answers of
\* turns that ran beside it, or were lost by then.
LEMMA TurnTold ==
  ASSUME OrderInv, NEW g \in Events, OnThread(g)
  PROVE  Spoken' /\ LostOnlyToOverlap'
<1>1. CInv /\ Spoken /\ Concluded /\ LostOnlyToOverlap /\ Beside
  BY DEF OrderInv
<1>2. /\ IsTurn(g) /\ Thread(g) \in Chats \X Epochs /\ ~log[g].ok /\ Steps /\ Events' = Events
      /\ \A i \in Events : i # g => log'[i] = log[i]
      /\ \A i \in Events : Thread(i)' = Thread(i)
      /\ \A t \in Chats \X Epochs : t # Thread(g) => saved'[t] = saved[t]
  BY <1>1, ThreadStep
<1>3. \/ log'[g].saw = saved[Thread(g)] /\ saved' = saved /\ ~log'[g].ok
      \/ /\ log'[g].saw = log[g].saw /\ log[g].pc \in UnderWay
         /\ \/ log'[g].pc = "working" /\ ~log'[g].ok
               /\ saved'[Thread(g)] = log[g].saw \cup {<<g, "asked">>}
            \/ log'[g].pc = "ended" /\ log'[g].ok
               /\ saved'[Thread(g)] = log[g].saw \cup ({g} \X Part)
  BY <1>1, ThreadStep DEF OnThread, UnderWay
<1>4. \A m \in saved'[Thread(g)] : Told(m) \/ Said(m)'
  <2>1. CASE saved' = saved
    BY <1>2, <2>1 DEF Told
  <2>2. CASE log'[g].pc = "working" /\ saved'[Thread(g)] = log[g].saw \cup {<<g, "asked">>}
    BY <2>2 DEF Told, Said, Waiting
  <2>3. CASE log'[g].pc = "ended" /\ log'[g].ok
             /\ saved'[Thread(g)] = log[g].saw \cup ({g} \X Part)
    BY <2>3 DEF Told, Said, Waiting
  <2> QED BY <1>3, <2>1, <2>2, <2>3
<1>5. \A t \in Chats \X Epochs : \A m \in saved'[t] : Told(m) \/ Said(m)'
  BY <1>2, <1>4 DEF Told
<1>6. \A e \in Events : \A m \in log'[e].saw : Told(m) \/ Said(m)'
  BY <1>2, <1>3 DEF Told
<1>7. Spoken'
  BY <1>1, <1>2, <1>5, <1>6, SpokenKept
<1>8. ASSUME NEW f \in Events, IsTurn(f), log'[f].ok, <<f, "answer">> \notin saved'[Thread(f)']
      PROVE  \/ log[f].ok /\ <<f, "answer">> \notin saved[Thread(f)]
             \/ \E h \in Events : Overlap(f, h)
  <2>1. f # g
    <3>1. <<f, "answer">> \in {f} \X Part
      BY DEF Part
    <3> QED BY <1>2, <1>3, <1>8, <3>1
  <2>2. log[f].ok /\ <<f, "answer">> \notin saved'[Thread(f)]
    BY <1>2, <1>8, <2>1
  <2>3. Thread(f) \in Chats \X Epochs
    <3>1. log[f].thread # NoRow /\ log[f] \in Event
      BY <1>1, <1>8, <2>2, EventNumbers DEF Concluded, CInv
    <3> QED BY <3>1 DEF Thread, Event
  <2>4. ASSUME <<f, "answer">> \in saved[Thread(f)]
        PROVE  \E h \in Events : Overlap(f, h)
    <3>1. Thread(f) = Thread(g) /\ log[g].pc \in UnderWay /\ <<f, "answer">> \notin log[g].saw
      BY <1>2, <1>3, <2>2, <2>3, <2>4
    <3> QED BY <1>1, <1>8, <2>1, <2>2, <3>1 DEF Beside
  <2> QED BY <2>2, <2>4
<1>9. LostOnlyToOverlap'
  BY <1>1, <1>2, <1>8, LostKept
<1> QED BY <1>7, <1>9

LEMMA OnNewestKept ==
  ASSUME CInv, TakenInOrder, JobsOfChats, Steps, NEW c \in Orderly, OnNewest(c),
         epoch'[c] = epoch[c] \/ \E e \in OfChat(c) : log[e].pc = "called"
  PROVE  OnNewest(c)'
<1> SUFFICES ASSUME NEW e \in Events', log'[e].chat = c, log'[e].pc \in {"keyed"} \cup UnderWay
             PROVE  log'[e].thread = epoch'[c]
  BY DEF OnNewest, OfChat
<1>1. e \in Events
  BY DEF Steps, Arrives, UnderWay
<1>2. Advances(e) /\ e \in OfChat(c) /\ log[e].chat = c
  BY <1>1 DEF Steps, Advances, OfChat
<1>3. CASE log[e].pc \in {"keyed"} \cup UnderWay
  <2>1. log'[e].thread = log[e].thread /\ log[e].thread = epoch[c]
    BY <1>2, <1>3 DEF Advances, OnNewest, UnderWay
  <2>2. ASSUME NEW f \in OfChat(c), log[f].pc = "called" PROVE FALSE
    BY <1>2, <1>3, <2>2, OneAtATime DEF Taken, Over, Orderly, UnderWay
  <2> QED BY <2>1, <2>2
<1>4. CASE log[e].pc \notin {"keyed"} \cup UnderWay
  BY <1>2, <1>4 DEF Advances
<1> QED BY <1>3, <1>4

\* An epoch changes by an event of its chat whose handler runs.
LEMMA EpochKept ==
  ASSUME CInv, [Next]_vars, NEW c \in Chats
  PROVE  epoch'[c] = epoch[c] \/ \E e \in OfChat(c) : log[e].pc = "called"
<1>1. ASSUME NEW e \in Events, Reset(e) \/ ThreadId(e)
      PROVE  epoch'[c] = epoch[c] \/ (e \in OfChat(c) /\ log[e].pc = "called")
  <2>1. epoch'[c] = epoch[c] \/ log[e].chat = c
    BY <1>1 DEF Reset, ThreadId, CInv, TypeOK
  <2> QED BY <1>1, <2>1 DEF Reset, ThreadId, OfChat
<1>2. (\E e \in Events : Reset(e) \/ ThreadId(e)) \/ UNCHANGED epoch
  BY DEF Next, Handle, FireJob, Arrive, Take, LoadThread, Checkpoint, Answer, Concludes, Fail,
         Reply, Crash, Quiet, vars
<1> QED BY <1>1, <1>2

\* Steps that save nothing and let no turn see or answer anything.
Plain ==
  /\ UNCHANGED saved
  /\ \A e \in Events : /\ IsTurn(e) => log'[e].ok = log[e].ok
                       /\ log'[e].saw = log[e].saw
                       /\ log'[e].pc \in UnderWay => log'[e].pc = log[e].pc

LEMMA PlainOrder ==
  ASSUME OrderInv, CInv', Steps, Plain
  PROVE  Spoken' /\ LostOnlyToOverlap' /\ \A c \in Orderly : InOneThread(c)'
<1>1. CInv /\ Spoken /\ Concluded /\ Beside /\ LostOnlyToOverlap /\ RepliedBefore
  BY DEF OrderInv
<1>2. Spoken'
  <2>1. \A t \in Chats \X Epochs : \A m \in saved'[t] : Told(m)
    BY DEF Plain, Told
  <2>2. \A e \in Events : \A m \in log'[e].saw : Told(m)
    BY DEF Plain, Told
  <2> QED BY <1>1, <2>1, <2>2, SpokenKept
<1>3. LostOnlyToOverlap'
  <2>1. ASSUME NEW f \in Events, IsTurn(f), log'[f].ok, <<f, "answer">> \notin saved'[Thread(f)']
        PROVE  log[f].ok /\ <<f, "answer">> \notin saved[Thread(f)]
    <3>1. log[f].ok
      BY <2>1 DEF Plain
    <3>2. Thread(f)' = Thread(f)
      BY <1>1, <2>1, <3>1, AnsweredStays
    <3> QED BY <2>1, <3>1, <3>2 DEF Plain
  <2> QED BY <1>1, <2>1, LostKept
<1>4. ASSUME NEW c \in Orderly PROVE InOneThread(c)'
  <2>1. c \in Chats /\ InOneThread(c)
    BY ConversationsAssumption DEF OrderInv, Orderly
  <2> QED BY <1>1, <2>1, InOneThreadKept DEF Plain
<1> QED BY <1>2, <1>3, <1>4

LEMMA EventPlain ==
  ASSUME CInv, NEW e \in Events, Take(e) \/ Reset(e) \/ ThreadId(e) \/ Fail(e) \/ Reply(e)
  PROVE  Plain
<1>1. /\ \A i \in Events : i # e => log'[i] = log[i]
      /\ UNCHANGED saved
  BY HandleSteps DEF Handle, Take, Reset, ThreadId, Fail, Reply
<1>2. log[e] \in Event /\ log \in Seq(Event) /\ Events = 1..Len(log)
  BY EventNumbers DEF CInv, TypeOK
<1>3. PICK pc, thread, cut, ok :
        /\ pc \notin UnderWay /\ (IsTurn(e) => ok = log[e].ok)
        /\ log' = [log EXCEPT ![e] = [log[e] EXCEPT !.pc = pc, !.thread = thread, !.cut = cut, !.ok = ok]]
  <2>1. CASE Take(e) \/ Fail(e) \/ Reply(e)
    <3>1. PICK pc \in {"called", "ended", "unsent", "replied"} : log' = [log EXCEPT ![e].pc = pc]
      BY <2>1 DEF Take, Fail, Reply
    <3>2. log' = [log EXCEPT ![e] = [log[e] EXCEPT !.pc = pc, !.thread = log[e].thread,
                                                   !.cut = log[e].cut, !.ok = log[e].ok]]
      BY <1>2, <3>1 DEF Event
    <3> QED BY <3>2 DEF UnderWay
  <2>2. CASE Reset(e)
    <3>1. /\ log' = [log EXCEPT ![e].pc = "ended", ![e].ok = TRUE, ![e].cut = Keyed(log[e].chat)]
          /\ ~IsTurn(e)
      BY <2>2 DEF Reset, IsTurn
    <3>2. log' = [log EXCEPT ![e] = [log[e] EXCEPT !.pc = "ended", !.thread = log[e].thread,
                                                   !.cut = Keyed(log[e].chat), !.ok = TRUE]]
      BY <1>2, <3>1 DEF Event
    <3> WITNESS "ended", log[e].thread, Keyed(log[e].chat), TRUE
    <3> QED BY <3>1, <3>2 DEF UnderWay
  <2>3. CASE ThreadId(e)
    <3> DEFINE stored == IF epoch[log[e].chat] = NoRow THEN 0 ELSE epoch[log[e].chat]
    <3>1. log' = [log EXCEPT ![e].pc = "keyed", ![e].thread = stored]
      BY <2>3 DEF ThreadId
    <3> HIDE DEF stored
    <3>2. log' = [log EXCEPT ![e] = [log[e] EXCEPT !.pc = "keyed", !.thread = stored,
                                                   !.cut = log[e].cut, !.ok = log[e].ok]]
      BY <1>2, <3>1 DEF Event
    <3> QED BY <3>2 DEF UnderWay
  <2> QED BY <2>1, <2>2, <2>3
<1>4. /\ IsTurn(e) => log'[e].ok = log[e].ok
      /\ log'[e].saw = log[e].saw /\ log'[e].pc \notin UnderWay
  BY <1>2, <1>3, LogFacts DEF Event
<1> QED BY <1>1, <1>4 DEF Plain

LEMMA CrashPlain ==
  ASSUME TypeOK, Crash
  PROVE  Plain
<1>1. \A e \in Events : log[e] \in Event
  BY EventNumbers
<1>2. \A e \in Events :
        log'[e] = IF log[e].pc \in Over THEN log[e] ELSE [log[e] EXCEPT !.pc = "lost"]
  BY CrashSteps
<1>3. UNCHANGED saved
  BY DEF Crash
<1> SUFFICES ASSUME NEW e \in Events
             PROVE  /\ IsTurn(e) => log'[e].ok = log[e].ok
                    /\ log'[e].saw = log[e].saw
                    /\ log'[e].pc \in UnderWay => log'[e].pc = log[e].pc
  BY <1>3 DEF Plain
<1> QED BY <1>1, <1>2 DEF Event, Over, UnderWay

LEMMA NextOrderInv ==
  ASSUME OrderInv, [Next]_vars
  PROVE  OrderInv'
<1>1. CInv /\ TypeOK /\ CInv' /\ Concluded /\ Beside /\ LostOnlyToOverlap
  BY NextCInv DEF OrderInv, CInv
<1>2. Steps
  <2>1. ASSUME NEW c \in Chats, Arrive(c, "message") \/ Arrive(c, "reset") \/ FireJob(c)
        PROVE  Steps
    BY <1>1, <2>1, ArriveSteps DEF FireJob
  <2>2. ASSUME NEW e \in Events, Handle(e) PROVE Steps
    BY <1>1, <2>2, HandleSteps
  <2>3. CASE Crash
    BY <1>1, <2>3, CrashSteps
  <2>4. CASE Quiet \/ UNCHANGED vars
    BY <2>4, StaySteps DEF Quiet
  <2> QED BY <2>1, <2>2, <2>3, <2>4 DEF Next
<1>3. TakenInOrder' /\ ResetsCut' /\ RepliedBefore' /\ JobsOfChats' /\ Concluded' /\ Beside'
  BY <1>1, <1>2, TakenInOrderKept, ResetsCutKept, RepliedBeforeKept, JobsOfChatsKept,
     ConcludedKept, BesideKept DEF OrderInv
<1>4. ASSUME NEW c \in Orderly PROVE OnNewest(c)'
  <2>1. c \in Chats /\ OnNewest(c)
    BY ConversationsAssumption DEF OrderInv, Orderly
  <2> QED BY <1>1, <1>2, <2>1, EpochKept, OnNewestKept DEF OrderInv
<1>5. Spoken' /\ LostOnlyToOverlap' /\ \A c \in Orderly : InOneThread(c)'
  <2>1. ASSUME NEW d \in Chats, Arrive(d, "message") \/ Arrive(d, "reset") \/ FireJob(d)
        PROVE  Plain
    <3>1. (\A e \in Events : log'[e] = log[e]) /\ UNCHANGED saved
      BY <1>1, <2>1, ArriveSteps DEF FireJob
    <3> QED BY <3>1 DEF Plain
  <2>2. ASSUME NEW e \in Events, Take(e) \/ Reset(e) \/ ThreadId(e) \/ Fail(e) \/ Reply(e)
        PROVE  Plain
    BY <1>1, <2>2, EventPlain
  <2>3. ASSUME NEW e \in Events, OnThread(e)
        PROVE  Spoken' /\ LostOnlyToOverlap' /\ \A c \in Orderly : InOneThread(c)'
    BY <1>1, <2>3, TurnInOneThread, TurnTold
  <2>4. ASSUME Crash PROVE Plain
    BY <1>1, <2>4, CrashPlain
  <2>5. ASSUME Quiet \/ UNCHANGED vars PROVE Plain
    <3>1. UNCHANGED <<log, saved>>
      BY <2>5 DEF Quiet, vars
    <3> QED BY <3>1 DEF Plain
  <2> QED BY <1>1, <1>2, <2>1, <2>2, <2>3, <2>4, <2>5, PlainOrder DEF Next, Handle, OnThread
<1> QED BY <1>1, <1>3, <1>4, <1>5 DEF OrderInv

\* Telegram's order of updates, with what it does to resets and threads.
THEOREM OrderInvariance == Spec => []OrderInv
<1>1. Init => OrderInv
  <2> SUFFICES ASSUME Init PROVE OrderInv
    OBVIOUS
  <2>1. CInv /\ Events = {}
    BY InitCInv DEF Init, Events
  <2>2. \A t \in Chats \X Epochs : saved[t] = {}
    BY DEF Init
  <2> QED BY <2>1, <2>2
          DEF OrderInv, Spoken, Concluded, Beside, LostOnlyToOverlap, TakenInOrder, ResetsCut,
              RepliedBefore, JobsOfChats, OnNewest, InOneThread, OfChat
<1> QED BY <1>1, NextOrderInv, PTL DEF Spec

\* An answer that is no longer in its thread was lost to an overlapping turn,
\* in chats of either platform, with jobs, resets, failures and crashes.
THEOREM LostOnlyToOverlapCorrect == Spec => []LostOnlyToOverlap
<1>1. OrderInv => LostOnlyToOverlap
  BY DEF OrderInv
<1> QED BY <1>1, OrderInvariance, PTL

-----------------------------------------------------------------------------
(***************************************************************************)
(* A Telegram chat without jobs implements Dialogue.                       *)
(***************************************************************************)
Conv(c) == saved[Current(c)]
Stays(c) == Done(c)' = Done(c) /\ Seen(c)' = Seen(c) /\ Conv(c)' = Conv(c)

\* A turn is in effect from its first checkpoint on.
LEMMA InEffectTurn ==
  ASSUME CInv, Spoken, NEW e \in Events, IsTurn(e), InEffect(e)
  PROVE  log[e].thread # NoRow /\ log[e].pc \notin Silent /\ Thread(e) \in Chats \X Epochs
<1>1. log[e].thread # NoRow /\ <<e, "asked">> \in saved[Thread(e)] /\ log[e] \in Event
  BY EventNumbers DEF InEffect, CInv
<1>2. Thread(e) \in Chats \X Epochs
  BY <1>1 DEF Thread, Event
<1> QED BY <1>1, <1>2 DEF Spoken, Said, Silent, Waiting, UnderWay, Loads

\* A chat is as it was when its threads and what it saw are, no reset of it is
\* stored, and its epoch is at most given a row.
LEMMA ChatStays ==
  ASSUME CInv, Spoken, Steps, NEW c \in Orderly, Current(c)' = Current(c), Current(c)[2] \in Epochs,
         \A k \in Epochs : saved'[<<c, k>>] = saved[<<c, k>>],
         \A e \in OfChat(c) : /\ InEffect(e) => log'[e].saw = log[e].saw
                              /\ ~IsTurn(e) => log'[e].ok = log[e].ok,
         CInv'
  PROVE  Stays(c)
<1>1. Conv(c)' = Conv(c)
  BY DEF Conv, Current
<1>2. \A e \in Events : Advances(e) /\ e \in Events' /\ (IsTurn(e)' <=> IsTurn(e))
  BY DEF Steps, Advances, IsTurn
<1>3. ASSUME NEW e \in OfChat(c)' PROVE InEffect(e)' => e \in OfChat(c)
  <2>1. e \in Events' /\ log'[e].chat = c
    BY DEF OfChat
  <2>2. CASE e \in Events
    BY <1>2, <2>1, <2>2 DEF Advances, OfChat
  <2>3. CASE e \notin Events
    BY <2>1, <2>3 DEF Steps, Arrives, InEffect, IsTurn
  <2> QED BY <2>2, <2>3
<1>4. ASSUME NEW e \in OfChat(c) PROVE InEffect(e)' <=> InEffect(e)
  <2>1. e \in Events /\ log[e].chat = c /\ log[e] \in Event /\ Advances(e) /\ log'[e].chat = c
    BY <1>2, EventNumbers DEF OfChat, CInv, Advances
  <2>2. CASE ~IsTurn(e)
    BY <1>2, <2>1, <2>2 DEF InEffect
  <2>3. CASE IsTurn(e) /\ log[e].thread # NoRow
    <3>1. log'[e].thread = log[e].thread
      BY <2>1, <2>3 DEF Advances, CInv, Threaded, UnderWay
    <3>2. saved'[Thread(e)'] = saved[Thread(e)]
      BY <2>1, <2>3, <3>1 DEF Thread, Event
    <3> QED BY <1>2, <2>1, <2>3, <3>1, <3>2 DEF InEffect
  <2>4. CASE IsTurn(e) /\ log[e].thread = NoRow
    <3>1. ~InEffect(e)
      BY <2>4 DEF InEffect
    <3>2. ASSUME log'[e].thread # NoRow, <<e, "asked">> \in saved'[Thread(e)'] PROVE FALSE
      <4>1. log'[e] \in Event
        BY <1>2, <2>1, LogFacts DEF CInv, TypeOK, Events
      <4>2. log'[e].thread \in Epochs /\ c \in Chats
        BY <2>1, <3>2, <4>1 DEF Event
      <4>3. Thread(e)' = <<c, log'[e].thread>>
        BY <2>1 DEF Thread
      <4>4. <<e, "asked">> \in saved[<<c, log'[e].thread>>]
        BY <3>2, <4>2, <4>3
      <4>5. Thread(e) = <<c, log'[e].thread>>
        BY <4>2, <4>4 DEF CInv, Apart
      <4> QED BY <2>4, <3>2, <4>5 DEF Thread
    <3> QED BY <1>2, <2>1, <2>4, <3>1, <3>2 DEF InEffect
  <2> QED BY <2>2, <2>3, <2>4
<1>5. Done(c)' = Done(c)
  BY <1>2, <1>3, <1>4 DEF Done, OfChat, Advances
<1>6. \A e \in Done(c) : (IsTurn(e)' <=> IsTurn(e)) /\ log'[e].saw = log[e].saw
  BY <1>2 DEF Done, OfChat
<1>7. Seen(c)' = Seen(c)
  BY <1>5, <1>6 DEF Seen
<1> QED BY <1>1, <1>5, <1>7 DEF Stays

\* What runs is the last to take effect.
LEMMA RunsLast ==
  ASSUME OrderInv, NEW c \in Orderly, NEW e \in OfChat(c), log[e].pc \in Taken \ Over
  PROVE  \A d \in Done(c) : d \in Int /\ e \in Int /\ d <= e
<1>1. CInv /\ TakenInOrder /\ JobsOfChats /\ c \in Serial /\ c \notin JobChats /\ TypeOK
  BY DEF OrderInv, CInv, Orderly
<1>2. Len(log) \in Nat /\ Events = 1..Len(log)
  BY <1>1, EventNumbers
<1> SUFFICES ASSUME NEW d \in Done(c), d > e PROVE FALSE
  BY <1>2 DEF Done, OfChat
<1>3. d \in Events /\ log[d].chat = c /\ e \in Events /\ log[e].chat = c /\ Begun(d)
  BY DEF Done, OfChat, InEffect, Begun
<1>4. Serialized(d) /\ Serialized(e)
  BY <1>1, <1>3 DEF Serialized, JobsOfChats
<1> QED BY <1>1, <1>2, <1>3, <1>4 DEF TakenInOrder

\* The other chats are as they were.
LEMMA OthersStay ==
  ASSUME OrderInv, NEW e \in Events, Reset(e) \/ OnThread(e),
         NEW c \in Orderly, c # log[e].chat, CInv'
  PROVE  Stays(c)
<1>1. /\ CInv /\ Spoken /\ Concluded /\ TypeOK /\ Steps /\ log[e] \in Event /\ c \in Chats
      /\ \A i \in Events : i # e => log'[i] = log[i]
  BY HandleSteps, EventNumbers, ConversationsAssumption
     DEF OrderInv, CInv, Handle, OnThread, Orderly
<1>2. epoch'[c] = epoch[c]
  BY <1>1, ThreadStep DEF Reset, TypeOK
<1>3. Current(c)' = Current(c) /\ Current(c)[2] \in Epochs
  BY <1>1, <1>2, ConversationsAssumption DEF Current, TypeOK, Epochs
<1>4. \A k \in Epochs : <<c, k>> # Thread(e) /\ <<c, k>> \in Chats \X Epochs
  BY <1>1 DEF Thread
<1>5. \A k \in Epochs : saved'[<<c, k>>] = saved[<<c, k>>]
  BY <1>1, <1>4, ThreadStep DEF Reset
<1>6. \A i \in OfChat(c) : i \in Events /\ i # e
  BY DEF OfChat
<1> QED BY <1>1, <1>3, <1>5, <1>6, ChatStays

\* A Telegram chat without jobs: its turn is on the newest thread, which holds what
\* it loaded, and once it works what it asked.
LEMMA NewestThread ==
  ASSUME OrderInv, NEW e \in Events, OnThread(e), NEW c \in Orderly, log[e].chat = c
  PROVE  /\ Current(c) = Thread(e) /\ Current(c)' = Thread(e) /\ e \in OfChat(c)
         /\ OfChat(c)' = OfChat(c)
         /\ log[e].pc = "loaded" => saved[Thread(e)] = log[e].saw
         /\ log[e].pc = "working" => saved[Thread(e)] = log[e].saw \cup {<<e, "asked">>}
<1>1. CInv /\ Concluded /\ e \in OfChat(c) /\ InOneThread(c) /\ OnNewest(c)
  BY DEF OrderInv, OfChat
<1>2. /\ log[e].pc \in {"keyed"} \cup UnderWay /\ log[e].thread # NoRow /\ UNCHANGED epoch
      /\ Events' = Events /\ \A i \in Events : log'[i].chat = log[i].chat
  BY <1>1, ThreadStep
<1>3. log[e].thread = epoch[c]
  BY <1>1, <1>2 DEF OnNewest
<1> QED BY <1>1, <1>2, <1>3 DEF Current, Thread, InOneThread, OfChat

\* Loading says nothing, and nor does another checkpoint of a turn that has one.
LEMMA TurnStays ==
  ASSUME OrderInv, CInv', NEW e \in Events, OnThread(e),
         LoadThread(e) \/ (Checkpoint(e) /\ log[e].pc = "working"),
         NEW c \in Orderly, log[e].chat = c
  PROVE  Stays(c)
<1>1. CInv /\ Spoken /\ Concluded /\ TypeOK /\ c \in Chats
  BY ConversationsAssumption DEF OrderInv, CInv, Orderly
<1>2. /\ Thread(e) \in Chats \X Epochs /\ Steps
      /\ \A i \in Events : i # e => log'[i] = log[i]
      /\ \A t \in Chats \X Epochs : t # Thread(e) => saved'[t] = saved[t]
      /\ IsTurn(e)
  BY <1>1, ThreadStep
<1>3. Current(c) = Thread(e) /\ Current(c)' = Thread(e)
  BY NewestThread
<1>4. saved'[Thread(e)] = saved[Thread(e)] /\ (InEffect(e) => log'[e].saw = log[e].saw)
  <2>1. CASE LoadThread(e)
    <3>1. log[e].pc = "keyed" /\ saved' = saved
      BY <1>1, <2>1, ThreadStep
    <3> QED BY <1>1, <1>2, <3>1, InEffectTurn DEF Silent, Waiting
  <2>2. CASE Checkpoint(e) /\ log[e].pc = "working"
    BY <1>1, <2>2, ThreadStep, NewestThread
  <2> QED BY <2>1, <2>2
<1>5. \A k \in Epochs : saved'[<<c, k>>] = saved[<<c, k>>]
  BY <1>1, <1>2, <1>4
<1>6. Current(c)[2] \in Epochs
  BY <1>2, <1>3
<1>7. \A i \in OfChat(c) : /\ InEffect(i) => log'[i].saw = log[i].saw
                           /\ ~IsTurn(i) => log'[i].ok = log[i].ok
  BY <1>2, <1>4 DEF OfChat
<1> QED BY <1>1, <1>2, <1>3, <1>5, <1>6, <1>7, ChatStays

LEMMA CheckpointAsks ==
  ASSUME OrderInv, NEW e \in Events, Checkpoint(e), log[e].pc = "loaded",
         NEW c \in Orderly, log[e].chat = c
  PROVE  /\ \A d \in Done(c) : d < e
         /\ Done(c)' = Done(c) \cup {e}
         /\ Seen(c)' = Seen(c) \cup {<<e, Conv(c)>>}
         /\ Conv(c)' = Conv(c) \cup {<<e, "asked">>}
<1>1. CInv /\ Spoken /\ Concluded /\ OnThread(e)
  BY DEF OrderInv, CInv, OnThread
<1>2. /\ IsTurn(e) /\ Thread(e) \in Chats \X Epochs /\ log[e].thread # NoRow /\ Events' = Events
      /\ \A i \in Events : i # e => log'[i] = log[i]
      /\ \A i \in Events : Thread(i)' = Thread(i) /\ log'[i].kind = log[i].kind
                           /\ log'[i].thread = log[i].thread
      /\ \A t \in Chats \X Epochs : t # Thread(e) => saved'[t] = saved[t]
      /\ log'[e].saw = log[e].saw /\ saved'[Thread(e)] = log[e].saw \cup {<<e, "asked">>}
  BY <1>1, ThreadStep
<1>3. /\ Current(c) = Thread(e) /\ Current(c)' = Thread(e) /\ e \in OfChat(c)
      /\ OfChat(c)' = OfChat(c) /\ saved[Thread(e)] = log[e].saw
  BY <1>1, NewestThread
<1>4. \A i \in Events : IsTurn(i)' <=> IsTurn(i)
  BY <1>2 DEF IsTurn
<1>5. ~InEffect(e) /\ InEffect(e)'
  <2>1. ~InEffect(e)
    BY <1>1, <1>2, InEffectTurn DEF Silent
  <2> QED BY <1>2, <1>4, <2>1 DEF InEffect
<1>6. \A d \in Done(c) : d < e
  BY <1>3, <1>5, RunsLast DEF Done, Taken, Over
<1>7. ASSUME NEW i \in OfChat(c), i # e PROVE InEffect(i)' <=> InEffect(i)
  <2>1. i \in Events /\ log'[i] = log[i] /\ log[i] \in Event
    BY <1>1, <1>2, <1>7, EventNumbers DEF OfChat, CInv
  <2>2. log[i].thread # NoRow => Thread(i) \in Chats \X Epochs
    BY <2>1 DEF Thread, Event
  <2>3. log[i].thread # NoRow =>
          (<<i, "asked">> \in saved'[Thread(i)] <=> <<i, "asked">> \in saved[Thread(i)])
    BY <1>2, <1>3, <1>7, <2>2
  <2> QED BY <1>2, <1>4, <2>1, <2>3 DEF InEffect
<1>8. Done(c)' = Done(c) \cup {e}
  BY <1>3, <1>5, <1>7 DEF Done
<1>9. \A i \in OfChat(c) : log'[i].saw = log[i].saw /\ (IsTurn(i)' <=> IsTurn(i))
  BY <1>2, <1>4 DEF OfChat
<1>10. Seen(c)' = Seen(c) \cup {<<e, Conv(c)>>}
  <2>1. Conv(c) = log'[e].saw
    BY <1>2, <1>3 DEF Conv
  <2>2. Done(c) \subseteq OfChat(c)
    BY DEF Done
  <2> QED BY <1>2, <1>3, <1>8, <1>9, <2>1, <2>2 DEF Seen
<1>11. Conv(c)' = Conv(c) \cup {<<e, "asked">>}
  BY <1>2, <1>3 DEF Conv
<1> QED BY <1>6, <1>8, <1>10, <1>11

LEMMA AnswerAnswers ==
  ASSUME OrderInv, NEW e \in Events, Answer(e), NEW c \in Orderly, log[e].chat = c
  PROVE  /\ \A d \in Done(c) : d <= e
         /\ <<e, "asked">> \in Conv(c) /\ <<e, "answer">> \notin Conv(c) /\ e \in Done(c)
         /\ Done(c)' = Done(c) /\ Seen(c)' = Seen(c)
         /\ Conv(c)' = Conv(c) \cup {<<e, "answer">>}
<1>1. CInv /\ Spoken /\ Concluded /\ OnThread(e)
  BY DEF OrderInv, CInv, OnThread
<1>2. /\ IsTurn(e) /\ Thread(e) \in Chats \X Epochs /\ log[e].thread # NoRow /\ Events' = Events
      /\ ~log[e].ok /\ log[e].pc = "working"
      /\ \A i \in Events : i # e => log'[i] = log[i]
      /\ \A i \in Events : Thread(i)' = Thread(i) /\ log'[i].kind = log[i].kind
                           /\ log'[i].thread = log[i].thread
      /\ \A t \in Chats \X Epochs : t # Thread(e) => saved'[t] = saved[t]
      /\ log'[e].saw = log[e].saw /\ saved'[Thread(e)] = log[e].saw \cup ({e} \X Part)
  BY <1>1, ThreadStep
<1>3. /\ Current(c) = Thread(e) /\ Current(c)' = Thread(e) /\ e \in OfChat(c)
      /\ OfChat(c)' = OfChat(c) /\ saved[Thread(e)] = log[e].saw \cup {<<e, "asked">>}
  BY <1>1, <1>2, NewestThread
<1>4. saved'[Thread(e)] = saved[Thread(e)] \cup {<<e, "answer">>}
  <2>1. {e} \X Part = {<<e, "asked">>, <<e, "answer">>}
    BY DEF Part
  <2> QED BY <1>2, <1>3, <2>1
<1>5. <<e, "answer">> \notin Conv(c)
  BY <1>1, <1>2, <1>3 DEF Conv, Spoken, Said
<1>6. e \in Done(c) /\ <<e, "asked">> \in Conv(c)
  BY <1>2, <1>3 DEF Done, InEffect, Conv
<1>7. \A i \in Events : IsTurn(i)' <=> IsTurn(i)
  BY <1>2 DEF IsTurn
<1>8. ASSUME NEW i \in OfChat(c) PROVE InEffect(i)' <=> InEffect(i)
  <2>1. i \in Events /\ log[i] \in Event
    BY <1>1, EventNumbers DEF OfChat, CInv
  <2>2. log[i].thread # NoRow => Thread(i) \in Chats \X Epochs
    BY <2>1 DEF Thread, Event
  <2>3. log[i].thread # NoRow =>
          (<<i, "asked">> \in saved'[Thread(i)] <=> <<i, "asked">> \in saved[Thread(i)])
    BY <1>2, <1>4, <2>2
  <2>4. ~IsTurn(i) => log'[i].ok = log[i].ok
    BY <1>2, <2>1
  <2> QED BY <1>2, <1>7, <2>1, <2>3, <2>4 DEF InEffect
<1>9. Done(c)' = Done(c)
  BY <1>3, <1>8 DEF Done
<1>10. \A i \in Done(c) : log'[i].saw = log[i].saw /\ (IsTurn(i)' <=> IsTurn(i))
  BY <1>2, <1>7 DEF Done, OfChat
<1>11. Seen(c)' = Seen(c)
  BY <1>9, <1>10 DEF Seen
<1>12. Conv(c)' = Conv(c) \cup {<<e, "answer">>}
  BY <1>3, <1>4 DEF Conv
<1>13. \A d \in Done(c) : d <= e
  BY <1>2, <1>3, RunsLast DEF Taken, Over
<1> QED BY <1>5, <1>6, <1>9, <1>11, <1>12, <1>13

LEMMA ResetForgets ==
  ASSUME OrderInv, CInv', NEW e \in Events, Reset(e), NEW c \in Orderly, log[e].chat = c
  PROVE  /\ \A d \in Done(c) : d < e
         /\ Done(c)' = Done(c) \cup {e}
         /\ Seen(c)' = Seen(c)
         /\ Conv(c)' = {}
<1>1. /\ CInv /\ Concluded /\ TypeOK /\ log[e].pc = "called" /\ e \in OfChat(c) /\ c \in Chats
      /\ ~IsTurn(e) /\ UNCHANGED saved /\ log[e] \in Event
  BY EventNumbers, ConversationsAssumption DEF OrderInv, CInv, Reset, OfChat, IsTurn, Orderly
<1>2. Events' = Events /\ (\A i \in Events : i # e => log'[i] = log[i]) /\ Steps
  BY <1>1, HandleSteps DEF Handle
<1>3. log'[e].ok /\ log'[e].chat = c /\ log'[e].kind = log[e].kind
  BY <1>1, LogFacts DEF Reset, TypeOK, Event
<1>4. ~InEffect(e) /\ InEffect(e)'
  BY <1>1, <1>3 DEF InEffect, IsTurn, Concluded, Over
<1>5. \A d \in Done(c) : d < e
  BY <1>1, <1>4, RunsLast DEF Done, Taken, Over
<1>6. ASSUME NEW i \in OfChat(c), i # e PROVE InEffect(i)' <=> InEffect(i)
  BY <1>1, <1>2, <1>6 DEF InEffect, IsTurn, Thread, OfChat
<1>7. OfChat(c)' = OfChat(c)
  BY <1>1, <1>2, <1>3 DEF OfChat
<1>8. Done(c)' = Done(c) \cup {e}
  BY <1>1, <1>4, <1>6, <1>7 DEF Done
<1>9. \A i \in OfChat(c) : (IsTurn(i)' <=> IsTurn(i)) /\ (IsTurn(i) => log'[i].saw = log[i].saw)
  BY <1>1, <1>2, <1>3 DEF OfChat, IsTurn
<1>10. Seen(c)' = Seen(c)
  <2>1. Done(c) \subseteq OfChat(c)
    BY DEF Done
  <2> QED BY <1>1, <1>8, <1>9, <2>1 DEF Seen
<1>11. Conv(c)' = {}
  <2>1. epoch'[c] = IF epoch[c] = NoRow THEN 1 ELSE epoch[c] + 1
    BY <1>1 DEF Reset, TypeOK
  <2>2. epoch[c] \in Int /\ epoch[c] >= -1 /\ epoch'[c] \in Epochs \cup {NoRow}
    BY <1>1, ConversationsAssumption DEF TypeOK, Epochs, NoRow, CInv
  <2>3. Current(c)' = <<c, epoch'[c]>> /\ epoch'[c] \in Epochs /\ epoch'[c] > epoch[c]
    BY <2>1, <2>2 DEF Current, NoRow
  <2>4. ASSUME NEW m \in saved[<<c, epoch'[c]>>] PROVE FALSE
    <3>1. m[1] \in Events /\ Thread(m[1]) = <<c, epoch'[c]>>
      BY <1>1, <2>3, <2>4 DEF CInv, Apart
    <3>2. log[m[1]].chat = c /\ log[m[1]].thread = epoch'[c]
      BY <3>1 DEF Thread
    <3>3. log[m[1]].thread # NoRow
      BY <2>3, <3>2, ConversationsAssumption DEF Epochs, NoRow
    <3>4. log[m[1]].thread <= epoch[c]
      BY <1>1, <3>1, <3>2, <3>3 DEF CInv, Threaded, UnderWay
    <3> QED BY <2>2, <2>3, <3>2, <3>4, ConversationsAssumption DEF Epochs
  <2> QED BY <1>1, <2>3, <2>4 DEF Conv
<1> QED BY <1>5, <1>8, <1>10, <1>11

\* Any other step leaves every chat as it was.
LEMMA ElseStays ==
  ASSUME OrderInv, CInv', [Next]_vars, NEW c \in Orderly,
         \A e \in Events : ~Reset(e) /\ ~OnThread(e)
  PROVE  Stays(c)
<1>1. CInv /\ Spoken /\ TypeOK /\ c \in Chats
  BY ConversationsAssumption DEF OrderInv, CInv, Orderly
<1>2. Steps /\ Plain
  <2>1. ASSUME NEW d \in Chats, Arrive(d, "message") \/ Arrive(d, "reset") \/ FireJob(d)
        PROVE  Steps /\ Plain
    <3>1. Steps /\ (\A e \in Events : log'[e] = log[e]) /\ UNCHANGED saved
      BY <1>1, <2>1, ArriveSteps DEF FireJob
    <3> QED BY <3>1 DEF Plain
  <2>2. ASSUME NEW e \in Events, Handle(e) PROVE Steps /\ Plain
    BY <1>1, <2>2, HandleSteps, EventPlain DEF Handle, OnThread
  <2>3. ASSUME Crash PROVE Steps /\ Plain
    BY <1>1, <2>3, CrashSteps, CrashPlain
  <2>4. ASSUME Quiet \/ UNCHANGED vars PROVE Steps /\ Plain
    <3>1. UNCHANGED <<log, saved>> /\ UNCHANGED vars
      BY <2>4 DEF Quiet, vars
    <3> QED BY <3>1, StaySteps DEF Plain
  <2> QED BY <2>1, <2>2, <2>3, <2>4 DEF Next
<1>3. epoch'[c] = epoch[c] \/ (epoch[c] = NoRow /\ epoch'[c] = 0)
  <2>1. ASSUME NEW e \in Events, ThreadId(e)
        PROVE  epoch'[c] = epoch[c] \/ (epoch[c] = NoRow /\ epoch'[c] = 0)
    BY <1>1, <2>1 DEF ThreadId, TypeOK
  <2>2. (\E e \in Events : ThreadId(e)) \/ UNCHANGED epoch
    BY DEF Next, Handle, OnThread, FireJob, Arrive, Take, Fail, Reply, Crash, Quiet, vars
  <2> QED BY <2>1, <2>2
<1>4. Current(c)' = Current(c) /\ Current(c)[2] \in Epochs
  BY <1>1, <1>3, ConversationsAssumption DEF Current, TypeOK, Epochs, NoRow
<1>5. \A e \in OfChat(c) : log'[e].saw = log[e].saw
  BY <1>2 DEF Plain, OfChat
<1>6. ASSUME NEW e \in OfChat(c), ~IsTurn(e) PROVE log'[e].ok = log[e].ok
  <2>1. \/ \A i \in Events : log'[i].ok = log[i].ok
        \/ \E i \in Events : Handle(i)
    <3>1. ASSUME NEW d \in Chats, Arrive(d, "message") \/ Arrive(d, "reset") \/ FireJob(d)
          PROVE  \A i \in Events : log'[i].ok = log[i].ok
      BY <1>1, <3>1, ArriveSteps DEF FireJob
    <3>2. ASSUME Crash PROVE \A i \in Events : log'[i].ok = log[i].ok
      <4>1. \A i \in Events : log[i] \in Event
        BY <1>1, EventNumbers
      <4> QED BY <1>1, <3>2, <4>1, CrashSteps DEF Event
    <3>3. ASSUME Quiet \/ UNCHANGED vars PROVE \A i \in Events : log'[i].ok = log[i].ok
      BY <3>3 DEF Quiet, vars
    <3> QED BY <3>1, <3>2, <3>3 DEF Next
  <2>2. ASSUME NEW i \in Events, Handle(i) PROVE log'[e].ok = log[e].ok
    <3>1. \A j \in Events : j # i => log'[j] = log[j]
      BY <1>1, <2>2, HandleSteps
    <3>2. CASE e # i
      BY <3>1, <3>2 DEF OfChat
    <3>3. CASE e = i
      <4>1. Advances(e) /\ log[e] \in Event
        BY <1>1, <1>2, EventNumbers DEF Steps, OfChat
      <4>2. log'[e].pc # "ended" \/ log[e].pc # "called"
        <5>1. Take(e) \/ Fail(e) \/ Reply(e) \/ ThreadId(e)
          BY <2>2, <3>3 DEF Handle, OnThread
        <5>2. ~ThreadId(e)
          BY <1>6 DEF ThreadId
        <5>3. CASE Take(e) \/ Reply(e)
          BY <5>3 DEF Take, Reply
        <5>4. CASE Fail(e)
          <6>1. log' = [log EXCEPT ![e].pc = "unsent"]
            BY <1>6, <5>4 DEF Fail
          <6> QED BY <1>1, <4>1, <6>1, LogFacts DEF OfChat, TypeOK, Event
        <5> QED BY <5>1, <5>2, <5>3, <5>4
      <4> QED BY <1>6, <4>1, <4>2 DEF Advances
    <3> QED BY <3>2, <3>3
  <2> QED BY <2>1, <2>2 DEF OfChat
<1>7. \A k \in Epochs : saved'[<<c, k>>] = saved[<<c, k>>]
  BY <1>2 DEF Plain
<1> QED BY <1>1, <1>2, <1>4, <1>5, <1>6, <1>7, ChatStays

\* A Telegram chat without jobs is one conversation: its messages and resets
\* take effect one at a time in the order they were written, whatever fails or
\* crashes and whatever the other chats do.
THEOREM ImplementsDialogue == Spec => KeepsDialogue
<1> DEFINE done == [c \in Orderly |-> Done(c)]
           conv == [c \in Orderly |-> saved[Current(c)]]
           seen == [c \in Orderly |-> Seen(c)]
<1>1. Init => Sequential!Init
  <2> SUFFICES ASSUME Init, NEW c \in Orderly
               PROVE  Done(c) = {} /\ saved[Current(c)] = {} /\ Seen(c) = {}
    BY DEF Sequential!Init
  <2>1. Current(c) \in Chats \X Epochs
    BY ConversationsAssumption DEF Init, Current, Orderly, Epochs
  <2>2. Done(c) = {}
    BY DEF Init, Done, OfChat, Events
  <2> QED BY <2>1, <2>2 DEF Init, Seen
<1>2. ASSUME OrderInv, [Next]_vars PROVE [Sequential!Next]_Sequential!vars
  <2>0. CInv'
    BY <1>2, NextCInv DEF OrderInv
  <2> HIDE DEF done, conv, seen
  <2>1. /\ \A c \in Orderly : /\ done[c] = Done(c) /\ conv[c] = Conv(c) /\ seen[c] = Seen(c)
                              /\ done'[c] = Done(c)' /\ conv'[c] = Conv(c)' /\ seen'[c] = Seen(c)'
        /\ DOMAIN done = Orderly /\ DOMAIN conv = Orderly /\ DOMAIN seen = Orderly
    BY DEF done, conv, seen, Conv
  <2>2. /\ done = [c \in Orderly |-> done[c]] /\ done' = [c \in Orderly |-> done'[c]]
        /\ conv = [c \in Orderly |-> conv[c]] /\ conv' = [c \in Orderly |-> conv'[c]]
        /\ seen = [c \in Orderly |-> seen[c]] /\ seen' = [c \in Orderly |-> seen'[c]]
    BY DEF done, conv, seen
  <2>3. ASSUME \A c \in Orderly : Stays(c) PROVE UNCHANGED Sequential!vars
    <3>1. UNCHANGED <<done, conv, seen>>
      BY <2>1, <2>2, <2>3 DEF Stays
    <3> QED BY <3>1 DEF Sequential!vars, done, conv, seen
  <2>4. ASSUME NEW e \in Events, Reset(e) \/ OnThread(e)
        PROVE  Sequential!Next \/ \A c \in Orderly : Stays(c)
    <3> DEFINE c == log[e].chat
    <3>1. \A d \in Orderly : d # c => Stays(d)
      BY <1>2, <2>0, <2>4, OthersStay
    <3>2. CASE c \in Orderly /\ Checkpoint(e) /\ log[e].pc = "loaded"
      <4>1. /\ \A d \in done[c] : d < e
            /\ done' = [done EXCEPT ![c] = @ \cup {e}]
            /\ seen' = [seen EXCEPT ![c] = @ \cup {<<e, conv[c]>>}]
            /\ conv' = [conv EXCEPT ![c] = @ \cup {<<e, "asked">>}]
        BY <1>2, <2>1, <2>2, <3>1, <3>2, CheckpointAsks DEF Stays
      <4>2. e \in done'[c]
        BY <2>1, <3>2, <4>1
      <4> QED BY <3>2, <4>1, <4>2
              DEF Sequential!Next, Sequential!Ask, Sequential!TakesEffect, done, conv, seen
    <3>5. CASE c \in Orderly /\ (LoadThread(e) \/ (Checkpoint(e) /\ log[e].pc = "working"))
      BY <1>2, <2>0, <3>1, <3>5, TurnStays DEF OnThread
    <3>3. CASE c \in Orderly /\ Answer(e)
      <4>1. /\ \A d \in done[c] : d <= e
            /\ <<e, "asked">> \in conv[c] /\ <<e, "answer">> \notin conv[c]
            /\ done' = done /\ seen' = seen /\ e \in Done(c)
            /\ conv' = [conv EXCEPT ![c] = @ \cup {<<e, "answer">>}]
        BY <1>2, <2>1, <2>2, <3>1, <3>3, AnswerAnswers DEF Stays
      <4>2. e \in done'[c]
        BY <2>1, <3>3, <4>1
      <4> QED BY <3>3, <4>1, <4>2 DEF Sequential!Next, Sequential!Answer, done, conv, seen
    <3>4. CASE c \in Orderly /\ Reset(e)
      <4>1. /\ \A d \in done[c] : d < e
            /\ done' = [done EXCEPT ![c] = @ \cup {e}]
            /\ seen' = seen
            /\ conv' = [conv EXCEPT ![c] = {}]
        BY <1>2, <2>0, <2>1, <2>2, <3>1, <3>4, ResetForgets DEF Stays
      <4>2. e \in done'[c]
        BY <2>1, <3>4, <4>1
      <4> QED BY <3>4, <4>1, <4>2
              DEF Sequential!Next, Sequential!Forget, Sequential!TakesEffect, done, conv, seen
    <3>6. Checkpoint(e) => log[e].pc \in {"loaded", "working"}
      BY DEF Checkpoint, UnderWay
    <3> QED BY <2>4, <3>1, <3>2, <3>3, <3>4, <3>5, <3>6 DEF OnThread
  <2>5. ASSUME \A e \in Events : ~Reset(e) /\ ~OnThread(e)
        PROVE  \A c \in Orderly : Stays(c)
    BY <1>2, <2>0, <2>5, ElseStays
  <2> QED BY <2>3, <2>4, <2>5
<1> QED BY <1>1, <1>2, OrderInvariance, PTL DEF Spec, KeepsDialogue, Sequential!Spec

\* A message written after a reset was confirmed is not answered in view of an
\* earlier message of its Telegram chat, whatever jobs run beside it.
THEOREM ClearedInTelegram == Spec => [](\A c \in Serial : ClearedIn(c))
<1>1. ASSUME OrderInv, NEW c \in Serial PROVE ClearedIn(c)
  <2>0. TypeOK /\ CInv
    BY <1>1 DEF OrderInv, CInv
  <2>1. Len(log) \in Nat /\ Events = 1..Len(log) /\ \A i \in Events : log[i] \in Event
    BY <2>0, EventNumbers
  <2> SUFFICES ASSUME NEW e \in OfChat(c), NEW r \in log[e].after, log[r].kind = "reset",
                      NEW f \in 1..(r - 1), NEW part \in Part, <<f, part>> \in log[e].saw,
                      log[f].kind # "job"
               PROVE  FALSE
    BY DEF ClearedIn
  <2>2. e \in Events /\ log[e].chat = c
    BY DEF OfChat
  <2>3. /\ r \in Events /\ log[r].chat = c /\ log[r].pc = "replied" /\ e \notin log[r].cut
    BY <1>1, <2>2 DEF OrderInv, RepliedBefore, OfChat
  <2>4. f \in Events /\ log[e].thread # NoRow /\ Thread(f) = Thread(e)
    BY <2>0, <2>2 DEF CInv, Apart
  <2>5. log[f].chat = c /\ log[f].thread = log[e].thread
    BY <2>2, <2>4 DEF Thread
  <2>6. f \in log[r].cut
    BY <1>1, <2>3, <2>4, <2>5 DEF OrderInv, ResetsCut, OfChat, Serialized
  <2>7. log[f].thread < log[e].thread
    BY <2>0, <2>2, <2>3, <2>4, <2>6 DEF CInv, CutOff, OfChat
  <2>8. log[f].thread \in Int
    BY <2>1, <2>4, ConversationsAssumption DEF Event, Epochs, NoRow
  <2> QED BY <2>5, <2>7, <2>8
<1>2. OrderInv => \A c \in Serial : ClearedIn(c)
  BY <1>1
<1> QED BY <1>2, OrderInvariance, PTL

\* Where every chat is on Telegram, a reset clears the context.
THEOREM ResetClearsCorrect == ASSUME Serial = Chats PROVE Spec => []ResetClears
<1>1. (\A c \in Serial : ClearedIn(c)) => ResetClears
  BY DEF ResetClears
<1> QED BY <1>1, ClearedInTelegram, PTL

\* A message of a Telegram chat without jobs is answered in view of every
\* exchange of its conversation that was answered before it was written.
THEOREM ContinuesInTelegram == Spec => [](\A c \in Serial \ JobChats : ContinuesIn(c))
<1>1. ASSUME OrderInv, NEW c \in Serial \ JobChats PROVE ContinuesIn(c)
  <2>0. TypeOK /\ CInv /\ InOneThread(c) /\ RepliedBefore /\ c \in Chats
    BY <1>1, ConversationsAssumption DEF OrderInv, CInv, Orderly
  <2>1. Len(log) \in Nat /\ Events = 1..Len(log) /\ \A i \in Events : log[i] \in Event
    BY <2>0, EventNumbers
  <2> SUFFICES ASSUME NEW e \in OfChat(c), NEW f \in log[e].after,
                      log[e].kind = "message", log[f].kind = "message",
                      log[e].ok, log[f].ok, SameConversation(f, e)
               PROVE  {f} \X Part \subseteq log[e].saw
    BY DEF ContinuesIn
  <2>2. e \in Events /\ log[e].chat = c /\ f \in OfChat(c) /\ f \in Events
    BY <2>0 DEF OfChat, RepliedBefore
  <2>3. log[e].thread \in Epochs /\ log[f].thread \in Epochs /\ IsTurn(e) /\ IsTurn(f)
    BY <1>1, <2>0, <2>1, <2>2 DEF OrderInv, Concluded, Event, IsTurn
  <2>4. CASE \A r \in OfChat(c) : IsTurn(r)
    <3>1. ResetsOver(c) = {}
      BY <2>4 DEF ResetsOver
    <3>2. epoch[c] <= 0
      BY <2>0, <3>1, FS_EmptySet DEF CInv, Bounded
    <3>3. log[e].thread <= epoch[c] /\ log[f].thread <= epoch[c]
      BY <2>0, <2>2, <2>3 DEF CInv, Threaded, Epochs, NoRow, OfChat, UnderWay
    <3>4. epoch[c] \in Int
      BY <2>0, ConversationsAssumption DEF TypeOK, Epochs, NoRow
    <3> QED BY <2>0, <2>2, <2>3, <3>2, <3>3, <3>4 DEF InOneThread, Epochs
  <2>5. CASE log[f].thread = log[e].thread
    BY <2>0, <2>2, <2>3, <2>5 DEF InOneThread
  <2> QED BY <2>2, <2>4, <2>5 DEF SameConversation
<1>2. OrderInv => \A c \in Serial \ JobChats : ContinuesIn(c)
  BY <1>1
<1> QED BY <1>2, OrderInvariance, PTL

\* Where every chat is on Telegram and none has jobs, follow-ups continue.
THEOREM FollowUpsContinueCorrect ==
  ASSUME Serial = Chats, JobChats = {} PROVE Spec => []FollowUpsContinue
<1>1. (\A c \in Serial \ JobChats : ContinuesIn(c)) => FollowUpsContinue
  BY DEF FollowUpsContinue
<1> QED BY <1>1, ContinuesInTelegram, PTL

=============================================================================
