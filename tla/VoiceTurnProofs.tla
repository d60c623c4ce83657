--------------------------- MODULE VoiceTurnProofs ---------------------------
(***************************************************************************)
(* Proofs about VoiceTurn, for every bound and, but for QuestionsKept,     *)
(* both settings of QuickSends.                                            *)
(***************************************************************************)
EXTENDS VoiceTurn, SequenceTheorems, TLAPS

-----------------------------------------------------------------------------
(* The helpers on segments and messages *)

\* What is left of a list when its first items are dropped.
LEMMA DropFirstType ==
    ASSUME NEW S, NEW s \in Seq(S), NEW first \in 1 .. Len(s) + 1
    PROVE  SubSeq(s, first, Len(s)) \in Seq(S)
  BY SubSeqProperties

\* Joining two lists of segments gives a list of segments.
LEMMA JoinType ==
    ASSUME NEW s \in Seq(Segment), NEW t \in Seq(Segment)
    PROVE  Join(s, t) \in Seq(Segment)
  <1>1. t # <<>> => Tail(t) \in Seq(Segment)
    OBVIOUS
  <1> QED
    BY <1>1 DEF Join

\* What a list of segments asks is a segment.
LEMMA AskedType ==
    ASSUME NEW s \in Seq(Segment)
    PROVE  Asked(s) \in Segment
  <1>1. \A i \in DOMAIN s : s[i] \subseteq Utterance
    BY DEF Segment
  <1> QED
    BY <1>1 DEF Asked, Segment

\* Taking back a message leaves a history.
LEMMA DropType ==
    ASSUME NEW h \in Seq(Message)
    PROVE  /\ DropReply(h) \in Seq(Message)
           /\ DropQuestion(h) \in Seq(Message)
           /\ LastQuestion(h) \in Seq(Segment)
  <1>1. h # <<>> => DropLast(h) \in Seq(Message)
    BY DEF DropLast
  <1>2. h # <<>> => h[Len(h)].asks \in Segment
    <2>1. h # <<>> => h[Len(h)] \in Message
      OBVIOUS
    <2> QED
      BY <2>1 DEF Message
  <1> QED
    BY <1>1, <1>2 DEF DropReply, DropQuestion, LastQuestion, EndsWith

-----------------------------------------------------------------------------
(* Type correctness *)

\* A step that leaves a part of the state alone keeps its type.
LEMMA CoreFrame == CoreTypeOK /\ UNCHANGED coreVars => CoreTypeOK'
  BY DEF CoreTypeOK, coreVars

LEMMA PageFrame == PageTypeOK /\ UNCHANGED pageVars => PageTypeOK'
  BY DEF PageTypeOK, pageVars

LEMMA UserFrame == UserTypeOK /\ UNCHANGED userVars => UserTypeOK'
  BY DEF UserTypeOK, userVars

\* The program counter of each coroutine moves within its type.
LEMMA SysMoves ==
    ASSUME sys \in SysState,
           NEW pc \in {"idle", "starting", "clearing", "flushed", "stopping", "arming"}
    PROVE  [sys EXCEPT !.pc = pc] \in SysState
  BY DEF SysState

LEMMA DataMoves ==
    ASSUME data \in DataState, NEW pc \in {"idle", "flushed", "joining"}
    PROVE  [data EXCEPT !.pc = pc] \in DataState
  BY DEF DataState

LEMMA TaskMoves ==
    ASSUME task \in TaskState
    PROVE  /\ task.gid \in Nat
           /\ task.asks \in Segment
           /\ [task EXCEPT !.cancelled = TRUE] \in TaskState
           /\ [task EXCEPT !.pc = "done"] \in TaskState
           /\ [task EXCEPT !.pc = "fallback"] \in TaskState
  BY DEF TaskState

LEMMA TaskSays ==
    ASSUME task \in TaskState
    PROVE  /\ [task EXCEPT !.said = task.said + 1] \in TaskState
           /\ [task EXCEPT !.pc = "tail", !.said = task.said + 1] \in TaskState
           /\ [task EXCEPT !.pc = "speak", !.said = 1] \in TaskState
  <1>1. task.said + 1 \in Nat
    BY DEF TaskState
  <1>2. \A n \in Nat : /\ [task EXCEPT !.said = n] \in TaskState
                       /\ [task EXCEPT !.pc = "tail", !.said = n] \in TaskState
    BY DEF TaskState
  <1>3. [task EXCEPT !.pc = "speak", !.said = 1] \in TaskState
    BY DEF TaskState
  <1> QED
    BY <1>1, <1>2, <1>3

LEMMA InitType == Init => TypeOK
  <1> SUFFICES ASSUME Init
               PROVE  TypeOK
    OBVIOUS
  <1>1. task \in TaskState
    BY DEF Init, TaskState, Segment
  <1>2. sys \in SysState /\ data \in DataState
    BY DEF Init, SysState, DataState
  <1>3. CoreTypeOK
    BY EmptySeq, Zenon DEF Init, CoreTypeOK
  <1>4. PageTypeOK
    <2>1. reply = 0 /\ tts = <<>> /\ ui = "listening"
      BY DEF Init
    <2>2. botSpeaking = FALSE /\ botStarted = FALSE /\ accept = FALSE
      BY DEF Init
    <2> QED
      BY <2>1, <2>2, EmptySeq DEF PageTypeOK
  <1>5. UserTypeOK
    <2>1. /\ ~talking /\ talking \in BOOLEAN
         /\ owed = 0 /\ heard = 0 /\ starts = 0
      BY DEF Init
    <2> QED
      BY <2>1, BoundsAssumption DEF UserTypeOK
  <1> QED
    BY <1>1, <1>2, <1>3, <1>4, <1>5 DEF Init, TypeOK

\* The actions of the user and of the system-frame handler.
LEMMA SysTyped == TypeOK /\ (UserStep \/ SysStep) => TypeOK'
  <1> SUFFICES ASSUME TypeOK, UserStep \/ SysStep
               PROVE  TypeOK'
    OBVIOUS
  <1> USE CoreFrame, PageFrame, UserFrame DEF TypeOK
  <1>1. CASE UserStarts
    <2>1. sys' \in SysState
      BY <1>1, SysMoves DEF UserStarts, SysGoes
    <2>2. data' \in DataState
      BY <1>1, DataMoves DEF UserStarts
    <2>3. PageTypeOK'
      BY <1>1, EmptySeq, Zenon DEF UserStarts, PageTypeOK, Flush, pageVars
    <2>4. UserTypeOK'
      BY <1>1, BoundsAssumption DEF UserStarts, UserTypeOK
    <2> QED
      BY <1>1, <2>1, <2>2, <2>3, <2>4 DEF UserStarts
  <1>2. CASE UserStops
    <2>1. sys' \in SysState
      BY <1>2, SysMoves DEF UserStops, SysGoes
    <2>2. PageTypeOK'
      BY <1>2 DEF UserStops, PageTypeOK
    <2>3. UserTypeOK'
      <3>1. /\ talking /\ ~talking' /\ talking' \in BOOLEAN
            /\ owed' = owed + 1 /\ UNCHANGED <<heard, starts>>
        BY <1>2 DEF UserStops
      <3> QED
        BY <3>1 DEF UserTypeOK
    <2> QED
      BY <1>2, <2>1, <2>2, <2>3 DEF UserStops
  <1>3. CASE StopsGeneration
    <2>1. sys' \in SysState
      BY <1>3, SysMoves DEF StopsGeneration, SysGoes
    <2>2. PageTypeOK'
      BY <1>3 DEF StopsGeneration, PageTypeOK, PageClears
    <2>3. CoreTypeOK'
      BY <1>3 DEF StopsGeneration, CoreTypeOK
    <2> QED
      BY <1>3, <2>1, <2>2, <2>3 DEF StopsGeneration
  <1>4. CASE NothingToStop
    BY <1>4, SysMoves DEF NothingToStop, SysGoes
  <1>5. CASE SysBroadcasts
    <2>1. PageTypeOK'
      BY <1>5, EmptySeq, Zenon DEF SysBroadcasts, PageTypeOK, Flush
    <2> QED
      BY <1>5, <2>1, SysMoves DEF SysBroadcasts, SysGoes
  <1>6. CASE SysCancels
    <2>1. [pc |-> "joining", joins |-> task.gid] \in SysState
      BY TaskMoves DEF SysState
    <2>2. sys' \in SysState /\ task' \in TaskState
      BY <1>6, <2>1, SysMoves, TaskMoves DEF SysCancels, SysGoes
    <2> QED
      BY <1>6, <2>2 DEF SysCancels
  <1>7. CASE SysJoined
    BY <1>7, SysMoves DEF SysJoined, SysGoes
  <1>8. CASE LabelsTidying
    <2>1. PageTypeOK'
      BY <1>8 DEF LabelsTidying, PageTypeOK
    <2> QED
      BY <1>8, <2>1, SysMoves DEF LabelsTidying, SysGoes
  <1>9. CASE ArmsTimeout
    BY <1>9, SysMoves DEF ArmsTimeout, SysGoes
  <1>10. CASE BotStarts
    <2>1. CoreTypeOK'
      BY <1>10 DEF BotStarts, CoreTypeOK
    <2>2. PageTypeOK'
      BY <1>10 DEF BotStarts, PageTypeOK
    <2> QED
      BY <1>10, <2>1, <2>2 DEF BotStarts
  <1> QED
    BY <1>1, <1>2, <1>3, <1>4, <1>5, <1>6, <1>7, <1>8, <1>9, <1>10 DEF UserStep, SysStep

\* An accepted transcription is one of the utterances.
LEMMA HeardTyped ==
    ASSUME UserTypeOK, owed > 0
    PROVE  {heard + 1} \in Segment
  <1>1. heard + 1 \in 1 .. MaxStarts
    BY BoundsAssumption DEF UserTypeOK
  <1> QED
    BY <1>1 DEF Segment, Utterance

\* Counting an utterance off keeps the books of the user.
LEMMA CountsOff ==
    ASSUME UserTypeOK, owed > 0, owed' = owed - 1, heard' = heard \/ heard' = heard + 1,
           UNCHANGED <<talking, starts>>
    PROVE  UserTypeOK'
  BY BoundsAssumption DEF UserTypeOK

\* Both branches that restart leave the page and the handler typed.
LEMMA RestartsTyped ==
    ASSUME TypeOK, Restarts
    PROVE  /\ {heard'} \in Segment
           /\ gid' \in Nat
           /\ data' \in DataState
           /\ PageTypeOK'
           /\ UserTypeOK'
           /\ UNCHANGED <<task, sys>>
           /\ sttTimeout' \in BOOLEAN
  <1>1. {heard'} \in Segment /\ UserTypeOK' /\ UNCHANGED <<task, sys>>
    BY HeardTyped, CountsOff DEF Restarts, Transcribed, TypeOK
  <1>2. sttTimeout' \in BOOLEAN
    BY DEF Restarts, Transcribed
  <1>3. gid' \in Nat
    BY DEF Restarts, TypeOK, CoreTypeOK
  <1>4. data' \in DataState
    BY <1>3 DEF Restarts, DataState
  <1>5. PageTypeOK'
    BY DEF Restarts, PageClears, TypeOK, PageTypeOK
  <1> QED
    BY <1>1, <1>2, <1>3, <1>4, <1>5

\* The actions that take a transcription.
LEMMA SttTyped == TypeOK /\ SttStep => TypeOK'
  <1> SUFFICES ASSUME TypeOK, SttStep
               PROVE  TypeOK'
    OBVIOUS
  <1> USE CoreFrame, PageFrame, UserFrame DEF TypeOK
  <1>1. CASE NoTranscription
    BY <1>1, CountsOff DEF NoTranscription
  <1>2. CASE DropsNoise
    <2>1. PageTypeOK'
      BY <1>2 DEF DropsNoise, PageClears, PageTypeOK
    <2>2. UserTypeOK'
      BY <1>2, CountsOff DEF DropsNoise, Transcribed
    <2> QED
      BY <1>2, <2>1, <2>2 DEF DropsNoise, Transcribed
  <1>3. CASE QueuesForNextTurn
    <2>1. {heard + 1} \in Segment /\ UserTypeOK'
      BY <1>3, HeardTyped, CountsOff DEF QueuesForNextTurn, Transcribed
    <2>2. Append(pending, {heard + 1}) \in Seq(Segment)
      BY <2>1 DEF CoreTypeOK
    <2>3. pending' \in Seq(Segment)
      <3> DEFINE queue == Append(pending, {heard + 1})
      <3>1. PICK first \in 1 .. Len(queue) + 1 : pending' = SubSeq(queue, first, Len(queue))
        BY <1>3, Zenon DEF QueuesForNextTurn
      <3> QED
        BY <2>2, <3>1, DropFirstType
    <2>4. CoreTypeOK'
      BY <1>3, <2>3 DEF QueuesForNextTurn, CoreTypeOK
    <2> QED
      BY <1>3, <2>1, <2>4 DEF QueuesForNextTurn, Transcribed
  <1>4. CASE ResetsTurn
    <2>1. <<{heard'}>> \in Seq(Segment)
      BY <1>4, RestartsTyped DEF ResetsTurn
    <2>2. CoreTypeOK'
      BY <1>4, <2>1, RestartsTyped, EmptySeq, Zenon DEF ResetsTurn, CoreTypeOK
    <2> QED
      BY <1>4, <2>2, RestartsTyped DEF ResetsTurn
  <1>5. CASE MergesTurn
    <2>1. history' \in Seq(Message)
      <3>1. DropQuestion(DropReply(history)) \in Seq(Message)
        BY DropType DEF CoreTypeOK
      <3> QED
        BY <1>5, <3>1, Zenon DEF MergesTurn, CoreTypeOK
    <2>2. PICK asked \in Seq(Segment) :
            pending' = Join(Join(Join(asked, active), pending), <<{heard'}>>)
      BY <1>5, DropType, EmptySeq, Zenon DEF MergesTurn, CoreTypeOK
    <2>3. Join(Join(asked, active), pending) \in Seq(Segment)
      BY JoinType DEF CoreTypeOK
    <2>4. <<{heard'}>> \in Seq(Segment)
      BY <1>5, RestartsTyped DEF MergesTurn
    <2>5. pending' \in Seq(Segment)
      BY <2>2, <2>3, <2>4, JoinType
    <2>6. CoreTypeOK'
      BY <1>5, <2>1, <2>5, RestartsTyped, Zenon DEF MergesTurn, CoreTypeOK
    <2> QED
      BY <1>5, <2>6, RestartsTyped DEF MergesTurn
  <1> QED
    BY <1>1, <1>2, <1>3, <1>4, <1>5 DEF SttStep

\* The actions of the transcription handler once it has begun to restart.
LEMMA DataTyped == TypeOK /\ DataStep => TypeOK'
  <1> SUFFICES ASSUME TypeOK, DataStep
               PROVE  TypeOK'
    OBVIOUS
  <1> USE CoreFrame, PageFrame, UserFrame, DataMoves DEF TypeOK
  <1>1. CASE DataBroadcasts
    <2>1. PageTypeOK'
      BY <1>1, EmptySeq, Zenon DEF DataBroadcasts, PageTypeOK, Flush
    <2> QED
      BY <1>1, <2>1 DEF DataBroadcasts
  <1>2. CASE DataCancels
    BY <1>2, TaskMoves DEF DataCancels
  <1>3. CASE StartsGeneration
    <2>1. task' \in TaskState
      BY <1>3 DEF StartsGeneration, CreateTask, TaskState, DataState, Segment
    <2> QED
      BY <1>3, <2>1 DEF StartsGeneration
  <1> QED
    BY <1>1, <1>2, <1>3 DEF DataStep


\* A whole answer, appended to the history.
LEMMA AnswersTyped ==
    ASSUME TypeOK, NEW gen \in Nat, Answers(gen)
    PROVE  history' \in Seq(Message)
  <1> DEFINE question == [role |-> "user", asks |-> task.asks, gen |-> 0]
             answer   == [role |-> "assistant", asks |-> {}, gen |-> gen]
  <1>1. question \in Message /\ answer \in Message
    BY TaskMoves DEF TypeOK, Message, Segment
  <1> HIDE DEF question, answer
  <1>2. <<question, answer>> \in Seq(Message)
    BY <1>1
  <1>3. history \in Seq(Message) /\ history' = history \o <<question, answer>>
    BY DEF Answers, TypeOK, CoreTypeOK, question, answer
  <1> QED
    BY <1>2, <1>3

\* Ending the generation, whatever has become of it.
LEMMA EndTaskTyped ==
    ASSUME TypeOK, EndTask
    PROVE  task' \in TaskState /\ active' \in Seq(Segment)
  BY TaskMoves, EmptySeq, Zenon DEF EndTask, TypeOK, CoreTypeOK

\* Pushing a sentence to the TTS.
LEMMA PushTyped ==
    ASSUME TypeOK, PushTts
    PROVE  tts' \in Seq(Nat)
  <1>1. task.gid \in Nat
    BY TaskMoves DEF TypeOK
  <1> QED
    BY <1>1 DEF PushTts, TypeOK, PageTypeOK

LEMMA CommitsTyped ==
    ASSUME TypeOK, NEW r \in {0, task.gid}, Commits(r)
    PROVE  TypeOK'
  <1>1. task.gid \in Nat
    BY TaskMoves DEF TypeOK
  <1>2. reply' \in Nat
    BY <1>1 DEF Commits
  <1>3. history' \in Seq(Message)
    BY <1>1, AnswersTyped DEF Commits
  <1>4. task' \in TaskState /\ active' \in Seq(Segment)
    BY EndTaskTyped DEF Commits
  <1>5. CoreTypeOK'
    BY <1>3, <1>4, Zenon DEF Commits, TaskUnchanged, TypeOK, CoreTypeOK
  <1>6. PageTypeOK'
    BY <1>2 DEF Commits, TypeOK, PageTypeOK
  <1> QED
    BY <1>4, <1>5, <1>6, UserFrame DEF Commits, TaskUnchanged, TypeOK

\* The actions of the generation task.
LEMMA TaskTyped == TypeOK /\ TaskStep => TypeOK'
  <1> SUFFICES ASSUME TypeOK, TaskStep
               PROVE  TypeOK'
    OBVIOUS
  <1> USE PageFrame, UserFrame DEF TaskUnchanged
  <1>1. CASE TaskCancelled \/ TaskStale \/ NothingAsked \/ EndsFallback
    <2>1. EndTask /\ TaskUnchanged /\ UNCHANGED <<history, pending, budget, pageVars>>
      BY <1>1 DEF TaskCancelled, TaskStale, NothingAsked, EndsFallback
    <2>2. CoreTypeOK'
      BY <2>1, EndTaskTyped, Zenon DEF TypeOK, CoreTypeOK
    <2> QED
      BY <2>1, <2>2, EndTaskTyped DEF TypeOK
  <1>2. CASE TakesQuestion
    <2>1. Asked(pending) \in Segment
      BY AskedType DEF TypeOK, CoreTypeOK
    <2>2. task' \in TaskState
      BY <1>2, <2>1 DEF TakesQuestion, TypeOK, TaskState
    <2>3. CoreTypeOK'
      BY <1>2, EmptySeq, Zenon DEF TakesQuestion, TypeOK, CoreTypeOK
    <2>4. PageTypeOK'
      BY <1>2 DEF TakesQuestion, TypeOK, PageTypeOK
    <2> QED
      BY <1>2, <2>2, <2>3, <2>4 DEF TakesQuestion, TypeOK
  <1>3. CASE SpeaksSentence \/ SpeaksTail \/ SpeaksFallback
    <2>1. task' \in TaskState
      BY <1>3, TaskSays DEF SpeaksSentence, SpeaksTail, SpeaksFallback, TypeOK
    <2>2. tts' \in Seq(Nat)
      BY <1>3, PushTyped DEF SpeaksSentence, SpeaksTail, SpeaksFallback
    <2>3. CoreTypeOK'
      BY <1>3, CoreFrame DEF SpeaksSentence, SpeaksTail, SpeaksFallback, TypeOK, coreVars
    <2>4. PageTypeOK'
      BY <1>3, <2>2 DEF SpeaksSentence, SpeaksTail, SpeaksFallback, TypeOK, PageTypeOK
    <2> QED
      BY <1>3, <2>1, <2>3, <2>4 DEF SpeaksSentence, SpeaksTail, SpeaksFallback, TypeOK
  <1>4. CASE CommitsAfterTail \/ CommitsWithoutTail
    BY <1>4, CommitsTyped DEF CommitsAfterTail, CommitsWithoutTail
  <1>5. CASE StreamFails
    BY <1>5, CoreFrame, TaskMoves DEF StreamFails, TypeOK, coreVars
  <1>6. CASE CommitsFallback
    <2>1. task' \in TaskState
      BY <1>6, TaskSays DEF CommitsFallback, TypeOK
    <2>2. task.gid \in Nat
      BY TaskMoves DEF TypeOK
    <2>3. history' \in Seq(Message)
      BY <1>6, <2>2, AnswersTyped DEF CommitsFallback
    <2>4. CoreTypeOK'
      BY <1>6, <2>3, Zenon DEF CommitsFallback, TypeOK, CoreTypeOK
    <2>5. tts' \in Seq(Nat)
      BY <1>6, PushTyped DEF CommitsFallback
    <2>6. PageTypeOK'
      BY <1>6, <2>2, <2>5 DEF CommitsFallback, TypeOK, PageTypeOK
    <2> QED
      BY <1>6, <2>1, <2>4, <2>6 DEF CommitsFallback, TypeOK
  <1> QED
    BY <1>1, <1>2, <1>3, <1>4, <1>5, <1>6 DEF TaskStep

\* The timers, the TTS and the output.
LEMMA OutputTyped ==
    TypeOK /\ (OutputStep \/ SttTimesOut \/ BudgetElapses) => TypeOK'
  <1> SUFFICES ASSUME TypeOK, OutputStep \/ SttTimesOut \/ BudgetElapses
               PROVE  TypeOK'
    OBVIOUS
  <1> USE CoreFrame, PageFrame, UserFrame DEF TypeOK
  <1>1. ASSUME NEW last \in BOOLEAN, Audio(last)
        PROVE  TypeOK'
    <2>1. tts' \in Seq(Nat)
      <3>1. Tail(tts) \in Seq(Nat)
        BY <1>1 DEF Audio, PageTypeOK
      <3> QED
        BY <1>1, <3>1, Zenon DEF Audio, PageTypeOK
    <2>2. /\ botSpeaking' \in BOOLEAN /\ botStarted' \in BOOLEAN
          /\ accept' \in BOOLEAN /\ ui' \in {"listening", "thinking", "tidying", "speaking"}
      BY <1>1 DEF Audio, PageTypeOK
    <2>3. PageTypeOK'
      BY <1>1, <2>1, <2>2 DEF Audio, PageTypeOK
    <2> QED
      BY <1>1, <2>3 DEF Audio
  <1>2. CASE BotStops
    <2>1. PageTypeOK'
      BY <1>2 DEF BotStops, PageTypeOK
    <2> QED
      BY <1>2, <2>1 DEF BotStops
  <1>3. CASE SttTimesOut
    <2>1. PageTypeOK'
      BY <1>3 DEF SttTimesOut, PageClears, PageTypeOK
    <2> QED
      BY <1>3, <2>1 DEF SttTimesOut
  <1>4. CASE BudgetElapses
    <2>1. CoreTypeOK'
      BY <1>4 DEF BudgetElapses, CoreTypeOK
    <2> QED
      BY <1>4, <2>1 DEF BudgetElapses
  <1> QED
    BY <1>1, <1>2, <1>3, <1>4 DEF OutputStep

LEMMA StutterTyped == TypeOK /\ UNCHANGED vars => TypeOK'
  BY CoreFrame, PageFrame, UserFrame DEF TypeOK, vars

LEMMA TypeStep == TypeOK /\ [Next]_vars => TypeOK'
  BY SysTyped, SttTyped, DataTyped, TaskTyped, OutputTyped, StutterTyped DEF Next

\* Every variable keeps its type; in particular no utterance is transcribed that
\* was not spoken, whatever is lost, late or repeated (lines 844-868).
THEOREM TypeCorrect == Spec => []TypeOK
  <1> QED
    BY InitType, TypeStep, PTL DEF Spec


-----------------------------------------------------------------------------
(* The history and the reply that waits to be announced *)

\* How a step may change them: not at all (the reply may be announced or
\* dropped), by retracting, or by a whole answer.
HistoryStays == history' = history /\ (reply' = reply \/ reply' = 0)
HistoryRetracts == history' = DropQuestion(DropReply(history)) /\ reply' = 0
HistoryGrows == Answers(task.gid) /\ reply' \in {0, task.gid}

LEMMA HistoryMoves ==
    [Next]_vars => HistoryStays \/ (MergesTurn /\ HistoryRetracts) \/ HistoryGrows
  <1> SUFFICES ASSUME [Next]_vars
               PROVE  HistoryStays \/ (MergesTurn /\ HistoryRetracts) \/ HistoryGrows
    OBVIOUS
  <1> USE DEF coreVars, pageVars
  <1>1. CASE UserStep
    BY <1>1 DEF UserStep, UserStarts, UserStops, HistoryStays
  <1>2. CASE SysStep
    BY <1>2 DEF SysStep, StopsGeneration, NothingToStop, SysBroadcasts, SysCancels,
                SysJoined, LabelsTidying, ArmsTimeout, BotStarts, HistoryStays
  <1>3. CASE NoTranscription \/ DropsNoise \/ QueuesForNextTurn
    BY <1>3 DEF NoTranscription, DropsNoise, QueuesForNextTurn, HistoryStays
  <1>4. CASE ResetsTurn
    BY <1>4 DEF ResetsTurn, Restarts, HistoryStays
  <1>5. CASE MergesTurn
    <2>1. history' = history \/ history' = DropQuestion(DropReply(history))
      BY <1>5, Zenon DEF MergesTurn
    <2>2. reply' = 0
      BY <1>5 DEF MergesTurn, Restarts
    <2> QED
      BY <1>5, <2>1, <2>2 DEF HistoryStays, HistoryRetracts
  <1>6. CASE DataStep
    BY <1>6 DEF DataStep, DataBroadcasts, DataCancels, StartsGeneration, HistoryStays
  <1>7. CASE TaskCancelled \/ TaskStale \/ TakesQuestion \/ NothingAsked \/ SpeaksSentence
             \/ SpeaksTail \/ StreamFails \/ SpeaksFallback \/ EndsFallback
    BY <1>7 DEF TaskCancelled, TaskStale, TakesQuestion, NothingAsked, SpeaksSentence,
                SpeaksTail, StreamFails, SpeaksFallback, EndsFallback, HistoryStays
  <1>8. CASE CommitsAfterTail \/ CommitsWithoutTail
    BY <1>8 DEF CommitsAfterTail, CommitsWithoutTail, Commits, HistoryGrows
  <1>9. CASE CommitsFallback
    BY <1>9 DEF CommitsFallback, HistoryGrows
  <1>10. CASE OutputStep \/ SttTimesOut \/ BudgetElapses \/ UNCHANGED vars
    BY <1>10 DEF OutputStep, Audio, BotStops, SttTimesOut, BudgetElapses, HistoryStays, vars
  <1> QED
    BY <1>1, <1>2, <1>3, <1>4, <1>5, <1>6, <1>7, <1>8, <1>9, <1>10
    DEF Next, SttStep, TaskStep

\* What is taken back from a history of whole turns is its last turn.
LEMMA RetractsTurn ==
    ASSUME NEW h \in Seq(Message), h # <<>>, Len(h) % 2 = 0,
           \A i \in DOMAIN h : h[i].role = IF i % 2 = 1 THEN "user" ELSE "assistant"
    PROVE  /\ Len(h) >= 2
           /\ DropQuestion(DropReply(h)) = SubSeq(h, 1, Len(h) - 2)
           /\ LastQuestion(DropReply(h)) = <<h[Len(h) - 1].asks>>
  <1> DEFINE n == Len(h)
             q == SubSeq(h, 1, n - 1)
  <1>1. n \in Nat /\ n >= 2
    OBVIOUS
  <1>2. h[n].role = "assistant" /\ h[n - 1].role = "user"
    BY <1>1
  <1>3. DropReply(h) = q
    BY <1>2 DEF DropReply, EndsWith, DropLast
  <1>4. q \in Seq(Message) /\ Len(q) = n - 1 /\ \A i \in 1 .. n - 1 : q[i] = h[i]
    BY <1>1
  <1>5. SubSeq(q, 1, n - 2) = SubSeq(h, 1, n - 2)
    <2>1. /\ SubSeq(q, 1, n - 2) \in Seq(Message) /\ SubSeq(h, 1, n - 2) \in Seq(Message)
          /\ Len(SubSeq(q, 1, n - 2)) = n - 2 /\ Len(SubSeq(h, 1, n - 2)) = n - 2
      BY <1>1, <1>4
    <2>2. \A i \in 1 .. n - 2 : SubSeq(q, 1, n - 2)[i] = SubSeq(h, 1, n - 2)[i]
      BY <1>1, <1>4
    <2> HIDE DEF q
    <2> QED
      BY <2>1, <2>2, SeqEqual
  <1> HIDE DEF q
  <1>6. n - 1 \in 1 .. n - 1 /\ q # <<>> /\ q[Len(q)] = h[n - 1]
    BY <1>1, <1>4
  <1>7. EndsWith(q, "user")
    BY <1>2, <1>6 DEF EndsWith
  <1>8. DropQuestion(q) = SubSeq(q, 1, n - 2)
    BY <1>1, <1>4, <1>7 DEF DropQuestion, DropLast
  <1>9. LastQuestion(q) = <<h[n - 1].asks>>
    BY <1>6, <1>7 DEF LastQuestion
  <1> QED
    BY <1>1, <1>3, <1>5, <1>8, <1>9

\* What is left of a history without its last turn.
LEMMA WithoutLastTurn ==
    ASSUME NEW h \in Seq(Message), Len(h) >= 2
    PROVE  /\ SubSeq(h, 1, Len(h) - 2) \in Seq(Message)
           /\ Len(SubSeq(h, 1, Len(h) - 2)) = Len(h) - 2
           /\ \A i \in 1 .. Len(h) - 2 : SubSeq(h, 1, Len(h) - 2)[i] = h[i]
  <1> DEFINE n == Len(h) - 2
  <1>1. n \in Nat /\ n \in 0 .. Len(h)
    OBVIOUS
  <1> HIDE DEF n
  <1>2. /\ SubSeq(h, 1, n) \in Seq(Message) /\ Len(SubSeq(h, 1, n)) = n
        /\ \A i \in 1 .. n : SubSeq(h, 1, n)[i] = h[i]
    BY <1>1
  <1> QED
    BY <1>2 DEF n

\* Taking back a reply and its question leaves whole turns.
LEMMA RetractingAlternates ==
    ASSUME TypeOK, HistoryAlternates, HistoryRetracts
    PROVE  HistoryAlternates'
  <1> DEFINE n == Len(history)
  <1>1. history \in Seq(Message) /\ n \in Nat /\ n % 2 = 0
    BY DEF TypeOK, CoreTypeOK, HistoryAlternates
  <1>2. CASE history = <<>>
    <2>1. history' = <<>>
      BY <1>2 DEF HistoryRetracts, DropQuestion, DropReply, EndsWith
    <2> QED
      BY <2>1 DEF HistoryAlternates
  <1>3. CASE history # <<>>
    <2>1. n >= 2 /\ history' = SubSeq(history, 1, n - 2)
      BY <1>1, <1>3, RetractsTurn DEF HistoryAlternates, HistoryRetracts
    <2>2. /\ history' \in Seq(Message) /\ Len(history') = n - 2
          /\ \A i \in 1 .. n - 2 : history'[i] = history[i]
      BY <1>1, <2>1, WithoutLastTurn, Zenon
    <2>3. DOMAIN history' = 1 .. n - 2 /\ (n - 2) % 2 = 0
      BY <1>1, <2>1, <2>2
    <2>4. \A i \in 1 .. n - 2 : i \in DOMAIN history
      BY <1>1, <2>1
    <2> QED
      BY <2>2, <2>3, <2>4 DEF HistoryAlternates
  <1> QED
    BY <1>2, <1>3

\* An answer adds one whole turn.
LEMMA AnsweringAlternates ==
    ASSUME TypeOK, HistoryAlternates, HistoryGrows
    PROVE  HistoryAlternates'
  <1> DEFINE n == Len(history)
             question == [role |-> "user", asks |-> task.asks, gen |-> 0]
             answer   == [role |-> "assistant", asks |-> {}, gen |-> task.gid]
  <1>1. history \in Seq(Message) /\ n \in Nat /\ n % 2 = 0
    BY DEF TypeOK, CoreTypeOK, HistoryAlternates
  <1>2. question.role = "user" /\ answer.role = "assistant"
    OBVIOUS
  <1>3. history' = history \o <<question, answer>>
    BY DEF HistoryGrows, Answers
  <1> HIDE DEF question, answer
  <1>4. /\ DOMAIN history' = 1 .. n + 2 /\ Len(history') = n + 2
        /\ history'[n + 1] = question /\ history'[n + 2] = answer
        /\ \A i \in 1 .. n : history'[i] = history[i]
    BY <1>1, <1>3
  <1>5. \A i \in 1 .. n : history[i].role = IF i % 2 = 1 THEN "user" ELSE "assistant"
    BY <1>1 DEF HistoryAlternates
  <1>6. (n + 2) % 2 = 0 /\ (n + 1) % 2 = 1
    BY <1>1
  <1>7. ASSUME NEW i \in 1 .. n + 2
        PROVE  history'[i].role = IF i % 2 = 1 THEN "user" ELSE "assistant"
    <2>1. CASE i \in 1 .. n
      BY <1>4, <1>5, <2>1
    <2>2. CASE i = n + 1
      BY <1>2, <1>4, <1>6, <2>2
    <2>3. CASE i = n + 2
      BY <1>2, <1>4, <1>6, <2>3
    <2> QED
      BY <1>1, <2>1, <2>2, <2>3
  <1> QED
    BY <1>4, <1>6, <1>7 DEF HistoryAlternates

\* The LLM is sent whole turns only (lines 497-508, 753-754, 787-788).
THEOREM HistoryAlternating == Spec => []HistoryAlternates
  <1>1. Init => HistoryAlternates
    BY DEF Init, HistoryAlternates
  <1>2. TypeOK /\ HistoryAlternates /\ [Next]_vars => HistoryAlternates'
    <2> SUFFICES ASSUME TypeOK, HistoryAlternates, [Next]_vars
                 PROVE  HistoryAlternates'
      OBVIOUS
    <2>1. CASE HistoryStays
      BY <2>1 DEF HistoryStays, HistoryAlternates
    <2>2. CASE HistoryRetracts
      BY <2>2, RetractingAlternates
    <2>3. CASE HistoryGrows
      BY <2>3, AnsweringAlternates
    <2> QED
      BY <2>1, <2>2, <2>3, HistoryMoves
  <1> QED
    BY <1>1, <1>2, TypeCorrect, PTL DEF Spec

\* A reply that waits to be announced is the last of the history: none is shown
\* that was taken back or followed by another (lines 156-179, 415).
THEOREM QueuedReplyLast == Spec => []QueuedReplyIsLast
  <1>1. Init => QueuedReplyIsLast
    BY DEF Init, QueuedReplyIsLast
  <1>2. TypeOK /\ QueuedReplyIsLast /\ [Next]_vars => QueuedReplyIsLast'
    <2> SUFFICES ASSUME TypeOK, QueuedReplyIsLast, [Next]_vars
                 PROVE  QueuedReplyIsLast'
      OBVIOUS
    <2>1. CASE HistoryStays
      BY <2>1 DEF HistoryStays, QueuedReplyIsLast
    <2>2. CASE HistoryRetracts
      BY <2>2 DEF HistoryRetracts, QueuedReplyIsLast
    <2>3. CASE HistoryGrows
      <3> DEFINE question == [role |-> "user", asks |-> task.asks, gen |-> 0]
                 answer   == [role |-> "assistant", asks |-> {}, gen |-> task.gid]
      <3>1. history' = history \o <<question, answer>> /\ answer.gen = task.gid
        BY <2>3 DEF HistoryGrows, Answers
      <3> HIDE DEF question, answer
      <3>2. history' # <<>> /\ history'[Len(history')] = answer
        BY <3>1 DEF TypeOK, CoreTypeOK
      <3> QED
        BY <2>3, <3>1, <3>2 DEF HistoryGrows, QueuedReplyIsLast
    <2> QED
      BY <2>1, <2>2, <2>3, HistoryMoves
  <1> QED
    BY <1>1, <1>2, TypeCorrect, PTL DEF Spec


-----------------------------------------------------------------------------
(* What waits for synthesis *)

\* How a step may change it: it is flushed, it loses or gains a sentence, or
\* one handler has made a generation stale and has yet to flush.
Flushing == sys.pc = "clearing" \/ data.pc = "clearing"
TtsKept ==
    /\ gid' = gid
    /\ Flushing => Flushing'
    /\ tts' = tts \/ tts' = Tail(tts) \/ (PushTts /\ Current)

LEMMA TtsMoves ==
    ASSUME TypeOK, [Next]_vars
    PROVE  tts' = <<>> \/ Flushing' \/ TtsKept
  <1>1. sys \in SysState /\ data \in DataState
    BY DEF TypeOK
  <1> USE DEF coreVars, pageVars
  <1>2. CASE UserStarts
    <2>1. CASE botSpeaking
      BY <1>2, <2>1 DEF UserStarts, Flush
    <2>2. CASE ~botSpeaking
      BY <1>2, <2>2 DEF UserStarts, SysAt, Flushing, TtsKept
    <2> QED
      BY <2>1, <2>2
  <1>3. CASE StopsGeneration
    BY <1>1, <1>3 DEF StopsGeneration, SysGoes, Flushing, SysState
  <1>4. CASE SysBroadcasts \/ DataBroadcasts
    BY <1>4 DEF SysBroadcasts, DataBroadcasts, Flush
  <1>5. CASE UserStops \/ NothingToStop \/ SysCancels \/ SysJoined \/ LabelsTidying
             \/ ArmsTimeout \/ BotStarts
    BY <1>5 DEF UserStops, NothingToStop, SysCancels, SysJoined, LabelsTidying, ArmsTimeout,
                BotStarts, SysAt, Flushing, TtsKept
  <1>6. CASE NoTranscription \/ DropsNoise \/ QueuesForNextTurn
    BY <1>6 DEF NoTranscription, DropsNoise, QueuesForNextTurn, Transcribed, Flushing, TtsKept
  <1>7. CASE ResetsTurn \/ MergesTurn
    BY <1>7 DEF ResetsTurn, MergesTurn, Restarts, Flushing
  <1>8. CASE DataCancels \/ StartsGeneration
    BY <1>8 DEF DataCancels, StartsGeneration, Flushing, TtsKept
  <1>9. CASE TaskCancelled \/ TaskStale \/ TakesQuestion \/ NothingAsked \/ StreamFails
             \/ EndsFallback \/ CommitsAfterTail \/ CommitsWithoutTail
    BY <1>9 DEF TaskCancelled, TaskStale, TakesQuestion, NothingAsked, StreamFails,
                EndsFallback, CommitsAfterTail, CommitsWithoutTail, Commits,
                TaskUnchanged, Flushing, TtsKept
  <1>10. CASE SpeaksSentence \/ SpeaksTail \/ SpeaksFallback \/ CommitsFallback
    BY <1>10 DEF SpeaksSentence, SpeaksTail, SpeaksFallback, CommitsFallback,
                 TaskUnchanged, Flushing, TtsKept
  <1>11. CASE OutputStep \/ SttTimesOut \/ BudgetElapses \/ UNCHANGED vars
    BY <1>11 DEF OutputStep, Audio, BotStops, SttTimesOut, BudgetElapses, vars,
                 Flushing, TtsKept
  <1> QED
    BY <1>2, <1>3, <1>4, <1>5, <1>6, <1>7, <1>8, <1>9, <1>10, <1>11
    DEF Next, UserStep, SysStep, SttStep, DataStep, TaskStep

\* No overtaken answer is spoken into the next turn, whichever handler made the
\* generation stale and wherever the other one stands (lines 414-418, 578-581).
THEOREM NoStaleSpeechEver == Spec => []NoStaleSpeech
  <1>1. Init => NoStaleSpeech
    BY DEF Init, NoStaleSpeech
  <1>2. TypeOK /\ NoStaleSpeech /\ [Next]_vars => NoStaleSpeech'
    <2> SUFFICES ASSUME TypeOK, NoStaleSpeech, [Next]_vars, ~Flushing'
                 PROVE  \A i \in DOMAIN tts' : tts'[i] = gid'
      BY DEF NoStaleSpeech, Flushing, SysAt
    <2>1. CASE tts' = <<>>
      BY <2>1
    <2>2. CASE TtsKept
      <3>1. gid' = gid /\ \A i \in DOMAIN tts : tts[i] = gid
        BY <2>2 DEF TtsKept, NoStaleSpeech, Flushing, SysAt
      <3>2. tts \in Seq(Nat)
        BY DEF TypeOK, PageTypeOK
      <3>3. CASE tts' = tts
        BY <3>1, <3>3
      <3>4. CASE tts' = Tail(tts)
        <4>1. CASE tts = <<>>
          BY <3>4, <4>1
        <4>2. CASE tts # <<>>
          BY <3>1, <3>2, <3>4, <4>2
        <4> QED
          BY <4>1, <4>2
      <3>5. CASE PushTts /\ Current
        BY <3>1, <3>2, <3>5 DEF PushTts, Current
      <3> QED
        BY <2>2, <3>3, <3>4, <3>5 DEF TtsKept
    <2> QED
      BY <2>1, <2>2, TtsMoves
  <1> QED
    BY <1>1, <1>2, TypeCorrect, PTL DEF Spec

-----------------------------------------------------------------------------
(* Closed turns *)

\* A step that does not take history back lets it only grow.
LEMMA GrowingKeeps ==
    ASSUME TypeOK, HistoryStays \/ HistoryGrows
    PROVE  /\ Len(history') >= Len(history)
           /\ SubSeq(history', 1, Len(history)) = history
  <1>1. history \in Seq(Message)
    BY DEF TypeOK, CoreTypeOK
  <1>2. CASE HistoryStays
    BY <1>1, <1>2 DEF HistoryStays
  <1>3. CASE HistoryGrows
    <2> DEFINE question == [role |-> "user", asks |-> task.asks, gen |-> 0]
               answer   == [role |-> "assistant", asks |-> {}, gen |-> task.gid]
    <2>1. history' = history \o <<question, answer>>
      BY <1>3 DEF HistoryGrows, Answers
    <2> HIDE DEF question, answer
    <2> QED
      BY <1>1, <2>1
  <1> QED
    BY <1>2, <1>3

\* Only the reset unsets _reply_audio_started, and it sets _post_reply_reset.
LEMMA ClosedStays ==
    ASSUME [Next]_vars, Closed
    PROVE  Closed'
  <1> USE DEF Closed, coreVars
  <1>1. CASE BotStarts \/ ResetsTurn
    BY <1>1, Zenon DEF BotStarts, ResetsTurn
  <1>2. CASE MergesTurn
    BY <1>2 DEF MergesTurn
  <1>3. CASE UserStep \/ StopsGeneration \/ NothingToStop \/ SysBroadcasts \/ SysCancels
             \/ SysJoined \/ LabelsTidying \/ ArmsTimeout
    BY <1>3 DEF UserStep, UserStarts, UserStops, StopsGeneration, NothingToStop,
                SysBroadcasts, SysCancels, SysJoined, LabelsTidying, ArmsTimeout
  <1>4. CASE NoTranscription \/ DropsNoise \/ QueuesForNextTurn \/ DataStep
    BY <1>4 DEF NoTranscription, DropsNoise, QueuesForNextTurn, DataStep, DataBroadcasts,
                DataCancels, StartsGeneration
  <1>5. CASE TaskStep
    <2>1. UNCHANGED <<audioStarted, postReset>>
      BY <1>5 DEF TaskStep, TaskCancelled, TaskStale, TakesQuestion, NothingAsked,
                  SpeaksSentence, SpeaksTail, CommitsAfterTail, CommitsWithoutTail, Commits,
                  StreamFails, CommitsFallback, SpeaksFallback, EndsFallback, TaskUnchanged
    <2> QED
      BY <2>1
  <1>6. CASE OutputStep \/ SttTimesOut \/ BudgetElapses \/ UNCHANGED vars
    BY <1>6 DEF OutputStep, Audio, BotStops, SttTimesOut, BudgetElapses, vars
  <1> QED
    BY <1>1, <1>2, <1>3, <1>4, <1>5, <1>6 DEF Next, SysStep, SttStep

\* What a heard reply closed is never taken back nor merged again (lines 462-508).
THEOREM ClosedTurnsStay == Spec => ClosedTurnsStayClosed
  <1>1. TypeOK /\ [Next]_vars =>
          [Closed => Closed' /\ Len(history') >= Len(history)
                             /\ SubSeq(history', 1, Len(history)) = history]_vars
    <2> SUFFICES ASSUME TypeOK, [Next]_vars, Closed
                 PROVE  /\ Closed'
                        /\ Len(history') >= Len(history)
                        /\ SubSeq(history', 1, Len(history)) = history
      OBVIOUS
    <2>1. Closed'
      BY ClosedStays
    <2>2. HistoryStays \/ HistoryGrows
      <3>1. CASE MergesTurn
        <4>1. postReset
          BY <3>1 DEF MergesTurn, Closed
        <4> QED
          BY <3>1, <4>1, Zenon DEF MergesTurn, Restarts, HistoryStays
      <3> QED
        BY <3>1, HistoryMoves
    <2> QED
      BY <2>1, <2>2, GrowingKeeps
  <1> QED
    BY <1>1, TypeCorrect, PTL DEF Spec, ClosedTurnsStayClosed


-----------------------------------------------------------------------------
(* What a generation asks *)

\* No generation is newer than the counter: one made stale stays stale.
GenerationsInOrder == task.gid <= gid /\ data.gid <= gid

LEMMA OrderKept == TypeOK /\ GenerationsInOrder /\ [Next]_vars => GenerationsInOrder'
  <1> SUFFICES ASSUME TypeOK, GenerationsInOrder, [Next]_vars
               PROVE  GenerationsInOrder'
    OBVIOUS
  <1>1. gid \in Nat /\ task \in TaskState /\ data \in DataState
    BY DEF TypeOK, CoreTypeOK
  <1>2. task.gid \in Nat /\ data.gid \in Nat
    BY <1>1 DEF TaskState, DataState
  <1> USE DEF coreVars, GenerationsInOrder
  <1>3. CASE UserStarts
    <2>1. data'.gid = data.gid
      BY <1>1, <1>3 DEF UserStarts, DataState
    <2> QED
      BY <1>3, <2>1 DEF UserStarts
  <1>4. CASE StopsGeneration
    BY <1>1, <1>2, <1>4 DEF StopsGeneration
  <1>5. CASE SysCancels \/ DataCancels
    <2>1. task'.gid = task.gid /\ data'.gid = data.gid /\ gid' = gid
      BY <1>1, <1>5 DEF SysCancels, DataCancels, TaskState, DataState
    <2> QED
      BY <2>1
  <1>6. CASE ResetsTurn \/ MergesTurn
    <2>1. gid' = gid + 1 /\ data'.gid = gid' /\ task' = task
      BY <1>6 DEF ResetsTurn, MergesTurn, Restarts
    <2> QED
      BY <1>1, <1>2, <2>1
  <1>7. CASE DataBroadcasts
    <2>1. data'.gid = data.gid /\ gid' = gid /\ task' = task
      BY <1>1, <1>7 DEF DataBroadcasts, DataState
    <2> QED
      BY <2>1
  <1>8. CASE StartsGeneration
    <2>1. task'.gid = data.gid /\ data'.gid = data.gid /\ gid' = gid
      BY <1>1, <1>8 DEF StartsGeneration, CreateTask, DataState
    <2> QED
      BY <2>1
  <1>9. CASE TaskStep
    <2>1. gid' = gid /\ data' = data
      BY <1>9 DEF TaskStep, TaskCancelled, TaskStale, TakesQuestion, NothingAsked,
                  SpeaksSentence, SpeaksTail, CommitsAfterTail, CommitsWithoutTail, Commits,
                  StreamFails, CommitsFallback, SpeaksFallback, EndsFallback, TaskUnchanged
    <2>2. task'.gid = task.gid
      BY <1>1, <1>9 DEF TaskStep, TaskCancelled, TaskStale, TakesQuestion, NothingAsked,
                  SpeaksSentence, SpeaksTail, CommitsAfterTail, CommitsWithoutTail, Commits,
                  StreamFails, CommitsFallback, SpeaksFallback, EndsFallback, EndTask, TaskState
    <2> QED
      BY <2>1, <2>2
  <1>10. CASE UNCHANGED <<gid, task, data>>
    BY <1>10
  <1>11. CASE \/ UserStops \/ NothingToStop \/ SysBroadcasts \/ SysJoined \/ LabelsTidying
              \/ ArmsTimeout \/ BotStarts
    BY <1>10, <1>11 DEF UserStops, NothingToStop, SysBroadcasts, SysJoined, LabelsTidying,
                        ArmsTimeout, BotStarts
  <1>12. CASE \/ NoTranscription \/ DropsNoise \/ QueuesForNextTurn \/ OutputStep
              \/ SttTimesOut \/ BudgetElapses \/ UNCHANGED vars
    BY <1>10, <1>12 DEF NoTranscription, DropsNoise, QueuesForNextTurn, OutputStep, Audio,
                        BotStops, SttTimesOut, BudgetElapses, vars
  <1> QED
    BY <1>3, <1>4, <1>5, <1>6, <1>7, <1>8, <1>9, <1>11, <1>12
    DEF Next, UserStep, SysStep, SttStep, DataStep

\* The generation that AsksWholeTurn is about.
Asking == Current /\ task.pc \in {"stream", "tail", "fallback"} /\ ~task.cancelled

LEMMA AsksKept ==
    TypeOK /\ GenerationsInOrder /\ AsksWholeTurn /\ [Next]_vars => AsksWholeTurn'
  <1> SUFFICES ASSUME TypeOK, GenerationsInOrder, AsksWholeTurn, [Next]_vars, Asking'
               PROVE  (/\ Asked(active) = task.asks
                       /\ pending # <<>> => budget # "running")'
    BY DEF AsksWholeTurn, Asking
  <1>1. gid \in Nat /\ task \in TaskState /\ task.gid \in Nat
    BY DEF TypeOK, CoreTypeOK, TaskState
  <1> USE DEF coreVars
  <1>2. ASSUME Asking, UNCHANGED <<active, pending>>, task'.asks = task.asks,
               budget' = budget \/ budget' # "running"
        PROVE  (/\ Asked(active) = task.asks
                /\ pending # <<>> => budget # "running")'
    BY <1>2 DEF AsksWholeTurn, Asking, Asked
  <1>3. CASE UNCHANGED <<gid, active, pending, task>>
    <2>1. CASE budget' = budget \/ budget' # "running"
      BY <1>2, <1>3, <2>1 DEF Asking, Current
    <2>2. CASE budget' # budget /\ budget' = "running"
      <3>1. ResetsTurn \/ MergesTurn
        BY <2>2 DEF Next, UserStep, SysStep, SttStep, DataStep, TaskStep, OutputStep, vars,
             UserStarts, UserStops, StopsGeneration, NothingToStop, SysBroadcasts, SysCancels,
             SysJoined, LabelsTidying, ArmsTimeout, BotStarts, NoTranscription, DropsNoise,
             QueuesForNextTurn, DataBroadcasts, DataCancels, StartsGeneration, TaskCancelled,
             TaskStale, TakesQuestion, NothingAsked, SpeaksSentence, SpeaksTail,
             CommitsAfterTail, CommitsWithoutTail, Commits, StreamFails, CommitsFallback,
             SpeaksFallback, EndsFallback, Audio, BotStops, SttTimesOut, BudgetElapses
      <3> QED
        BY <1>1, <1>3, <3>1 DEF ResetsTurn, MergesTurn, Restarts
    <2> QED
      BY <2>1, <2>2
  <1>4. ~(StopsGeneration \/ ResetsTurn \/ MergesTurn)
    <2>1. StopsGeneration \/ ResetsTurn \/ MergesTurn => gid' = gid + 1 /\ task' = task
      BY DEF StopsGeneration, ResetsTurn, MergesTurn, Restarts
    <2> QED
      BY <1>1, <2>1 DEF Asking, Current, GenerationsInOrder
  <1>5. CASE SysCancels \/ DataCancels
    <2>1. task'.cancelled \/ UNCHANGED <<task, gid, active, pending>>
      BY <1>1, <1>5 DEF SysCancels, DataCancels, TaskState
    <2> QED
      BY <1>3, <2>1 DEF Asking
  <1>6. ~StartsGeneration
    BY DEF StartsGeneration, CreateTask, Asking
  <1>7. CASE QueuesForNextTurn
    <2>1. budget' # "running" /\ UNCHANGED <<active, task, gid>>
      BY <1>7 DEF QueuesForNextTurn, MustQueue
    <2> QED
      BY <2>1 DEF AsksWholeTurn, Asking, Current, Asked
  <1>8. CASE TakesQuestion
    <2>1. active' = pending /\ pending' = <<>> /\ task'.asks = Asked(pending)
      BY <1>1, <1>8 DEF TakesQuestion, TaskState
    <2> QED
      BY <2>1 DEF Asked
  <1>9. ~(\/ TaskCancelled \/ TaskStale \/ NothingAsked \/ EndsFallback
          \/ CommitsAfterTail \/ CommitsWithoutTail)
    <2>1. EndTask => task'.pc = "done"
      BY <1>1 DEF EndTask, TaskState
    <2> QED
      BY <2>1 DEF TaskCancelled, TaskStale, NothingAsked, EndsFallback, CommitsAfterTail,
                  CommitsWithoutTail, Commits, Asking
  <1>10. CASE SpeaksSentence \/ SpeaksTail \/ StreamFails
    <2>1. Asking
      BY <1>1, <1>10 DEF SpeaksSentence, SpeaksTail, StreamFails, TaskAt, Asking
    <2>2. task'.asks = task.asks
      BY <1>1, <1>10 DEF SpeaksSentence, SpeaksTail, StreamFails, TaskState
    <2> QED
      BY <1>2, <1>10, <2>1, <2>2 DEF SpeaksSentence, SpeaksTail, StreamFails
  <1>11. ~(CommitsFallback \/ SpeaksFallback)
    BY <1>1 DEF CommitsFallback, SpeaksFallback, TaskAt, Asking, TaskState
  <1>12. CASE \/ UserStarts \/ UserStops \/ NothingToStop \/ SysBroadcasts \/ SysJoined
              \/ LabelsTidying \/ ArmsTimeout \/ BotStarts
    BY <1>3, <1>12 DEF UserStarts, UserStops, NothingToStop, SysBroadcasts, SysJoined,
                       LabelsTidying, ArmsTimeout, BotStarts
  <1>13. CASE \/ NoTranscription \/ DropsNoise \/ DataBroadcasts \/ OutputStep
              \/ SttTimesOut \/ BudgetElapses \/ UNCHANGED vars
    BY <1>3, <1>13 DEF NoTranscription, DropsNoise, DataBroadcasts, OutputStep, Audio,
                       BotStops, SttTimesOut, BudgetElapses, vars
  <1> QED
    BY <1>4, <1>5, <1>6, <1>7, <1>8, <1>9, <1>10, <1>11, <1>12, <1>13
    DEF Next, UserStep, SysStep, SttStep, DataStep, TaskStep

\* A current generation asks all that the turn has collected, and leaves a
\* segment waiting only past the budget (lines 437-458, 510-517, 541-543).
THEOREM AskingWholeTurns == Spec => []AsksWholeTurn
  <1>1. Init => GenerationsInOrder /\ AsksWholeTurn
    BY DEF Init, GenerationsInOrder, AsksWholeTurn
  <1> QED
    BY <1>1, OrderKept, AsksKept, TypeCorrect, PTL DEF Spec

-----------------------------------------------------------------------------
(* What is asked is never lost *)

\* The segments of a list and of what is appended to it are all asked.
LEMMA AskedConcat ==
    ASSUME NEW s \in Seq(Segment), NEW t \in Seq(Segment)
    PROVE  Asked(s \o t) = Asked(s) \cup Asked(t)
  <1> DEFINE m == Len(s)
             n == Len(t)
  <1>1. /\ m \in Nat /\ n \in Nat /\ DOMAIN s = 1 .. m /\ DOMAIN t = 1 .. n
        /\ DOMAIN (s \o t) = 1 .. m + n
        /\ \A i \in 1 .. m : (s \o t)[i] = s[i]
        /\ \A i \in 1 .. n : (s \o t)[m + i] = t[i]
    OBVIOUS
  <1> HIDE DEF m, n
  <1>2. ASSUME NEW u \in Asked(s \o t)
        PROVE  u \in Asked(s) \cup Asked(t)
    <2>1. PICK i \in 1 .. m + n : u \in (s \o t)[i]
      BY <1>1 DEF Asked
    <2>2. CASE i <= m
      <3>1. i \in DOMAIN s /\ u \in s[i]
        BY <1>1, <2>1, <2>2
      <3> QED
        BY <3>1 DEF Asked
    <2>3. CASE i > m
      <3>1. i - m \in 1 .. n /\ m + (i - m) = i
        BY <1>1, <2>3
      <3>2. i - m \in DOMAIN t /\ u \in t[i - m]
        BY <1>1, <2>1, <3>1
      <3> QED
        BY <3>2 DEF Asked
    <2> QED
      BY <1>1, <2>2, <2>3
  <1>3. ASSUME NEW u \in Asked(s)
        PROVE  u \in Asked(s \o t)
    <2>1. PICK i \in DOMAIN s : u \in s[i]
      BY DEF Asked
    <2>2. i \in DOMAIN (s \o t) /\ u \in (s \o t)[i]
      BY <1>1, <2>1
    <2> QED
      BY <2>2 DEF Asked
  <1>4. ASSUME NEW u \in Asked(t)
        PROVE  u \in Asked(s \o t)
    <2>1. PICK i \in DOMAIN t : u \in t[i]
      BY DEF Asked
    <2>2. m + i \in DOMAIN (s \o t) /\ u \in (s \o t)[m + i]
      BY <1>1, <2>1
    <2> QED
      BY <2>2 DEF Asked
  <1> QED
    BY <1>2, <1>3, <1>4

\* The first segment of a list and the others.
LEMMA AskedTail ==
    ASSUME NEW t \in Seq(Segment), t # <<>>
    PROVE  Asked(t) = t[1] \cup Asked(Tail(t))
  <1>1. Tail(t) \in Seq(Segment) /\ <<t[1]>> \in Seq(Segment) /\ t = <<t[1]>> \o Tail(t)
    OBVIOUS
  <1>2. Asked(<<t[1]>>) = t[1]
    BY DEF Asked
  <1> QED
    BY <1>1, <1>2, AskedConcat

\* Joining two lists keeps what each of them asks: the segment dropped at the
\* joint is in the other list.
LEMMA AskedJoin ==
    ASSUME NEW s \in Seq(Segment), NEW t \in Seq(Segment)
    PROVE  Asked(Join(s, t)) = Asked(s) \cup Asked(t)
  <1>1. CASE s # <<>> /\ t # <<>> /\ s[Len(s)] = t[1]
    <2>1. Len(s) \in DOMAIN s
      BY <1>1
    <2>2. t[1] \subseteq Asked(s)
      BY <1>1, <2>1 DEF Asked
    <2>3. Tail(t) \in Seq(Segment)
      BY <1>1
    <2>4. Asked(s \o Tail(t)) = Asked(s) \cup Asked(Tail(t))
      BY <2>3, AskedConcat
    <2>5. Asked(t) = t[1] \cup Asked(Tail(t))
      BY <1>1, AskedTail
    <2> QED
      BY <1>1, <2>2, <2>4, <2>5 DEF Join
  <1>2. CASE ~(s # <<>> /\ t # <<>> /\ s[Len(s)] = t[1])
    BY <1>2, AskedConcat DEF Join
  <1> QED
    BY <1>1, <1>2

\* The questions of the conversation.
Questions(h) == UNION {h[i].asks : i \in DOMAIN h}

\* A reply asks nothing.
RepliesAskNothing ==
    \A i \in DOMAIN history : history[i].role = "assistant" => history[i].asks = {}

\* A conversation without its last message lacks what that message asked.
LEMMA QuestionsDrop ==
    ASSUME NEW h \in Seq(Message), h # <<>>
    PROVE  Questions(h) = Questions(DropLast(h)) \cup h[Len(h)].asks
  <1> DEFINE n == Len(h)
             d == DropLast(h)
  <1>1. /\ n \in Nat /\ n >= 1 /\ DOMAIN h = 1 .. n /\ DOMAIN d = 1 .. n - 1
        /\ \A i \in 1 .. n - 1 : d[i] = h[i]
    BY DEF DropLast
  <1> HIDE DEF n, d
  <1>2. 1 .. n = (1 .. n - 1) \cup {n}
    BY <1>1
  <1>3. Questions(d) \cup h[n].asks = Questions(h)
    BY <1>1, <1>2 DEF Questions
  <1> QED
    BY <1>3 DEF d, n

\* Taking back a reply and its question takes back one question, which the
\* caller has.
LEMMA QuestionsRetracted ==
    ASSUME NEW h \in Seq(Message),
           \A i \in DOMAIN h : h[i].role = "assistant" => h[i].asks = {}
    PROVE  Questions(h) \subseteq Questions(DropQuestion(DropReply(h)))
                                      \cup Asked(LastQuestion(DropReply(h)))
  <1> DEFINE r == DropReply(h)
  <1>1. r \in Seq(Message)
    BY DropType
  <1>2. Questions(h) \subseteq Questions(r)
    <2>1. CASE EndsWith(h, "assistant")
      <3>1. h # <<>> /\ Len(h) \in DOMAIN h /\ h[Len(h)].role = "assistant"
        BY <2>1 DEF EndsWith
      <3>2. h[Len(h)].asks = {}
        BY <3>1
      <3> QED
        BY <2>1, <3>1, <3>2, QuestionsDrop DEF DropReply
    <2> QED
      BY <2>1 DEF DropReply
  <1> HIDE DEF r
  <1>3. Questions(r) \subseteq Questions(DropQuestion(r)) \cup Asked(LastQuestion(r))
    <2>1. CASE EndsWith(r, "user")
      <3>1. r # <<>>
        BY <2>1 DEF EndsWith
      <3>2. Asked(LastQuestion(r)) = r[Len(r)].asks
        BY <2>1 DEF LastQuestion, Asked
      <3> QED
        BY <1>1, <2>1, <3>1, <3>2, QuestionsDrop DEF DropQuestion
    <2> QED
      BY <2>1 DEF DropQuestion
  <1> QED
    BY <1>2, <1>3 DEF r

\* An answer adds the question it answers.
LEMMA QuestionsAnswered ==
    ASSUME history \in Seq(Message), NEW g, Answers(g)
    PROVE  /\ Questions(history') = Questions(history) \cup task.asks
           /\ RepliesAskNothing => RepliesAskNothing'
  <1> DEFINE n == Len(history)
             question == [role |-> "user", asks |-> task.asks, gen |-> 0]
             answer   == [role |-> "assistant", asks |-> {}, gen |-> g]
  <1>1. /\ question.asks = task.asks /\ question.role = "user" /\ answer.asks = {}
    OBVIOUS
  <1>2. history' = history \o <<question, answer>>
    BY DEF Answers
  <1> HIDE DEF question, answer
  <1>3. /\ n \in Nat /\ DOMAIN history = 1 .. n /\ DOMAIN history' = 1 .. n + 2
        /\ history'[n + 1] = question /\ history'[n + 2] = answer
        /\ \A i \in 1 .. n : history'[i] = history[i]
    BY <1>2
  <1> HIDE DEF n
  <1>4. 1 .. n + 2 = (1 .. n) \cup {n + 1, n + 2}
    BY <1>3
  <1>5. Questions(history') = Questions(history) \cup task.asks
    BY <1>1, <1>3, <1>4 DEF Questions
  <1>6. RepliesAskNothing => RepliesAskNothing'
    BY <1>1, <1>3, <1>4 DEF RepliesAskNothing
  <1> QED
    BY <1>5, <1>6

LEMMA RepliesAskNothingKept ==
    TypeOK /\ RepliesAskNothing /\ [Next]_vars => RepliesAskNothing'
  <1> SUFFICES ASSUME TypeOK, RepliesAskNothing, [Next]_vars
               PROVE  RepliesAskNothing'
    OBVIOUS
  <1>1. history \in Seq(Message)
    BY DEF TypeOK, CoreTypeOK
  <1>2. CASE HistoryStays
    BY <1>2 DEF HistoryStays, RepliesAskNothing
  <1>3. CASE HistoryGrows
    BY <1>1, <1>3, QuestionsAnswered DEF HistoryGrows
  <1>4. ASSUME NEW h \in Seq(Message), h # <<>>,
               \A i \in DOMAIN h : h[i].role = "assistant" => h[i].asks = {}
        PROVE  \A i \in DOMAIN DropLast(h) :
                  DropLast(h)[i].role = "assistant" => DropLast(h)[i].asks = {}
    <2>1. \A i \in DOMAIN DropLast(h) : i \in DOMAIN h /\ DropLast(h)[i] = h[i]
      BY <1>4 DEF DropLast
    <2> QED
      BY <1>4, <2>1
  <1>5. CASE HistoryRetracts
    <2> DEFINE r == DropReply(history)
    <2>1. /\ r \in Seq(Message)
          /\ \A i \in DOMAIN r : r[i].role = "assistant" => r[i].asks = {}
      BY <1>1, <1>4, DropType DEF DropReply, EndsWith, RepliesAskNothing
    <2> HIDE DEF r
    <2>2. \A i \in DOMAIN DropQuestion(r) :
             DropQuestion(r)[i].role = "assistant" => DropQuestion(r)[i].asks = {}
      BY <1>4, <2>1 DEF DropQuestion, EndsWith
    <2> QED
      BY <1>5, <2>2 DEF HistoryRetracts, RepliesAskNothing, r
  <1> QED
    BY <1>2, <1>3, <1>5, HistoryMoves


\* Where the handlers and the task can be together. A task is older than the
\* generation a transcription handler is about to start.
TaskOlder == data.pc # "idle" => task.gid < data.gid

\* That generation's active segments are copies: they are merged into the
\* pending ones, which it will ask.
CopiesPending == data.pc # "idle" /\ data.gid = gid => Asked(active) \subseteq Asked(pending)

\* The system-frame handler, on its way to cancel a task, and a cancellation
\* meet the current generation only in its debounce.
CancelsEarly ==
    /\ Current /\ sys.pc \in {"clearing", "flushed"} => task.pc \in {"debounce", "done"}
    /\ Current /\ task.cancelled => task.pc \in {"debounce", "done"}

\* A fallback reply is in the history before it is spoken to its end.
SpokenAnswered == Current /\ task.pc = "speak" => Asked(active) \subseteq Questions(history)

KeepsInv ==
    /\ GenerationsInOrder
    /\ AsksWholeTurn
    /\ RepliesAskNothing
    /\ TaskOlder
    /\ CopiesPending
    /\ CancelsEarly
    /\ SpokenAnswered

\* The steps that end the task, and what else they may change.
Ends == TaskCancelled \/ TaskStale \/ NothingAsked \/ EndsFallback
            \/ CommitsAfterTail \/ CommitsWithoutTail

LEMMA TypesUsed ==
    TypeOK => /\ history \in Seq(Message) /\ gid \in Nat
              /\ pending \in Seq(Segment) /\ active \in Seq(Segment)
              /\ task \in TaskState /\ task.gid \in Nat
              /\ sys \in SysState
              /\ data \in DataState /\ data.gid \in Nat
  BY DEF TypeOK, CoreTypeOK, TaskState, DataState

LEMMA EndsTask ==
    ASSUME TypeOK, Ends
    PROVE  /\ task'.pc = "done" /\ task'.gid = task.gid /\ task'.cancelled = task.cancelled
           /\ active' = IF Current THEN <<>> ELSE active
           /\ UNCHANGED <<gid, data, sys, pending>>
  <1>1. EndTask /\ UNCHANGED <<gid, data, sys, pending>>
    BY DEF Ends, TaskCancelled, TaskStale, NothingAsked, EndsFallback, CommitsAfterTail,
           CommitsWithoutTail, Commits, TaskUnchanged
  <1> QED
    BY <1>1, TypesUsed DEF EndTask, TaskState

\* The other steps of a generation once it has its question.
Goes == SpeaksSentence \/ SpeaksTail \/ StreamFails \/ CommitsFallback \/ SpeaksFallback

LEMMA GoesOn ==
    ASSUME TypeOK, Goes
    PROVE  /\ Current /\ ~task.cancelled
           /\ task.pc \in {"stream", "fallback", "speak"} /\ task'.pc # "debounce"
           /\ task'.gid = task.gid /\ task'.cancelled = task.cancelled
           /\ task'.pc = "speak" => CommitsFallback \/ SpeaksFallback
           /\ UNCHANGED <<gid, data, sys, pending, active>>
  <1>1. task \in TaskState
    BY TypesUsed
  <1>2. CASE SpeaksSentence \/ SpeaksTail \/ StreamFails
    BY <1>1, <1>2 DEF SpeaksSentence, SpeaksTail, StreamFails, TaskAt, TaskUnchanged, TaskState
  <1>3. CASE CommitsFallback \/ SpeaksFallback
    BY <1>1, <1>3 DEF CommitsFallback, SpeaksFallback, TaskAt, TaskUnchanged, TaskState
  <1> QED
    BY <1>2, <1>3 DEF Goes

\* The steps of the others that leave what was asked, the task and the
\* generations alone.
Aside ==
    \/ UserStarts \/ UserStops \/ NothingToStop \/ SysBroadcasts \/ SysJoined
    \/ LabelsTidying \/ ArmsTimeout \/ BotStarts \/ NoTranscription \/ DropsNoise
    \/ DataBroadcasts \/ OutputStep \/ SttTimesOut \/ BudgetElapses \/ UNCHANGED vars

LEMMA AsideStays ==
    ASSUME TypeOK, Aside
    PROVE  /\ UNCHANGED <<history, gid, pending, active, task>>
           /\ data'.pc # "idle" => data.pc # "idle"
           /\ data'.gid = data.gid
           /\ sys'.pc \in {"clearing", "flushed"} => sys.pc \in {"clearing", "flushed"}
  <1>1. sys \in SysState /\ data \in DataState
    BY TypesUsed
  <1> USE DEF coreVars
  <1>2. CASE UserStarts \/ UserStops \/ NothingToStop
    BY <1>1, <1>2 DEF UserStarts, UserStops, NothingToStop, SysGoes, SysState, DataState
  <1>3. CASE SysBroadcasts \/ SysJoined \/ LabelsTidying \/ ArmsTimeout \/ BotStarts
    BY <1>1, <1>3 DEF SysBroadcasts, SysJoined, LabelsTidying, ArmsTimeout, BotStarts,
                      SysAt, SysGoes, SysState
  <1>4. CASE NoTranscription \/ DropsNoise \/ DataBroadcasts
    BY <1>1, <1>4 DEF NoTranscription, DropsNoise, Transcribed, DataBroadcasts, DataState
  <1>5. CASE OutputStep \/ SttTimesOut \/ BudgetElapses \/ UNCHANGED vars
    BY <1>5 DEF OutputStep, Audio, BotStops, SttTimesOut, BudgetElapses, vars
  <1> QED
    BY <1>2, <1>3, <1>4, <1>5 DEF Aside

\* Every step is one of these.
LEMMA StepsKept ==
    [Next]_vars => \/ Aside \/ StopsGeneration \/ SysCancels \/ DataCancels
                   \/ QueuesForNextTurn \/ ResetsTurn \/ MergesTurn \/ StartsGeneration
                   \/ TakesQuestion \/ Goes \/ Ends
  BY DEF Aside, Goes, Ends, Next, UserStep, SttStep, SysStep, DataStep, TaskStep


\* A task is made older by every restart, and a new one leaves the handler idle.
LEMMA TaskOlderKept ==
    TypeOK /\ GenerationsInOrder /\ TaskOlder /\ [Next]_vars => TaskOlder'
  <1> SUFFICES ASSUME TypeOK, GenerationsInOrder, TaskOlder, [Next]_vars
               PROVE  TaskOlder'
    OBVIOUS
  <1>1. gid \in Nat /\ task \in TaskState /\ task.gid \in Nat /\ data \in DataState
    BY TypesUsed
  <1>2. CASE Aside
    BY <1>2, AsideStays DEF TaskOlder
  <1>3. CASE StopsGeneration \/ QueuesForNextTurn
    BY <1>3 DEF StopsGeneration, QueuesForNextTurn, TaskOlder
  <1>4. CASE SysCancels \/ DataCancels
    <2>1. task'.gid = task.gid /\ data'.gid = data.gid /\ (data'.pc # "idle" => data.pc # "idle")
      BY <1>1, <1>4 DEF SysCancels, DataCancels, TaskState, DataState
    <2> QED
      BY <2>1 DEF TaskOlder
  <1>5. CASE ResetsTurn \/ MergesTurn
    <2>1. data'.gid = gid + 1 /\ task' = task
      BY <1>5 DEF ResetsTurn, MergesTurn, Restarts
    <2> QED
      BY <1>1, <2>1 DEF TaskOlder, GenerationsInOrder
  <1>6. CASE StartsGeneration
    BY <1>1, <1>6 DEF StartsGeneration, TaskOlder, DataState
  <1>7. CASE TakesQuestion
    <2>1. data' = data /\ task'.gid = task.gid
      BY <1>1, <1>7 DEF TakesQuestion, TaskUnchanged, TaskState
    <2> QED
      BY <2>1 DEF TaskOlder
  <1>8. CASE Goes \/ Ends
    BY <1>8, GoesOn, EndsTask DEF TaskOlder
  <1> QED
    BY <1>2, <1>3, <1>4, <1>5, <1>6, <1>7, <1>8, StepsKept

\* A merge loses nothing: the question of the reply it takes back, the active
\* and the pending segments, all are asked again.
LEMMA MergesAll ==
    ASSUME TypeOK, RepliesAskNothing, MergesTurn
    PROVE  /\ Asked(active) \subseteq Asked(pending')
           /\ Asked(pending) \subseteq Asked(pending')
           /\ Questions(history) \subseteq Questions(history') \cup Asked(pending')
  <1> DEFINE retracts == active = <<>> /\ ~postReset
             asked == IF retracts THEN LastQuestion(DropReply(history)) ELSE <<>>
  <1>1. history \in Seq(Message) /\ pending \in Seq(Segment) /\ active \in Seq(Segment)
    BY TypesUsed
  <1>2. /\ pending' = Join(Join(Join(asked, active), pending), <<{heard'}>>)
        /\ history' = IF retracts THEN DropQuestion(DropReply(history)) ELSE history
    BY Zenon DEF MergesTurn
  <1>3. asked \in Seq(Segment)
    <2>1. LastQuestion(DropReply(history)) \in Seq(Segment)
      BY <1>1, DropType
    <2> QED
      BY <2>1
  <1>4. <<{heard'}>> \in Seq(Segment)
    BY RestartsTyped DEF MergesTurn
  <1>5. Questions(history) \subseteq Questions(history') \cup Asked(asked)
    <2>1. CASE retracts
      <3>1. Questions(history) \subseteq Questions(DropQuestion(DropReply(history)))
                                            \cup Asked(LastQuestion(DropReply(history)))
        BY <1>1, QuestionsRetracted DEF RepliesAskNothing
      <3> QED
        BY <1>2, <2>1, <3>1
    <2>2. CASE ~retracts
      BY <1>2, <2>2
    <2> QED
      BY <2>1, <2>2
  <1> HIDE DEF asked
  <1>6. Join(asked, active) \in Seq(Segment) /\ Join(Join(asked, active), pending) \in Seq(Segment)
    BY <1>1, <1>3, JoinType
  <1>7. Asked(pending') = Asked(asked) \cup Asked(active) \cup Asked(pending)
                              \cup Asked(<<{heard'}>>)
    <2>1. Asked(Join(asked, active)) = Asked(asked) \cup Asked(active)
      BY <1>1, <1>3, AskedJoin
    <2>2. Asked(Join(Join(asked, active), pending))
              = Asked(Join(asked, active)) \cup Asked(pending)
      BY <1>1, <1>6, AskedJoin
    <2>3. Asked(pending') = Asked(Join(Join(asked, active), pending)) \cup Asked(<<{heard'}>>)
      BY <1>2, <1>4, <1>6, AskedJoin
    <2> QED
      BY <2>1, <2>2, <2>3
  <1> QED
    BY <1>5, <1>7

\* A restart merges the active segments; until its generation starts, nothing
\* takes them from the pending ones.
LEMMA CopiesPendingKept ==
    TypeOK /\ GenerationsInOrder /\ RepliesAskNothing /\ TaskOlder /\ CopiesPending
        /\ [Next]_vars => CopiesPending'
  <1> SUFFICES ASSUME TypeOK, GenerationsInOrder, RepliesAskNothing, TaskOlder,
                      CopiesPending, [Next]_vars, data'.pc # "idle", data'.gid = gid'
               PROVE  Asked(active') \subseteq Asked(pending')
    BY DEF CopiesPending, Asked
  <1>1. /\ gid \in Nat /\ task \in TaskState /\ task.gid \in Nat
        /\ data \in DataState /\ data.gid \in Nat
        /\ history \in Seq(Message) /\ pending \in Seq(Segment) /\ active \in Seq(Segment)
    BY TypesUsed
  <1>2. CASE Aside
    BY <1>2, AsideStays DEF CopiesPending
  <1>3. ~StopsGeneration
    BY <1>1 DEF StopsGeneration, GenerationsInOrder
  <1>4. ~QueuesForNextTurn
    BY DEF QueuesForNextTurn, Transcribed
  <1>5. CASE SysCancels \/ DataCancels
    <2>1. /\ data'.gid = data.gid /\ (data'.pc # "idle" => data.pc # "idle")
          /\ UNCHANGED <<gid, active, pending>>
      BY <1>1, <1>5 DEF SysCancels, DataCancels, DataState, coreVars
    <2> QED
      BY <2>1 DEF CopiesPending
  <1>6. CASE ResetsTurn
    BY <1>6 DEF ResetsTurn, Asked
  <1>7. CASE MergesTurn
    <2>1. active' = active /\ Asked(active) \subseteq Asked(pending')
      BY <1>7, MergesAll DEF MergesTurn
    <2> QED
      BY <2>1
  <1>8. ~StartsGeneration
    BY <1>1 DEF StartsGeneration, DataState
  <1>9. ~TakesQuestion
    <2>1. TakesQuestion => data' = data /\ gid' = gid /\ task.gid = gid
      BY DEF TakesQuestion, TaskUnchanged, Current
    <2> QED
      BY <1>1, <2>1 DEF TaskOlder
  <1>10. CASE Goes
    BY <1>10, GoesOn DEF CopiesPending
  <1>11. CASE Ends
    <2>1. Asked(<<>>) = {}
      BY DEF Asked
    <2> QED
      BY <1>11, <2>1, EndsTask DEF CopiesPending
  <1> QED
    BY <1>2, <1>3, <1>4, <1>5, <1>6, <1>7, <1>8, <1>9, <1>10, <1>11, StepsKept

\* With quick sends no question is taken between the flush and the
\* cancellation, which so meet a current generation only before it asks.
LEMMA CancelsEarlyKept ==
    QuickSends /\ TypeOK /\ GenerationsInOrder /\ TaskOlder /\ CancelsEarly /\ [Next]_vars
        => CancelsEarly'
  <1> SUFFICES ASSUME QuickSends, TypeOK, GenerationsInOrder, TaskOlder, CancelsEarly,
                      [Next]_vars
               PROVE  CancelsEarly'
    OBVIOUS
  <1>1. /\ gid \in Nat /\ task \in TaskState /\ task.gid \in Nat /\ sys \in SysState
        /\ data \in DataState /\ data.gid \in Nat
    BY TypesUsed
  <1>2. CASE Aside
    BY <1>2, AsideStays DEF CancelsEarly, Current
  <1>3. CASE StopsGeneration
    <2>1. gid' = gid + 1 /\ task' = task
      BY <1>3 DEF StopsGeneration
    <2> QED
      BY <1>1, <2>1 DEF CancelsEarly, Current, GenerationsInOrder
  <1>4. CASE QueuesForNextTurn
    BY <1>4 DEF QueuesForNextTurn, Transcribed, CancelsEarly, Current
  <1>5. CASE SysCancels
    <2>1. /\ gid' = gid /\ task'.gid = task.gid /\ task'.pc = task.pc
          /\ sys.pc = "flushed" /\ sys'.pc \in {"idle", "joining"}
      BY <1>1, <1>5 DEF SysCancels, SysAt, SysGoes, SysState, TaskState, coreVars
    <2> QED
      BY <2>1 DEF CancelsEarly, Current
  <1>6. CASE DataCancels
    <2>1. /\ gid' = gid /\ task'.gid = task.gid /\ data.pc # "idle"
      BY <1>1, <1>6 DEF DataCancels, TaskState, coreVars
    <2> QED
      BY <1>1, <2>1 DEF CancelsEarly, Current, TaskOlder, GenerationsInOrder
  <1>7. CASE ResetsTurn \/ MergesTurn
    <2>1. gid' = gid + 1 /\ task' = task
      BY <1>7 DEF ResetsTurn, MergesTurn, Restarts
    <2> QED
      BY <1>1, <2>1 DEF CancelsEarly, Current, GenerationsInOrder
  <1>8. CASE StartsGeneration
    BY <1>8 DEF StartsGeneration, CreateTask, CancelsEarly
  <1>9. CASE TakesQuestion
    <2>1. sys' = sys /\ sys.pc \notin {"clearing", "flushed"} /\ ~task'.cancelled
      BY <1>1, <1>9 DEF TakesQuestion, TaskAt, TaskUnchanged, SysAt, TaskState
    <2> QED
      BY <2>1 DEF CancelsEarly
  <1>10. CASE Goes
    BY <1>10, GoesOn DEF CancelsEarly
  <1>11. CASE Ends
    BY <1>11, EndsTask DEF CancelsEarly
  <1> QED
    BY <1>2, <1>3, <1>4, <1>5, <1>6, <1>7, <1>8, <1>9, <1>10, <1>11, StepsKept

\* While the fallback reply is spoken nobody changes the history or the active
\* segments without making it stale.
LEMMA SpokenAnsweredKept ==
    TypeOK /\ GenerationsInOrder /\ AsksWholeTurn /\ SpokenAnswered /\ [Next]_vars
        => SpokenAnswered'
  <1> SUFFICES ASSUME TypeOK, GenerationsInOrder, AsksWholeTurn, SpokenAnswered, [Next]_vars,
                      Current', task'.pc = "speak"
               PROVE  Asked(active') \subseteq Questions(history')
    BY DEF SpokenAnswered, Asked, Questions
  <1>1. /\ gid \in Nat /\ task \in TaskState /\ task.gid \in Nat /\ history \in Seq(Message)
    BY TypesUsed
  <1>2. CASE Aside
    BY <1>2, AsideStays DEF SpokenAnswered, Current
  <1>3. ~(StopsGeneration \/ ResetsTurn \/ MergesTurn)
    <2>1. StopsGeneration \/ ResetsTurn \/ MergesTurn => gid' = gid + 1 /\ task' = task
      BY DEF StopsGeneration, ResetsTurn, MergesTurn, Restarts
    <2> QED
      BY <1>1, <2>1 DEF Current, GenerationsInOrder
  <1>4. CASE QueuesForNextTurn \/ SysCancels \/ DataCancels
    <2>1. UNCHANGED <<history, active, gid>> /\ task'.gid = task.gid /\ task'.pc = task.pc
      BY <1>1, <1>4 DEF QueuesForNextTurn, SysCancels, DataCancels, TaskState, coreVars
    <2> QED
      BY <2>1 DEF SpokenAnswered, Current
  <1>5. ~(StartsGeneration \/ TakesQuestion)
    <2>1. ~StartsGeneration
      BY DEF StartsGeneration, CreateTask
    <2>2. TakesQuestion => task'.pc = "stream"
      BY <1>1 DEF TakesQuestion, TaskState
    <2> QED
      BY <2>1, <2>2
  <1>6. CASE CommitsFallback
    <2>1. Asked(active) = task.asks
      BY <1>6 DEF CommitsFallback, TaskAt, AsksWholeTurn
    <2>2. Answers(task.gid) /\ active' = active
      BY <1>6 DEF CommitsFallback
    <2> QED
      BY <1>1, <2>1, <2>2, QuestionsAnswered
  <1>7. CASE SpeaksFallback
    BY <1>7 DEF SpeaksFallback, TaskAt, SpokenAnswered
  <1>8. CASE Goes
    BY <1>6, <1>7, <1>8, GoesOn
  <1>9. ~Ends
    BY EndsTask
  <1> QED
    BY <1>2, <1>3, <1>4, <1>5, <1>8, <1>9, StepsKept


LEMMA KeepsInvStep == QuickSends /\ TypeOK /\ KeepsInv /\ [Next]_vars => KeepsInv'
  BY OrderKept, AsksKept, RepliesAskNothingKept, TaskOlderKept, CopiesPendingKept,
     CancelsEarlyKept, SpokenAnsweredKept, Zenon DEF KeepsInv

\* The active segments that count: a current generation in its debounce asks
\* only the pending ones.
Counted == IF task.pc = "debounce" /\ Current THEN {} ELSE Asked(active)

LEMMA KeptParts == Kept = Asked(pending) \cup Counted \cup Questions(history)
  BY DEF Kept, Counted, Questions

\* A step that ends the task drops the active segments only of a generation that
\* had no question yet, or whose question is now in the history.
LEMMA EndsKeeps ==
    ASSUME TypeOK, KeepsInv, Ends
    PROVE  Kept \subseteq Kept'
  <1>1. /\ task'.pc = "done" /\ pending' = pending
        /\ active' = IF Current THEN <<>> ELSE active
    BY EndsTask
  <1>2. Kept' = Asked(pending) \cup Asked(active') \cup Questions(history')
    BY <1>1, KeptParts DEF Counted, Kept, Asked, Questions
  <1>3. history \in Seq(Message) /\ task \in TaskState
    BY TypesUsed
  <1>4. CASE TaskCancelled \/ TaskStale \/ NothingAsked \/ EndsFallback
    <2>1. history' = history
      BY <1>4 DEF TaskCancelled, TaskStale, NothingAsked, EndsFallback
    <2>2. Current => task.pc = "debounce" \/ Asked(active) \subseteq Questions(history)
      BY <1>4 DEF KeepsInv, CancelsEarly, SpokenAnswered, TaskCancelled, TaskStale,
                  NothingAsked, EndsFallback, TaskAt, Running
    <2> QED
      BY <1>1, <1>2, <2>1, <2>2, KeptParts DEF Counted
  <1>5. CASE CommitsAfterTail \/ CommitsWithoutTail
    <2>1. Answers(task.gid) /\ Asked(active) = task.asks
      BY <1>5 DEF CommitsAfterTail, CommitsWithoutTail, Commits, TaskAt, KeepsInv, AsksWholeTurn
    <2>2. Questions(history') = Questions(history) \cup task.asks
      BY <1>3, <2>1, QuestionsAnswered
    <2> QED
      BY <1>2, <2>1, <2>2, KeptParts DEF Counted
  <1> QED
    BY <1>4, <1>5 DEF Ends

\* Every other step keeps what is asked where it is, or moves it.
LEMMA StepKeeps ==
    ASSUME TypeOK, KeepsInv, [Next]_vars, ~ResetsTurn, ~QueuesForNextTurn
    PROVE  Kept \subseteq Kept'
  <1>1. /\ gid \in Nat /\ task \in TaskState /\ task.gid \in Nat /\ history \in Seq(Message)
        /\ data \in DataState /\ data.gid \in Nat
    BY TypesUsed
  <1>2. Kept' = Asked(pending') \cup Counted' \cup Questions(history')
    BY DEF Kept, Counted, Asked, Questions
  <1>3. Counted' = IF task'.pc = "debounce" /\ task'.gid = gid' THEN {} ELSE Asked(active')
    BY DEF Counted, Current, Asked
  <1>4. CASE Aside
    BY <1>2, <1>3, <1>4, AsideStays, KeptParts DEF Counted, Current
  <1>5. CASE StopsGeneration
    <2>1. UNCHANGED <<history, pending, active, task>> /\ gid' = gid + 1
      BY <1>5 DEF StopsGeneration
    <2>2. ~Current'
      BY <1>1, <2>1 DEF KeepsInv, GenerationsInOrder, Current
    <2> QED
      BY <1>2, <1>3, <2>1, <2>2, KeptParts DEF Counted, Current
  <1>6. CASE SysCancels \/ DataCancels
    <2>1. /\ UNCHANGED <<history, pending, active, gid>>
          /\ task'.pc = task.pc /\ task'.gid = task.gid
      BY <1>1, <1>6 DEF SysCancels, DataCancels, TaskState, coreVars
    <2> QED
      BY <1>2, <1>3, <2>1, KeptParts DEF Counted, Current
  <1>7. CASE MergesTurn
    BY <1>2, <1>7, MergesAll, KeptParts DEF Counted, KeepsInv
  <1>8. CASE StartsGeneration
    <2>1. /\ UNCHANGED <<history, pending, active, gid>> /\ task'.gid = data.gid
          /\ data.pc # "idle" /\ task.pc = "done"
      BY <1>8 DEF StartsGeneration, CreateTask, Running, coreVars
    <2>2. data.gid = gid => Asked(active) \subseteq Asked(pending)
      BY <2>1 DEF KeepsInv, CopiesPending
    <2> QED
      BY <1>2, <1>3, <2>1, <2>2, KeptParts DEF Counted
  <1>9. CASE TakesQuestion
    <2>1. /\ history' = history /\ active' = pending /\ task'.pc = "stream"
          /\ task.pc = "debounce" /\ Current
      BY <1>1, <1>9 DEF TakesQuestion, TaskAt, TaskState
    <2> QED
      BY <1>2, <1>3, <2>1, KeptParts DEF Counted
  <1>10. CASE Goes
    <2>1. Questions(history) \subseteq Questions(history')
      <3>1. CASE CommitsFallback
        BY <1>1, <3>1, QuestionsAnswered DEF CommitsFallback
      <3>2. CASE ~CommitsFallback
        BY <1>10, <3>2 DEF Goes, SpeaksSentence, SpeaksTail, StreamFails, SpeaksFallback
      <3> QED
        BY <3>1, <3>2
    <2> QED
      BY <1>2, <1>3, <1>10, <2>1, GoesOn, KeptParts DEF Counted
  <1> QED
    BY <1>4, <1>5, <1>6, <1>7, <1>8, <1>9, <1>10, EndsKeeps, StepsKept

\* When the handlers' sends end within the debounce, no interleaving loses what
\* was asked: only the reset after a heard reply and the caps of the queue do
\* (lines 437-483, 535-576).
THEOREM QuestionsKept ==
    ASSUME QuickSends
    PROVE  Spec => KeepsQuestions
  <1>1. Init => KeepsInv
    BY DEF Init, KeepsInv, GenerationsInOrder, AsksWholeTurn, RepliesAskNothing, TaskOlder,
           CopiesPending, CancelsEarly, SpokenAnswered, Asked, Current
  <1>2. TypeOK /\ KeepsInv /\ [Next]_vars => KeepsInv'
    BY KeepsInvStep
  <1>3. TypeOK /\ KeepsInv /\ [Next]_vars
          => [Kept \subseteq Kept' \/ ResetsTurn \/ QueuesForNextTurn]_vars
    BY StepKeeps
  <1> QED
    BY <1>1, <1>2, <1>3, TypeCorrect, PTL DEF Spec, KeepsQuestions

-----------------------------------------------------------------------------
(* An unheard reply *)

\* The reply of the current generation is in the history, as its last message.
Answered == history # <<>> /\ history[Len(history)].gen = gid

\* No reply is of a generation to come. Once the current generation has answered,
\* none of its segments is active but while it speaks a fallback, it asks nothing
\* more, and no handler is about to start it anew.
GensInOrder == \A i \in DOMAIN history : history[i].gen <= gid
AnsweredIsOver ==
    Answered =>
        /\ active = <<>> \/ (Current /\ task.pc = "speak")
        /\ ~(Current /\ task.pc \in {"debounce", "stream", "tail", "fallback"})
        /\ ~(data.pc # "idle" /\ data.gid = gid)

\* No step counts generations down.
LEMMA GidGrows == TypeOK /\ [Next]_vars => gid' \in Nat /\ gid' >= gid
  <1> SUFFICES ASSUME TypeOK, [Next]_vars
               PROVE  gid' \in Nat /\ gid' >= gid
    OBVIOUS
  <1>1. gid \in Nat /\ task \in TaskState /\ data \in DataState
    BY TypesUsed
  <1>2. CASE StopsGeneration \/ ResetsTurn \/ MergesTurn
    <2>1. gid' = gid + 1
      BY <1>2 DEF StopsGeneration, ResetsTurn, MergesTurn, Restarts
    <2> QED
      BY <1>1, <2>1
  <1>3. gid' = gid => gid' \in Nat /\ gid' >= gid
    BY <1>1
  <1>4. CASE Aside \/ Goes \/ Ends
    BY <1>3, <1>4, AsideStays, GoesOn, EndsTask
  <1>5. CASE SysCancels \/ DataCancels \/ QueuesForNextTurn \/ StartsGeneration
    BY <1>3, <1>5 DEF SysCancels, DataCancels, QueuesForNextTurn, StartsGeneration, coreVars
  <1>6. CASE TakesQuestion
    BY <1>3, <1>6 DEF TakesQuestion, TaskUnchanged
  <1> QED
    BY <1>2, <1>4, <1>5, <1>6, StepsKept

\* A retraction leaves only replies the history had.
LEMMA RetractedGens ==
    ASSUME TypeOK, HistoryAlternates, GensInOrder, HistoryRetracts
    PROVE  \A i \in DOMAIN history' : history'[i].gen <= gid
  <1>1. history \in Seq(Message)
    BY TypesUsed
  <1>2. CASE history = <<>>
    <2>1. history' = <<>>
      BY <1>2 DEF HistoryRetracts, DropQuestion, DropReply, EndsWith
    <2> QED
      BY <2>1
  <1>3. CASE history # <<>>
    <2>1. Len(history) >= 2 /\ history' = SubSeq(history, 1, Len(history) - 2)
      BY <1>1, <1>3, RetractsTurn DEF HistoryAlternates, HistoryRetracts
    <2>2. /\ history' \in Seq(Message) /\ Len(history') = Len(history) - 2
          /\ \A i \in 1 .. Len(history) - 2 : history'[i] = history[i]
      BY <1>1, <2>1, WithoutLastTurn, Zenon
    <2>3. DOMAIN history' = 1 .. Len(history) - 2 /\ Len(history) \in Nat
      BY <1>1, <2>2
    <2>4. \A i \in 1 .. Len(history) - 2 : i \in DOMAIN history
      BY <1>1, <2>3
    <2> QED
      BY <2>2, <2>3, <2>4 DEF GensInOrder
  <1> QED
    BY <1>2, <1>3

LEMMA GensKept ==
    TypeOK /\ HistoryAlternates /\ GenerationsInOrder /\ GensInOrder /\ [Next]_vars
        => GensInOrder'
  <1> SUFFICES ASSUME TypeOK, HistoryAlternates, GenerationsInOrder, GensInOrder, [Next]_vars
               PROVE  GensInOrder'
    OBVIOUS
  <1>1. /\ gid \in Nat /\ gid' \in Nat /\ gid' >= gid
        /\ task.gid \in Nat /\ history \in Seq(Message)
    BY TypesUsed, GidGrows
  <1>2. SUFFICES \A i \in DOMAIN history' : history'[i].gen \in Nat /\ history'[i].gen <= gid
    BY <1>1 DEF GensInOrder
  <1>3. \A i \in DOMAIN history : history[i].gen \in Nat /\ history[i].gen <= gid
    <2>1. \A i \in DOMAIN history : history[i] \in Message
      BY <1>1
    <2> QED
      BY <2>1 DEF GensInOrder, Message
  <1>4. CASE HistoryStays
    BY <1>3, <1>4 DEF HistoryStays
  <1>5. CASE HistoryRetracts
    <2>1. history' \in Seq(Message)
      BY <1>1, <1>5, DropType DEF HistoryRetracts
    <2>2. \A i \in DOMAIN history' : history'[i] \in Message
      BY <2>1
    <2>3. \A i \in DOMAIN history' : history'[i].gen \in Nat
      BY <2>2 DEF Message
    <2> QED
      BY <1>5, <2>3, RetractedGens
  <1>6. CASE HistoryGrows
    <2> DEFINE question == [role |-> "user", asks |-> task.asks, gen |-> 0]
               answer   == [role |-> "assistant", asks |-> {}, gen |-> task.gid]
    <2>1. question.gen = 0 /\ answer.gen = task.gid
      OBVIOUS
    <2>2. history' = history \o <<question, answer>>
      BY <1>6 DEF HistoryGrows, Answers
    <2> HIDE DEF question, answer
    <2>3. /\ DOMAIN history' = 1 .. Len(history) + 2
          /\ history'[Len(history) + 1] = question /\ history'[Len(history) + 2] = answer
          /\ \A i \in 1 .. Len(history) : history'[i] = history[i]
      BY <1>1, <2>2
    <2>4. task.gid <= gid /\ 0 <= gid
      BY <1>1 DEF GenerationsInOrder
    <2>5. ASSUME NEW i \in 1 .. Len(history) + 2
          PROVE  history'[i].gen \in Nat /\ history'[i].gen <= gid
      <3>1. i \in 1 .. Len(history) \/ i = Len(history) + 1 \/ i = Len(history) + 2
        BY <1>1
      <3>2. i \in 1 .. Len(history) => i \in DOMAIN history
        BY <1>1
      <3> QED
        BY <1>1, <1>3, <2>1, <2>3, <2>4, <3>1, <3>2
    <2> QED
      BY <2>3, <2>5
  <1> QED
    BY <1>4, <1>5, <1>6, HistoryMoves

\* A new generation has answered nothing yet.
LEMMA RestartsUnanswered ==
    ASSUME TypeOK, HistoryAlternates, GensInOrder,
           StopsGeneration \/ ResetsTurn \/ MergesTurn
    PROVE  ~Answered'
  <1>1. gid \in Nat /\ gid' = gid + 1 /\ history \in Seq(Message)
    BY TypesUsed DEF StopsGeneration, ResetsTurn, MergesTurn, Restarts
  <1>2. history' \in Seq(Message)
    BY <1>1, DropType, Zenon DEF StopsGeneration, ResetsTurn, MergesTurn
  <1>3. \A i \in DOMAIN history' : history'[i].gen <= gid
    <2>1. CASE history' = history
      BY <2>1 DEF GensInOrder
    <2>2. CASE MergesTurn /\ history' # history
      <3>1. history' = DropQuestion(DropReply(history))
        BY <2>2, Zenon DEF MergesTurn
      <3>2. reply' = 0
        BY <2>2 DEF MergesTurn, Restarts
      <3> QED
        BY <3>1, <3>2, RetractedGens DEF HistoryRetracts
    <2> QED
      BY <2>1, <2>2 DEF StopsGeneration, ResetsTurn
  <1>4. \A i \in DOMAIN history' : history'[i].gen # gid'
    BY <1>1, <1>2, <1>3 DEF Message
  <1>5. history' # <<>> => Len(history') \in DOMAIN history'
    BY <1>2
  <1> QED
    BY <1>4, <1>5 DEF Answered

LEMMA AnsweredIsOverKept ==
    TypeOK /\ HistoryAlternates /\ GenerationsInOrder /\ TaskOlder /\ GensInOrder
        /\ AnsweredIsOver /\ [Next]_vars => AnsweredIsOver'
  <1> SUFFICES ASSUME TypeOK, HistoryAlternates, GenerationsInOrder, TaskOlder, GensInOrder,
                      AnsweredIsOver, [Next]_vars, Answered'
               PROVE  /\ active' = <<>> \/ (Current' /\ task'.pc = "speak")
                      /\ ~(Current' /\ task'.pc \in {"debounce", "stream", "tail", "fallback"})
                      /\ ~(data'.pc # "idle" /\ data'.gid = gid')
    BY DEF AnsweredIsOver
  <1>1. /\ gid \in Nat /\ task \in TaskState /\ task.gid \in Nat
        /\ data \in DataState /\ data.gid \in Nat
    BY TypesUsed
  <1>2. history' = history /\ gid' = gid => Answered
    BY DEF Answered
  <1>3. ~(StopsGeneration \/ ResetsTurn \/ MergesTurn)
    BY RestartsUnanswered
  <1>4. CASE Aside
    BY <1>2, <1>4, AsideStays DEF AnsweredIsOver, Current
  <1>5. CASE SysCancels \/ DataCancels
    <2>1. /\ UNCHANGED <<history, gid, active>> /\ task'.pc = task.pc /\ task'.gid = task.gid
          /\ data'.gid = data.gid /\ (data'.pc # "idle" => data.pc # "idle")
      BY <1>1, <1>5 DEF SysCancels, DataCancels, TaskState, DataState, coreVars
    <2> QED
      BY <1>2, <2>1 DEF AnsweredIsOver, Current
  <1>6. CASE QueuesForNextTurn
    BY <1>2, <1>6 DEF QueuesForNextTurn, AnsweredIsOver, Current
  <1>7. CASE StartsGeneration
    <2>1. /\ UNCHANGED <<history, gid, active>> /\ task.pc = "done" /\ data.pc # "idle"
          /\ task'.gid = data.gid /\ data'.pc = "idle"
      BY <1>1, <1>7 DEF StartsGeneration, CreateTask, Running, DataState, coreVars
    <2>2. Answered
      BY <1>2, <2>1
    <2>3. active = <<>> /\ data.gid # gid
      BY <2>1, <2>2 DEF AnsweredIsOver
    <2> QED
      BY <2>1, <2>3 DEF Current
  <1>8. ~TakesQuestion
    BY <1>2 DEF TakesQuestion, TaskAt, TaskUnchanged, AnsweredIsOver
  <1>9. Current => ~(data.pc # "idle" /\ data.gid = gid)
    BY <1>1 DEF TaskOlder, Current
  <1>10. CASE Goes
    <2>1. Current /\ UNCHANGED <<gid, data, active>> /\ task'.gid = task.gid
      BY <1>10, GoesOn
    <2>2. CASE SpeaksSentence \/ SpeaksTail \/ StreamFails
      BY <1>2, <2>2 DEF SpeaksSentence, SpeaksTail, StreamFails, TaskAt, TaskUnchanged,
                        AnsweredIsOver
    <2>3. CASE CommitsFallback \/ SpeaksFallback
      <3>1. task'.pc = "speak"
        BY <1>1, <2>3 DEF CommitsFallback, SpeaksFallback, TaskAt, TaskState
      <3> QED
        BY <1>9, <2>1, <3>1 DEF Current
    <2> QED
      BY <1>10, <2>2, <2>3 DEF Goes
  <1>11. CASE Ends
    <2>1. /\ task'.pc = "done" /\ active' = IF Current THEN <<>> ELSE active
          /\ UNCHANGED <<gid, data>>
      BY <1>11, EndsTask
    <2>2. CASE Current
      BY <1>9, <2>1, <2>2
    <2>3. CASE ~Current
      <3>1. history' = history
        BY <1>11, <2>3 DEF Ends, TaskCancelled, TaskStale, NothingAsked, EndsFallback,
                           CommitsAfterTail, CommitsWithoutTail, Commits
      <3> QED
        BY <1>2, <2>1, <2>3, <3>1 DEF AnsweredIsOver
    <2> QED
      BY <2>2, <2>3
  <1> QED
    BY <1>3, <1>4, <1>5, <1>6, <1>7, <1>8, <1>10, <1>11, StepsKept

\* A transcription that finds an unheard reply of a finished generation takes its
\* whole turn back and asks its question again.
LEMMA UnheardStep ==
    ASSUME TypeOK, HistoryAlternates, AnsweredIsOver, [Next]_vars,
           ~Running, ~Closed, Answered, heard' > heard
    PROVE  /\ history' = SubSeq(history, 1, Len(history) - 2)
           /\ history[Len(history) - 1].asks \subseteq Asked(pending')
  <1>1. history \in Seq(Message) /\ pending \in Seq(Segment) /\ active \in Seq(Segment)
    BY TypesUsed
  <1>2. MergesTurn
    <2>1. heard \in Nat
      BY DEF TypeOK, UserTypeOK
    <2>2. heard' # heard
      BY <2>1
    <2>3. ~QueuesForNextTurn /\ ~ResetsTurn
      BY DEF QueuesForNextTurn, ResetsTurn, MustQueue, Closed
    <2>4. QueuesForNextTurn \/ ResetsTurn \/ MergesTurn
      <3> USE DEF userVars
      <3>1. ~UserStep /\ ~NoTranscription /\ ~DropsNoise
        BY <2>2 DEF UserStep, UserStarts, UserStops, NoTranscription, DropsNoise
      <3>2. ~SysStep /\ ~DataStep
        BY <2>2 DEF SysStep, StopsGeneration, NothingToStop, SysBroadcasts, SysCancels, SysJoined,
                    LabelsTidying, ArmsTimeout, BotStarts, DataStep, DataBroadcasts, DataCancels,
                    StartsGeneration
      <3>3. ~TaskStep
        BY <2>2 DEF TaskStep, TaskCancelled, TaskStale, TakesQuestion, NothingAsked,
                    SpeaksSentence, SpeaksTail, CommitsAfterTail, CommitsWithoutTail, Commits,
                    StreamFails, CommitsFallback, SpeaksFallback, EndsFallback, TaskUnchanged
      <3>4. ~OutputStep /\ ~SttTimesOut /\ ~BudgetElapses /\ ~UNCHANGED vars
        BY <2>2 DEF OutputStep, Audio, BotStops, SttTimesOut, BudgetElapses, vars
      <3> QED
        BY <3>1, <3>2, <3>3, <3>4 DEF Next, SttStep
    <2> QED
      BY <2>3, <2>4
  <1>3. active = <<>> /\ ~postReset
    BY DEF AnsweredIsOver, Running, Closed
  <1> DEFINE question == LastQuestion(DropReply(history))
  <1>4. /\ history' = DropQuestion(DropReply(history))
        /\ pending' = Join(Join(Join(question, active), pending), <<{heard'}>>)
    BY <1>2, <1>3, Zenon DEF MergesTurn
  <1>5. /\ history' = SubSeq(history, 1, Len(history) - 2)
        /\ question = <<history[Len(history) - 1].asks>>
    BY <1>1, <1>4, RetractsTurn DEF Answered, HistoryAlternates
  <1>6. question \in Seq(Segment)
    BY <1>1, DropType
  <1>7. <<{heard'}>> \in Seq(Segment)
    BY <1>2, RestartsTyped DEF MergesTurn
  <1>8. Asked(question) = history[Len(history) - 1].asks
    BY <1>5 DEF Asked
  <1> HIDE DEF question
  <1>9. Join(question, active) \in Seq(Segment) /\ Join(Join(question, active), pending) \in Seq(Segment)
    BY <1>1, <1>6, JoinType
  <1>10. Asked(question) \subseteq Asked(pending')
    BY <1>1, <1>4, <1>6, <1>7, <1>9, AskedJoin
  <1> QED
    BY <1>5, <1>8, <1>10

\* Before any reply was heard, what the user says after a finished one takes its
\* turn back and asks its question again (lines 485-517).
THEOREM UnheardRetracted == Spec => UnheardReplyIsRetracted
  <1> DEFINE Inv == GenerationsInOrder /\ TaskOlder /\ GensInOrder /\ AnsweredIsOver
  <1>1. Init => Inv
    BY DEF Init, GenerationsInOrder, TaskOlder, GensInOrder, AnsweredIsOver, Answered
  <1>2. TypeOK /\ HistoryAlternates /\ Inv /\ [Next]_vars => Inv'
    BY OrderKept, TaskOlderKept, GensKept, AnsweredIsOverKept, Zenon
  <1>3. TypeOK /\ HistoryAlternates /\ Inv /\ [Next]_vars
          => [ ~Running /\ ~Closed /\ history # <<>> /\ history[Len(history)].gen = gid
               /\ heard' > heard
                 => /\ history' = SubSeq(history, 1, Len(history) - 2)
                    /\ history[Len(history) - 1].asks \subseteq Asked(pending') ]_vars
    BY UnheardStep DEF Answered
  <1> HIDE DEF Inv
  <1> QED
    BY <1>1, <1>2, <1>3, TypeCorrect, HistoryAlternating, PTL DEF Spec, UnheardReplyIsRetracted

=============================================================================
