------------------------------ MODULE VoiceTurn ------------------------------
(***************************************************************************)
(* One voice session of the public chatbot: the turn-merging state machine *)
(* JeonbukRAGProcessor of utils/voice_rag_pipeline.py, with the caption    *)
(* observer and the barge-in broadcaster around it.                        *)
(*                                                                         *)
(* Three coroutines share the processor's fields and interleave at awaits: *)
(* the handler of system frames (sys: VAD and Bot* frames), the handler of *)
(* data frames (data: transcriptions), and the generation task (task).     *)
(* One action is what one of them does between two awaits.                 *)
(*                                                                         *)
(* Data: the n-th accepted transcription is the number n; a segment, and   *)
(* the content of a user message, is the set of transcriptions whose texts *)
(* it joins; a reply is named by the generation that wrote it.             *)
(***************************************************************************)
EXTENDS Naturals, Sequences

CONSTANTS
    MaxStarts,     \* bound: VAD starts in the session
    MaxSentences,  \* bound: sentences of one reply pushed to the TTS before its last
    MaxPending,    \* the cap on segments queued past the budget (6 in the code)
    QuickSends     \* TRUE: the awaits of a handler end within the debounce

ASSUME BoundsAssumption ==
    /\ MaxStarts \in Nat
    /\ MaxSentences \in Nat \ {0}
    /\ MaxPending \in Nat \ {0}
    /\ QuickSends \in BOOLEAN

VARIABLES
    history,       \* the conversation sent to the LLM
    gid,           \* _generation_id
    pending,       \* _pending_user_segments
    active,        \* _active_user_segments
    audioStarted,  \* _reply_audio_started
    postReset,     \* _post_reply_reset
    budget,        \* _pending_started_at: "off" (None), "running", "elapsed"
    task,          \* _generation_task and its locals
    sys,           \* await point of the system-frame handler, the task it awaits
    data,          \* await point of the transcription handler and its gid
    sttTimeout,    \* _stt_timeout_task is sleeping
    reply,         \* the observer's _pending_reply, 0 for none or an empty one
    tts,           \* replies whose sentences wait for synthesis
    botSpeaking,   \* the output is playing
    botStarted,    \* a BotStartedSpeakingFrame is on its way up
    accept,        \* the page's pcAcceptAudio
    ui,            \* the page's mode or phase label
    talking,       \* the VAD hears the user
    owed,          \* utterances the STT has not returned
    heard,         \* number of accepted transcriptions
    starts         \* number of VAD starts

coreVars == <<history, gid, pending, active, audioStarted, postReset, budget>>
pageVars == <<reply, tts, botSpeaking, botStarted, accept, ui>>
userVars == <<talking, owed, heard, starts>>
vars == <<coreVars, task, sys, data, sttTimeout, pageVars, userVars>>

Utterance == 1 .. MaxStarts
Segment == SUBSET Utterance
Message == [role : {"user", "assistant"}, asks : Segment, gen : Nat]
TaskState == [pc : {"debounce", "stream", "tail", "fallback", "speak", "done"},
              gid : Nat, asks : Segment, said : Nat, cancelled : BOOLEAN]
SysState == [pc : {"idle", "starting", "clearing", "flushed", "joining", "stopping",
                   "arming"}, joins : Nat]
DataState == [pc : {"idle", "clearing", "flushed", "joining"}, gid : Nat]

CoreTypeOK ==
    /\ history \in Seq(Message)
    /\ gid \in Nat
    /\ pending \in Seq(Segment)
    /\ active \in Seq(Segment)
    /\ audioStarted \in BOOLEAN
    /\ postReset \in BOOLEAN
    /\ budget \in {"off", "running", "elapsed"}

PageTypeOK ==
    /\ reply \in Nat
    /\ tts \in Seq(Nat)
    /\ botSpeaking \in BOOLEAN
    /\ botStarted \in BOOLEAN
    /\ accept \in BOOLEAN
    /\ ui \in {"listening", "thinking", "tidying", "speaking"}

\* No utterance is transcribed twice, and none before it was spoken.
UserTypeOK ==
    /\ talking \in BOOLEAN
    /\ owed \in Nat
    /\ heard \in Nat
    /\ starts \in Nat
    /\ heard + owed <= starts
    /\ talking => heard + owed < starts
    /\ starts <= MaxStarts

TypeOK ==
    /\ CoreTypeOK
    /\ task \in TaskState
    /\ sys \in SysState
    /\ data \in DataState
    /\ sttTimeout \in BOOLEAN
    /\ PageTypeOK
    /\ UserTypeOK

Init ==
    /\ history = <<>>
    /\ gid = 0
    /\ pending = <<>>
    /\ active = <<>>
    /\ audioStarted = FALSE
    /\ postReset = FALSE
    /\ budget = "off"
    /\ task = [pc |-> "done", gid |-> 0, asks |-> {}, said |-> 0, cancelled |-> FALSE]
    /\ sys = [pc |-> "idle", joins |-> 0]
    /\ data = [pc |-> "idle", gid |-> 0]
    /\ sttTimeout = FALSE
    /\ reply = 0
    /\ tts = <<>>
    /\ botSpeaking = FALSE
    /\ botStarted = FALSE
    /\ accept = FALSE
    /\ ui = "listening"
    /\ talking = FALSE
    /\ owed = 0
    /\ heard = 0
    /\ starts = 0

-----------------------------------------------------------------------------
(* Helpers *)

Running == task.pc # "done"
Current == task.gid = gid

Asked(segments) == UNION {segments[i] : i \in DOMAIN segments}

\* _merge_turn_segments drops a segment equal to the one kept before it. The
\* lists it joins hold no such pair themselves, so only the joints matter.
Join(s, t) ==
    IF s # <<>> /\ t # <<>> /\ s[Len(s)] = t[1] THEN s \o Tail(t) ELSE s \o t

EndsWith(h, role) == h # <<>> /\ h[Len(h)].role = role
DropLast(h) == SubSeq(h, 1, Len(h) - 1)

DropReply(h) == IF EndsWith(h, "assistant") THEN DropLast(h) ELSE h
\* Mutant of DropQuestion: the reply is taken back, its question is not.
KeepQuestion(h) == h
DropQuestion(h) == IF EndsWith(h, "user") THEN DropLast(h) ELSE h
LastQuestion(h) == IF EndsWith(h, "user") THEN <<h[Len(h)].asks>> ELSE <<>>

\* The message {"type": "clear"}: the page drops its audio and listens.
PageClears ==
    /\ accept' = FALSE
    /\ ui' = "listening"

\* An interruption empties the TTS and stops the output.
Flush ==
    /\ tts' = <<>>
    /\ botSpeaking' = FALSE

PushTts == tts' = Append(tts, task.gid)

\* Mutant of EndTask: the finally clause forgets to check for staleness.
EndTaskAlwaysClears ==
    /\ task' = [task EXCEPT !.pc = "done"]
    /\ active' = <<>>

\* Mutant of EndTask: only a cancellation clears, not a reply that was finished.
EndTaskOfAnswered ==
    /\ task' = [task EXCEPT !.pc = "done"]
    /\ active' = IF Current /\ task.cancelled THEN <<>> ELSE active

\* What _generate_after_debounce leaves behind: its finally clause clears the
\* active segments of a generation that is still the current one.
EndTask ==
    /\ task' = [task EXCEPT !.pc = "done"]
    /\ active' = IF Current THEN <<>> ELSE active

CreateTask(g) ==
    task' = [pc |-> "debounce", gid |-> g, asks |-> {}, said |-> 0, cancelled |-> FALSE]

-----------------------------------------------------------------------------
(* The handler of system frames: VAD and Bot* frames *)

SysAt(pc) == sys.pc = pc
SysGoes(pc) == sys' = [sys EXCEPT !.pc = pc]

\* The user starts to speak. While the bot speaks the barge-in broadcaster
\* interrupts the pipeline first: the TTS is flushed, and a transcription
\* handler is cancelled, unless it awaits the generation task: there
\* suppress(CancelledError) swallows the cancellation. The handler then
\* cancels the STT timeout and sends "vad start", which the page ignores
\* unless it is listening.
UserStarts ==
    /\ SysAt("idle")
    /\ ~talking
    /\ starts < MaxStarts
    /\ talking' = TRUE
    /\ starts' = starts + 1
    /\ sttTimeout' = FALSE
    /\ SysGoes("starting")
    /\ IF botSpeaking
       THEN /\ Flush
            /\ data' = IF data.pc = "joining" THEN data ELSE [data EXCEPT !.pc = "idle"]
       ELSE UNCHANGED <<tts, botSpeaking, data>>
    /\ UNCHANGED <<coreVars, task, reply, botStarted, accept, ui, owed, heard>>

\* After the caption is sent: a running generation is made stale, and
\* _stop_current_generation begins (the observer and the page are cleared).
StopsGeneration ==
    /\ SysAt("starting")
    /\ Running
    /\ gid' = gid + 1
    /\ reply' = 0
    /\ PageClears
    /\ SysGoes("clearing")
    /\ UNCHANGED <<history, pending, active, audioStarted, postReset, budget, task,
                   data, sttTimeout, tts, botSpeaking, botStarted, userVars>>

NothingToStop ==
    /\ SysAt("starting")
    /\ ~Running
    /\ SysGoes("idle")
    /\ UNCHANGED <<coreVars, task, data, sttTimeout, pageVars, userVars>>

SysBroadcasts ==
    /\ SysAt("clearing")
    /\ Flush
    /\ SysGoes("flushed")
    /\ UNCHANGED <<coreVars, task, data, sttTimeout, reply, botStarted, accept, ui, userVars>>

\* _generation_task is read after the awaits: it may be a newer task by now.
SysCancels ==
    /\ SysAt("flushed")
    /\ IF Running
       THEN /\ task' = [task EXCEPT !.cancelled = TRUE]
            /\ sys' = [pc |-> "joining", joins |-> task.gid]
       ELSE /\ SysGoes("idle")
            /\ UNCHANGED task
    /\ UNCHANGED <<coreVars, data, sttTimeout, pageVars, userVars>>

SysJoined ==
    /\ SysAt("joining")
    /\ ~Running \/ task.gid # sys.joins
    /\ SysGoes("idle")
    /\ UNCHANGED <<coreVars, task, data, sttTimeout, pageVars, userVars>>

\* The user falls silent: "vad stop", then the label, then the STT timeout.
UserStops ==
    /\ SysAt("idle")
    /\ talking
    /\ talking' = FALSE
    /\ owed' = owed + 1
    /\ ui' = "thinking"
    /\ SysGoes("stopping")
    /\ UNCHANGED <<coreVars, task, data, sttTimeout, reply, tts, botSpeaking, botStarted,
                   accept, heard, starts>>

LabelsTidying ==
    /\ SysAt("stopping")
    /\ ui' = "tidying"
    /\ SysGoes("arming")
    /\ UNCHANGED <<coreVars, task, data, sttTimeout, reply, tts, botSpeaking, botStarted,
                   accept, userVars>>

ArmsTimeout ==
    /\ SysAt("arming")
    /\ sttTimeout' = TRUE
    /\ SysGoes("idle")
    /\ UNCHANGED <<coreVars, task, data, pageVars, userVars>>

\* The output began to play: the turn is closed for merging.
BotStarts ==
    /\ SysAt("idle")
    /\ botStarted
    /\ botStarted' = FALSE
    /\ IF audioStarted
       THEN UNCHANGED <<audioStarted, postReset, budget>>
       ELSE /\ audioStarted' = TRUE
            /\ postReset' = FALSE
            /\ budget' = "off"
    /\ UNCHANGED <<history, gid, pending, active, task, sys, data, sttTimeout,
                   reply, tts, botSpeaking, accept, ui, userVars>>

-----------------------------------------------------------------------------
(* The handler of transcriptions *)

\* Mutant of Transcribed: the same utterance is delivered again.
TranscribedAgain ==
    /\ data.pc = "idle"
    /\ owed > 0
    /\ sttTimeout' = FALSE
    /\ UNCHANGED <<sys, talking, owed, starts>>

\* The STT of one utterance is over; the frame cancels the STT timeout.
Transcribed ==
    /\ data.pc = "idle"
    /\ owed > 0
    /\ owed' = owed - 1
    /\ sttTimeout' = FALSE
    /\ UNCHANGED <<sys, talking, starts>>

\* The STT heard nothing: no frame is emitted, the timeout keeps running.
NoTranscription ==
    /\ owed > 0
    /\ owed' = owed - 1
    /\ UNCHANGED <<coreVars, task, sys, data, sttTimeout, pageVars, talking, heard, starts>>

\* An empty or non-Korean text is dropped, and the page cleared.
DropsNoise ==
    /\ Transcribed
    /\ PageClears
    /\ UNCHANGED <<coreVars, task, data, reply, tts, botSpeaking, botStarted, heard>>

\* Mutant of MustQueue: a running generation is always spared.
MustQueueAtOnce == ~audioStarted /\ Running

MustQueue == ~audioStarted /\ Running /\ budget = "elapsed"

\* Past the budget a running generation is spared and the text queued; both
\* caps (items, characters) drop the oldest segments, the second one perhaps all.
QueuesForNextTurn ==
    /\ Transcribed
    /\ MustQueue
    /\ heard' = heard + 1
    /\ LET queue == Append(pending, {heard'})
       IN \E first \in 1 .. Len(queue) + 1 :
            /\ Len(queue) + 1 - first <= MaxPending
            /\ pending' = SubSeq(queue, first, Len(queue))
    /\ UNCHANGED <<history, gid, active, audioStarted, postReset, budget, task, data, pageVars>>

\* Mutant of Restarts: the observer keeps the reply of the generation it stops.
RestartsKeepingReply ==
    /\ Transcribed
    /\ heard' = heard + 1
    /\ gid' = gid + 1
    /\ data' = [pc |-> "clearing", gid |-> gid']
    /\ PageClears
    /\ UNCHANGED <<task, reply, tts, botSpeaking, botStarted>>

\* Both other branches make the running generation stale and stop it.
Restarts ==
    /\ Transcribed
    /\ heard' = heard + 1
    /\ gid' = gid + 1
    /\ data' = [pc |-> "clearing", gid |-> gid']
    /\ reply' = 0
    /\ PageClears
    /\ UNCHANGED <<task, tts, botSpeaking, botStarted>>

\* The last reply was heard: the merge window starts anew with this text.
ResetsTurn ==
    /\ audioStarted
    /\ Restarts
    /\ active' = <<>>
    /\ pending' = <<{heard'}>>
    /\ audioStarted' = FALSE
    /\ postReset' = TRUE
    /\ budget' = "running"
    /\ UNCHANGED history

\* Mutant of MergesTurn: postReset is not asked, as before the fix the code's
\* comment tells of.
MergesAnsweredTurn ==
    /\ ~audioStarted
    /\ ~MustQueue
    /\ Restarts
    /\ LET retracts == active = <<>>
           asked == IF retracts THEN LastQuestion(DropReply(history)) ELSE <<>>
       IN /\ history' = IF retracts THEN DropQuestion(DropReply(history)) ELSE history
          /\ pending' = Join(Join(Join(asked, active), pending), <<{heard'}>>)
    /\ budget' = IF budget = "off" THEN "running" ELSE budget
    /\ UNCHANGED <<active, audioStarted, postReset>>

\* No reply was heard: a finished but unheard one is taken back with its
\* question, and everything unanswered becomes one question.
MergesTurn ==
    /\ ~audioStarted
    /\ ~MustQueue
    /\ Restarts
    /\ LET retracts == active = <<>> /\ ~postReset
           asked == IF retracts THEN LastQuestion(DropReply(history)) ELSE <<>>
       IN /\ history' = IF retracts THEN DropQuestion(DropReply(history)) ELSE history
          /\ pending' = Join(Join(Join(asked, active), pending), <<{heard'}>>)
    /\ budget' = IF budget = "off" THEN "running" ELSE budget
    /\ UNCHANGED <<active, audioStarted, postReset>>

DataBroadcasts ==
    /\ data.pc = "clearing"
    /\ Flush
    /\ data' = [data EXCEPT !.pc = "flushed"]
    /\ UNCHANGED <<coreVars, task, sys, sttTimeout, reply, botStarted, accept, ui, userVars>>

DataCancels ==
    /\ data.pc = "flushed"
    /\ Running
    /\ task' = [task EXCEPT !.cancelled = TRUE]
    /\ data' = [data EXCEPT !.pc = "joining"]
    /\ UNCHANGED <<coreVars, sys, sttTimeout, pageVars, userVars>>

StartsGeneration ==
    /\ data.pc \in {"flushed", "joining"}
    /\ ~Running
    /\ CreateTask(data.gid)
    /\ data' = [data EXCEPT !.pc = "idle"]
    /\ UNCHANGED <<coreVars, sys, sttTimeout, pageVars, userVars>>

-----------------------------------------------------------------------------
(* The generation task *)

TaskAt(pc) == task.pc = pc /\ ~task.cancelled
TaskUnchanged == UNCHANGED <<gid, audioStarted, postReset, sys, data, sttTimeout, userVars>>

\* Mutant of TaskCancelled: once the LLM streams, the cancellation is swallowed.
TaskCancelledAsleep ==
    /\ task.pc = "debounce"
    /\ task.cancelled
    /\ EndTask
    /\ UNCHANGED <<history, pending, budget, pageVars>>
    /\ TaskUnchanged

\* Every await of a cancelled task raises CancelledError.
TaskCancelled ==
    /\ Running
    /\ task.cancelled
    /\ EndTask
    /\ UNCHANGED <<history, pending, budget, pageVars>>
    /\ TaskUnchanged

\* A stale generation returns at its next check.
TaskStale ==
    /\ Running
    /\ ~task.cancelled
    /\ ~Current
    /\ EndTask
    /\ UNCHANGED <<history, pending, budget, pageVars>>
    /\ TaskUnchanged

\* The debounce is over: the pending segments become the question.
TakesQuestion ==
    /\ TaskAt("debounce")
    /\ Current
    /\ QuickSends => ~(SysAt("clearing") \/ SysAt("flushed"))
    /\ pending # <<>>
    /\ pending' = <<>>
    /\ active' = pending
    /\ task' = [task EXCEPT !.pc = "stream", !.asks = Asked(pending)]
    /\ ui' = "thinking"
    /\ UNCHANGED <<history, budget, reply, tts, botSpeaking, botStarted, accept>>
    /\ TaskUnchanged

NothingAsked ==
    /\ TaskAt("debounce")
    /\ Current
    /\ pending = <<>>
    /\ EndTask
    /\ UNCHANGED <<history, pending, budget, pageVars>>
    /\ TaskUnchanged

\* Mutant of SpeaksSentence: pushed without asking whether it is still current.
SpeaksAnySentence ==
    /\ TaskAt("stream")
    /\ task.said < MaxSentences
    /\ PushTts
    /\ task' = [task EXCEPT !.said = task.said + 1]
    /\ ui' = "thinking"
    /\ UNCHANGED <<history, pending, active, budget, reply, botSpeaking, botStarted, accept>>
    /\ TaskUnchanged

\* A delta completes a sentence, which is spoken at once.
SpeaksSentence ==
    /\ TaskAt("stream")
    /\ Current
    /\ task.said < MaxSentences
    /\ PushTts
    /\ task' = [task EXCEPT !.said = task.said + 1]
    /\ ui' = "thinking"
    /\ UNCHANGED <<history, pending, active, budget, reply, botSpeaking, botStarted, accept>>
    /\ TaskUnchanged

\* The stream is done and text is left in the buffer: it is spoken last.
SpeaksTail ==
    /\ TaskAt("stream")
    /\ Current
    /\ PushTts
    /\ task' = [task EXCEPT !.pc = "tail", !.said = task.said + 1]
    /\ ui' = "thinking"
    /\ UNCHANGED <<history, pending, active, budget, reply, botSpeaking, botStarted, accept>>
    /\ TaskUnchanged

Answers(gen) ==
    history' = history \o <<[role |-> "user", asks |-> task.asks, gen |-> 0],
                            [role |-> "assistant", asks |-> {}, gen |-> gen]>>

\* The reply is final: it is queued for the observer and enters the history.
\* An empty one (r = 0), the stream having produced nothing, is never shown.
Commits(r) ==
    /\ Current
    /\ reply' = r
    /\ Answers(task.gid)
    /\ budget' = "off"
    /\ EndTask
    /\ UNCHANGED <<pending, tts, botSpeaking, botStarted, accept, ui>>
    /\ TaskUnchanged

CommitsAfterTail == TaskAt("tail") /\ Commits(task.gid)

CommitsWithoutTail ==
    /\ TaskAt("stream")
    /\ \E r \in {task.gid} \cup (IF task.said = 0 THEN {0} ELSE {}) : Commits(r)

\* The stream failed before its first delta: ask again without streaming.
StreamFails ==
    /\ TaskAt("stream")
    /\ Current
    /\ task.said = 0
    /\ task' = [task EXCEPT !.pc = "fallback"]
    /\ UNCHANGED <<history, pending, active, budget, pageVars>>
    /\ TaskUnchanged

\* The whole reply at once: history, observer, first sentence. The timer is kept.
CommitsFallback ==
    /\ TaskAt("fallback")
    /\ Current
    /\ Answers(task.gid)
    /\ reply' = task.gid
    /\ PushTts
    /\ task' = [task EXCEPT !.pc = "speak", !.said = 1]
    /\ UNCHANGED <<pending, active, budget, botSpeaking, botStarted, accept, ui>>
    /\ TaskUnchanged

SpeaksFallback ==
    /\ TaskAt("speak")
    /\ Current
    /\ task.said <= MaxSentences
    /\ PushTts
    /\ task' = [task EXCEPT !.said = task.said + 1]
    /\ UNCHANGED <<history, pending, active, budget, reply, botSpeaking, botStarted, accept, ui>>
    /\ TaskUnchanged

EndsFallback ==
    /\ TaskAt("speak")
    /\ Current
    /\ EndTask
    /\ UNCHANGED <<history, pending, budget, pageVars>>
    /\ TaskUnchanged

-----------------------------------------------------------------------------
(* Timers, TTS and output *)

\* No transcription came within _stt_timeout_secs of the end of speech.
SttTimesOut ==
    /\ sttTimeout
    /\ sttTimeout' = FALSE
    /\ PageClears
    /\ UNCHANGED <<coreVars, task, sys, data, reply, tts, botSpeaking, botStarted, userVars>>

\* _pending_force_commit_secs have passed since _pending_started_at.
BudgetElapses ==
    /\ budget = "running"
    /\ budget' = "elapsed"
    /\ UNCHANGED <<history, gid, pending, active, audioStarted, postReset, task, sys, data,
                   sttTimeout, pageVars, userVars>>

\* An audio chunk of the first sentence, its last one or not, passes the
\* observer, which announces the pending reply, and reaches output and page.
Audio(last) ==
    /\ tts # <<>>
    /\ tts' = IF last THEN Tail(tts) ELSE tts
    /\ reply' = 0
    /\ accept' = (accept \/ reply # 0)
    /\ ui' = IF accept' THEN "speaking" ELSE ui
    /\ botSpeaking' = TRUE
    /\ botStarted' = (botStarted \/ ~botSpeaking)
    /\ UNCHANGED <<coreVars, task, sys, data, sttTimeout, userVars>>

\* Nothing is left to play for a while.
BotStops ==
    /\ botSpeaking
    /\ botSpeaking' = FALSE
    /\ ui' = IF ui = "speaking" THEN "listening" ELSE ui
    /\ UNCHANGED <<coreVars, task, sys, data, sttTimeout, reply, tts, botStarted, accept, userVars>>

-----------------------------------------------------------------------------
SysStep == \/ StopsGeneration \/ NothingToStop \/ SysBroadcasts \/ SysCancels \/ SysJoined
           \/ LabelsTidying \/ ArmsTimeout \/ BotStarts
DataStep == DataBroadcasts \/ DataCancels \/ StartsGeneration
TaskStep == \/ TaskCancelled \/ TaskStale \/ TakesQuestion \/ NothingAsked
            \/ SpeaksSentence \/ SpeaksTail \/ CommitsAfterTail \/ CommitsWithoutTail
            \/ StreamFails \/ CommitsFallback \/ SpeaksFallback \/ EndsFallback
UserStep == UserStarts \/ UserStops
SttStep == NoTranscription \/ DropsNoise \/ QueuesForNextTurn \/ ResetsTurn \/ MergesTurn
OutputStep == Audio(TRUE) \/ Audio(FALSE) \/ BotStops

Next == \/ UserStep \/ SttStep \/ SysStep \/ DataStep \/ TaskStep
        \/ OutputStep \/ SttTimesOut \/ BudgetElapses

Spec == Init /\ [][Next]_vars

\* The event loop runs every coroutine that can run, the LLM stream ends, and
\* sentences are synthesised to their end. Nothing is asked of user or STT.
Fairness ==
    /\ WF_vars(SysStep)
    /\ WF_vars(DataStep)
    /\ WF_vars(TaskStep)
    /\ WF_vars(Audio(TRUE))
    /\ WF_vars(BotStops)
    /\ WF_vars(SttTimesOut)

FairSpec == Spec /\ Fairness

-----------------------------------------------------------------------------
(* Properties *)

\* The LLM is sent a conversation of whole turns: question, reply, question,
\* reply. Turns are taken back in one handler and added in another coroutine;
\* neither may leave a question without a reply or two in a row (lines 497-508,
\* 753-754, 787-788).
HistoryAlternates ==
    /\ Len(history) % 2 = 0
    /\ \A i \in DOMAIN history :
         history[i].role = IF i % 2 = 1 THEN "user" ELSE "assistant"

\* A reply waiting to be announced to the page is the last one of the history:
\* none that was taken back, or followed by another, is ever shown (lines
\* 156-179, 415).
QueuedReplyIsLast ==
    reply # 0 => history # <<>> /\ history[Len(history)].gen = reply

\* When no handler stands between making a generation stale and flushing the
\* TTS, every sentence waiting for synthesis belongs to the current generation:
\* an overtaken answer is not spoken into the next turn (lines 414-418, 578-581).
NoStaleSpeech ==
    \/ SysAt("clearing")
    \/ data.pc = "clearing"
    \/ \A i \in DOMAIN tts : tts[i] = gid

\* A current generation that asks the LLM asks everything the turn has
\* collected; a segment is left waiting beside it only past the budget
\* (lines 437-458, 510-517, 541-543).
AsksWholeTurn ==
    Current /\ task.pc \in {"stream", "tail", "fallback"} /\ ~task.cancelled =>
        /\ Asked(active) = task.asks
        /\ pending # <<>> => budget # "running"

\* Once a reply was heard its turn is closed for good: whatever interleaving of
\* resets, interruptions and late Bot frames follows, no message of the history
\* is taken back or merged again (lines 462-508).
Closed == audioStarted \/ postReset
ClosedTurnsStayClosed ==
    [][Closed => Closed' /\ Len(history') >= Len(history)
                         /\ SubSeq(history', 1, Len(history)) = history]_vars

\* Before any reply was heard, a finished one is void when the user goes on: it
\* leaves the history together with its question, which is asked again with what
\* was said (lines 485-517). This needs that nothing interrupted the generation
\* after its reply was final; then no segment of it may be left behind as active.
UnheardReplyIsRetracted ==
    [][ ~Running /\ ~Closed /\ history # <<>> /\ history[Len(history)].gen = gid
        /\ heard' > heard
          => /\ history' = SubSeq(history, 1, Len(history) - 2)
             /\ history[Len(history) - 1].asks \subseteq Asked(pending') ]_vars

\* The transcriptions the session still answers for: answered ones, and those a
\* generation asks or will ask. (A current generation in its debounce, cancelled
\* or not, asks only the pending ones: active is then a copy of segments already
\* merged into them, and goes when it ends.)
Kept ==
    Asked(pending)
        \cup (IF task.pc = "debounce" /\ Current THEN {} ELSE Asked(active))
        \cup UNION {history[i].asks : i \in DOMAIN history}

\* No transcription vanishes by an interleaving: cancellations, stale wake-ups,
\* failed streams and retractions keep every one of them. Only the reset after
\* a heard reply and the caps of the queue drop any (lines 437-483, 535-576).
KeepsQuestions ==
    [][Kept \subseteq Kept' \/ ResetsTurn \/ QueuesForNextTurn]_vars

\* Two handlers and the generation they both cancel and await never wait on
\* each other for ever: each handler returns (lines 414-425, 428-533, 819-867).
HandlersReturn ==
    /\ data.pc # "idle" ~> data.pc = "idle"
    /\ sys.pc # "idle" ~> sys.pc = "idle"

=============================================================================
