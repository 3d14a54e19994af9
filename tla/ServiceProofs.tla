---------------------------- MODULE ServiceProofs ----------------------------
(***************************************************************************)
(* What Service.tla promises, proved for any sets of scheduled runs and of *)
(* commands, and any resources: first what one step of one execution does, *)
(* whichever it is, then the process around it, then the abstract          *)
(* scheduler that the process implements.                                  *)
(***************************************************************************)
EXTENDS Service, FiniteSetTheorems, SequenceTheorems, TLAPS

-----------------------------------------------------------------------------
(* What Append and Tail do to a sequence.                                  *)

\* Every element moves one position down.
LEMMA TailFacts ==
  ASSUME NEW S, NEW s \in Seq(S), s # <<>>
  PROVE  /\ Tail(s) \in Seq(S) /\ Len(s) \in Nat /\ Len(Tail(s)) = Len(s) - 1
         /\ Head(s) = s[1] /\ Head(s) \in S /\ 1 \in 1..Len(s)
         /\ \A i \in 1..Len(Tail(s)) : i + 1 \in 1..Len(s) /\ Tail(s)[i] = s[i + 1]
         /\ Tail(s) = <<>> <=> ~(Len(s) > 1)
<1>1. /\ Tail(s) \in Seq(S) /\ Len(s) \in Nat \ {0} /\ Len(Tail(s)) = Len(s) - 1
      /\ Head(s) = s[1] /\ Head(s) \in S
      /\ \A i \in 1..Len(Tail(s)) : Tail(s)[i] = s[i + 1]
  OBVIOUS
<1>2. Tail(s) = <<>> <=> Len(Tail(s)) = 0
  BY <1>1, EmptySeq
<1> QED
  BY <1>1, <1>2

\* There is one new last position.
LEMMA AppendFacts ==
  ASSUME NEW S, NEW s \in Seq(S), NEW x \in S
  PROVE  /\ Append(s, x) \in Seq(S) /\ Len(s) \in Nat
         /\ Len(Append(s, x)) = Len(s) + 1
         /\ \A i \in 1..Len(s) : Append(s, x)[i] = s[i]
         /\ Append(s, x)[Len(s) + 1] = x
  OBVIOUS

USE DispatcherAssumption, ServiceAssumption

-----------------------------------------------------------------------------
(* One execution                                                           *)

\* What a step of the execution of t leaves alone: the other executions, what
\* the tasks are, and whether t has begun.
Confined(t) ==
    /\ slack' = slack /\ kind' = kind /\ strayed' = strayed
    /\ pc'[t] # "none"
    /\ \A u \in Tasks \ {t} :
         /\ pc'[u] = pc[u] /\ open'[u] = open[u] /\ verdict'[u] = verdict[u]
         /\ outcome'[u] = outcome[u] /\ tree'[u] = tree[u]
         /\ notified'[u] = notified[u] /\ root'[u] = root[u] /\ faults'[u] = faults[u]

Sound(t) == DispatcherTypeOK' /\ TaskInv(t)' /\ Confined(t)

\* The channel message of a run gets another text, or none of its calls did.
LEMMA ShowFacts ==
  ASSUME DispatcherTypeOK, NEW t \in Tasks, NEW o \in Answers, notified[t] = t,
         NEW status \in {"complete", "failed", "cancelled"}, Show(t, o, status)
  PROVE  /\ root' \in [Tasks -> {"none", "starting", "complete", "failed", "cancelled"}]
         /\ \A u \in Tasks \ {t} : root'[u] = root[u]
         /\ o = "ok" => root'[t] = status
  BY DEF Show, DispatcherTypeOK, NotifierOf, Took

\* An answer that is not there is a fault of Slack, and nothing else is.
LEMMA NoteFacts ==
  ASSUME DispatcherTypeOK, NEW t \in Tasks, NEW o \in Answers, NoteFault(t, o)
  PROVE  /\ faults' \in [Tasks -> SUBSET {"build", "slack", "close", "report", "respond"}]
         /\ \A u \in Tasks \ {t} : faults'[u] = faults[u]
         /\ faults'[t] \cap {"build", "close"} = faults[t] \cap {"build", "close"}
         /\ "slack" \notin faults'[t] => o = "ok" /\ faults'[t] = faults[t]
<1> DEFINE Kinds == {"build", "slack", "close", "report", "respond"}
<1>1. faults \in [Tasks -> SUBSET Kinds]
  BY DEF DispatcherTypeOK
<1>2. CASE o = "ok"
  BY <1>1, <1>2 DEF NoteFault
<1>3. CASE o # "ok"
  <2>1. faults[t] \cup {"slack"} \in SUBSET Kinds
    BY <1>1
  <2>2. faults' = [faults EXCEPT ![t] = faults[t] \cup {"slack"}]
    BY <1>3 DEF NoteFault, Fault
  <2> HIDE DEF Kinds
  <2>3. /\ faults' \in [Tasks -> SUBSET Kinds]
        /\ \A u \in Tasks \ {t} : faults'[u] = faults[u]
        /\ faults'[t] = faults[t] \cup {"slack"}
    BY <1>1, <2>1, <2>2
  <2> QED
    BY <2>3 DEF Kinds
<1> QED
  BY <1>2, <1>3

\* A reply goes to the run's own thread, or to the channel.
LEMMA ReplyFacts ==
  ASSUME NEW t \in Tasks, NEW o \in Answers, TaskInv(t), Reply(t, o)
  PROVE  strayed' = strayed
  BY DEF Reply, TaskInv, ThreadInv, NotifierOf

\* The first message.
LEMMA StartSound ==
  ASSUME DispatcherTypeOK, NEW t \in Tasks, TaskInv(t), PipelineStart(t)
  PROVE  Sound(t)
<1>1. PICK o \in Answers :
        /\ root' = IF Took(o) THEN [root EXCEPT ![t] = "starting"] ELSE root
        /\ notified' = IF o = "ok" THEN [notified EXCEPT ![NotifierOf(t)] = t] ELSE notified
        /\ NoteFault(t, o)
  BY DEF PipelineStart
<1>2. /\ pc[t] = "start" /\ pc' = [pc EXCEPT ![t] = "sync"]
      /\ UNCHANGED <<slack, kind, cancel, open, verdict, outcome, tree, strayed>>
  BY DEF PipelineStart, At, Goto
<1>3. /\ faults' \in [Tasks -> SUBSET {"build", "slack", "close", "report", "respond"}]
      /\ \A u \in Tasks \ {t} : faults'[u] = faults[u]
      /\ faults'[t] \cap {"build", "close"} = faults[t] \cap {"build", "close"}
      /\ "slack" \notin faults'[t] => o = "ok" /\ faults'[t] = faults[t]
  BY <1>1, NoteFacts
<1>4. DispatcherTypeOK'
  BY <1>1, <1>2, <1>3 DEF DispatcherTypeOK, NotifierOf, Labels
<1>5. Confined(t)
  BY <1>1, <1>2, <1>3 DEF DispatcherTypeOK, NotifierOf, Confined
<1>6. TaskInv(t)'
  BY <1>1, <1>2, <1>3 DEF DispatcherTypeOK, NotifierOf, TaskInv, KindInv, OpenInv,
     VerdictInv, ThreadInv, Stages, RootTellsTheOutcome
<1> QED
  BY <1>4, <1>5, <1>6 DEF Sound

\* A fault is added to those of its task.
LEMMA FaultFacts ==
  ASSUME DispatcherTypeOK, NEW t \in Tasks,
         NEW what \in {"build", "slack", "close", "report", "respond"}, Fault(t, what)
  PROVE  /\ faults' \in [Tasks -> SUBSET {"build", "slack", "close", "report", "respond"}]
         /\ \A u \in Tasks \ {t} : faults'[u] = faults[u]
         /\ faults'[t] = faults[t] \cup {what}
<1> DEFINE Kinds == {"build", "slack", "close", "report", "respond"}
<1>1. faults \in [Tasks -> SUBSET Kinds]
  BY DEF DispatcherTypeOK
<1>2. faults[t] \cup {what} \in SUBSET Kinds
  BY <1>1
<1>3. faults' = [faults EXCEPT ![t] = faults[t] \cup {what}]
  BY DEF Fault
<1> HIDE DEF Kinds
<1>4. /\ faults' \in [Tasks -> SUBSET Kinds]
      /\ \A u \in Tasks \ {t} : faults'[u] = faults[u]
      /\ faults'[t] = faults[t] \cup {what}
  BY <1>1, <1>2, <1>3
<1> QED
  BY <1>4 DEF Kinds

\* The end of the stages, however they end.
LEMMA ClosingSound ==
  ASSUME DispatcherTypeOK, NEW t \in Tasks, TaskInv(t),
         pc[t] \in {"sync", "syncNotice", "stages"},
         NEW v \in {"ok", "error", "cancelled"}, v = "ok" => pc[t] = "stages",
         Closing(t, v), cancel' \in [Tasks -> BOOLEAN],
         UNCHANGED <<slack, kind, open, tree, slackVars, faults>>
  PROVE  Sound(t)
<1>1. /\ verdict' = [verdict EXCEPT ![t] = v]
      /\ outcome' \in [Tasks -> {"none", "returned", "raised", "cancelled"}]
      /\ \A u \in Tasks \ {t} : outcome'[u] = outcome[u]
  BY DEF Closing, DispatcherTypeOK
<1>2. PICK label \in {"complete", "failed", "cancelled", "close"} :
        /\ pc' = [pc EXCEPT ![t] = label]
        /\ label = "complete" => v = "ok"
        /\ label = "failed" => v = "error"
        /\ label = "cancelled" => v = "cancelled"
        /\ slack = "on" => label # "close"
  BY DEF Closing, Goto
<1>3. DispatcherTypeOK'
  BY <1>1, <1>2 DEF DispatcherTypeOK, slackVars, Labels
<1>4. Confined(t)
  BY <1>1, <1>2 DEF DispatcherTypeOK, slackVars, Confined
<1>5. TaskInv(t)'
  BY <1>1, <1>2 DEF DispatcherTypeOK, slackVars, TaskInv, KindInv, OpenInv,
     VerdictInv, ThreadInv, Stages, RootTellsTheOutcome
<1> QED
  BY <1>3, <1>4, <1>5 DEF Sound

\* The pull, which may fail and leave the older source.
LEMMA SyncSound ==
  ASSUME DispatcherTypeOK, NEW t \in Tasks, TaskInv(t), SyncRepo(t)
  PROVE  Sound(t)
<1>1. /\ pc[t] = "sync"
      /\ UNCHANGED <<slack, kind, cancel, open, slackVars, faults>>
  BY DEF SyncRepo, At
<1>2. CASE Closing(t, "error") /\ UNCHANGED tree
  <2>1. cancel' \in [Tasks -> BOOLEAN]
    BY <1>1 DEF DispatcherTypeOK
  <2> QED
    BY <1>1, <1>2, <2>1, ClosingSound
<1>3. CASE /\ \/ Goto(t, "stages") /\ tree' = tree
              \/ \E left \in {"current", "old"} :
                    /\ tree' = [tree EXCEPT ![t] = left]
                    /\ Goto(t, IF slack = "on" THEN "syncNotice" ELSE "stages")
           /\ UNCHANGED <<verdict, outcome>>
  <2>1. PICK label \in {"syncNotice", "stages"}, left \in {"current", "old"} :
          /\ pc' = [pc EXCEPT ![t] = label] /\ tree' = [tree EXCEPT ![t] = left]
          /\ slack = "on" /\ label = "stages" => left = "current"
    <3>1. tree = [tree EXCEPT ![t] = "current"]
      BY <1>1 DEF DispatcherTypeOK, TaskInv, ThreadInv
    <3> QED
      BY <1>3, <3>1 DEF Goto
  <2>2. DispatcherTypeOK'
    BY <1>1, <1>3, <2>1 DEF DispatcherTypeOK, slackVars, Labels
  <2>3. Confined(t)
    BY <1>1, <1>3, <2>1 DEF DispatcherTypeOK, slackVars, Confined
  <2>4. TaskInv(t)'
    BY <1>1, <1>3, <2>1 DEF DispatcherTypeOK, slackVars, TaskInv, KindInv, OpenInv,
       VerdictInv, ThreadInv, Stages, RootTellsTheOutcome
  <2> QED
    BY <2>2, <2>3, <2>4 DEF Sound
<1> QED
  BY <1>2, <1>3 DEF SyncRepo

\* Its notice: from then on the thread knows of the older source.
LEMMA SyncNoticeSound ==
  ASSUME DispatcherTypeOK, NEW t \in Tasks, TaskInv(t), SyncNotice(t)
  PROVE  Sound(t)
<1>1. PICK o \in Answers :
        /\ Reply(t, o)
        /\ tree' = IF tree[t] = "old" /\ Took(o) THEN [tree EXCEPT ![t] = "oldTold"] ELSE tree
        /\ NoteFault(t, o)
  BY DEF SyncNotice
<1>2. /\ pc[t] = "syncNotice" /\ pc' = [pc EXCEPT ![t] = "stages"]
      /\ UNCHANGED <<slack, kind, cancel, open, verdict, outcome, notified, root>>
  BY DEF SyncNotice, At, Goto
<1>3. strayed' = strayed
  BY <1>1, ReplyFacts
<1>4. /\ faults' \in [Tasks -> SUBSET {"build", "slack", "close", "report", "respond"}]
      /\ \A u \in Tasks \ {t} : faults'[u] = faults[u]
      /\ faults'[t] \cap {"build", "close"} = faults[t] \cap {"build", "close"}
      /\ "slack" \notin faults'[t] => o = "ok" /\ faults'[t] = faults[t]
  BY <1>1, NoteFacts
<1>5. DispatcherTypeOK'
  BY <1>1, <1>2, <1>3, <1>4 DEF DispatcherTypeOK, Labels
<1>6. Confined(t)
  BY <1>1, <1>2, <1>3, <1>4 DEF DispatcherTypeOK, Confined
<1>7. TaskInv(t)'
  BY <1>1, <1>2, <1>3, <1>4 DEF DispatcherTypeOK, Took, TaskInv, KindInv, OpenInv,
     VerdictInv, ThreadInv, Stages, RootTellsTheOutcome
<1> QED
  BY <1>5, <1>6, <1>7 DEF Sound

\* The rest of the stages.
LEMMA StagesSound ==
  ASSUME DispatcherTypeOK, NEW t \in Tasks, TaskInv(t), RunStages(t)
  PROVE  Sound(t)
<1>1. cancel' \in [Tasks -> BOOLEAN]
  BY DEF RunStages, DispatcherTypeOK
<1>2. PICK v \in {"ok", "error"} : Closing(t, v)
  BY DEF RunStages
<1>3. pc[t] = "stages" /\ UNCHANGED <<slack, kind, open, tree, slackVars, faults>>
  BY DEF RunStages, At
<1> QED
  BY <1>1, <1>2, <1>3, ClosingSound

\* A closing notice has changed the message of the run, or a call has failed.
LEMMA NoticeSound ==
  ASSUME DispatcherTypeOK, NEW t \in Tasks, TaskInv(t),
         NEW status \in {"complete", "failed", "cancelled"}, pc[t] = status,
         NEW label \in {"summary", "close"}, pc' = [pc EXCEPT ![t] = label],
         root' \in [Tasks -> {"none", "starting", "complete", "failed", "cancelled"}],
         \A u \in Tasks \ {t} : root'[u] = root[u],
         faults' \in [Tasks -> SUBSET {"build", "slack", "close", "report", "respond"}],
         \A u \in Tasks \ {t} : faults'[u] = faults[u],
         faults'[t] \cap {"build", "close"} = faults[t] \cap {"build", "close"},
         slack = "on" /\ "slack" \notin faults'[t] =>
            root'[t] = status /\ "slack" \notin faults[t],
         UNCHANGED <<slack, kind, cancel, open, verdict, outcome, tree, notified, strayed>>
  PROVE  Sound(t)
<1>1. DispatcherTypeOK'
  BY DEF DispatcherTypeOK, Labels
<1>2. Confined(t)
  BY DEF DispatcherTypeOK, Confined
<1>3. KindInv(t)' /\ OpenInv(t)' /\ VerdictInv(t)'
  BY DEF DispatcherTypeOK, TaskInv, KindInv, OpenInv, VerdictInv, Stages
<1>4. ThreadInv(t)'
  BY DEF DispatcherTypeOK, TaskInv, VerdictInv, ThreadInv, Stages, RootTellsTheOutcome
<1> QED
  BY <1>1, <1>2, <1>3, <1>4 DEF Sound, TaskInv

\* What the three notices do to the message.
LEMMA UpdateSound ==
  ASSUME DispatcherTypeOK, NEW t \in Tasks, TaskInv(t),
         CompleteUpdate(t) \/ FailedUpdate(t) \/ CancelledUpdate(t)
  PROVE  Sound(t)
<1>1. PICK status \in {"complete", "failed", "cancelled"} :
        /\ pc[t] = status
        /\ UNCHANGED <<slack, kind, cancel, open, verdict, outcome, tree, notified, strayed>>
        /\ \/ /\ HasRoot(t)
              /\ \E o \in Answers, label \in {"summary", "close"} :
                    /\ Show(t, o, status) /\ NoteFault(t, o)
                    /\ pc' = [pc EXCEPT ![t] = label]
           \/ /\ ~HasRoot(t) /\ pc' = [pc EXCEPT ![t] = "summary"]
              /\ UNCHANGED <<root, faults>>
  <2>1. CASE CompleteUpdate(t)
    BY <2>1 DEF CompleteUpdate, At, Goto
  <2>2. CASE FailedUpdate(t)
    BY <2>2 DEF FailedUpdate, At, Goto
  <2>3. CASE CancelledUpdate(t)
    BY <2>3 DEF CancelledUpdate, At, Goto
  <2> QED
    BY <2>1, <2>2, <2>3
<1>2. CASE HasRoot(t)
  <2>1. PICK o \in Answers, label \in {"summary", "close"} :
          /\ Show(t, o, status) /\ NoteFault(t, o) /\ pc' = [pc EXCEPT ![t] = label]
    BY <1>1, <1>2
  <2>2. notified[t] = t
    BY <1>2 DEF HasRoot, NotifierOf, TaskInv, ThreadInv
  <2>3. /\ root' \in [Tasks -> {"none", "starting", "complete", "failed", "cancelled"}]
        /\ \A u \in Tasks \ {t} : root'[u] = root[u]
        /\ o = "ok" => root'[t] = status
    BY <2>1, <2>2, ShowFacts
  <2>4. /\ faults' \in [Tasks -> SUBSET {"build", "slack", "close", "report", "respond"}]
        /\ \A u \in Tasks \ {t} : faults'[u] = faults[u]
        /\ faults'[t] \cap {"build", "close"} = faults[t] \cap {"build", "close"}
        /\ "slack" \notin faults'[t] => o = "ok" /\ faults'[t] = faults[t]
    BY <2>1, NoteFacts
  <2>5. "slack" \notin faults'[t] => root'[t] = status /\ "slack" \notin faults[t]
    BY <2>3, <2>4
  <2> QED
    BY <1>1, <2>1, <2>3, <2>4, <2>5, NoticeSound
<1>3. CASE ~HasRoot(t)
  <2>1. ~(slack = "on" /\ "slack" \notin faults[t])
    BY <1>1, <1>3 DEF HasRoot, NotifierOf, TaskInv, ThreadInv, Stages
  <2>2. /\ root' \in [Tasks -> {"none", "starting", "complete", "failed", "cancelled"}]
        /\ faults' \in [Tasks -> SUBSET {"build", "slack", "close", "report", "respond"}]
        /\ root' = root /\ faults' = faults
    BY <1>1, <1>3 DEF DispatcherTypeOK
  <2> QED
    BY <1>1, <1>3, <2>1, <2>2, NoticeSound
<1> QED
  BY <1>2, <1>3

\* The reply that ends a notice.
LEMMA SummarySound ==
  ASSUME DispatcherTypeOK, NEW t \in Tasks, TaskInv(t), Summary(t)
  PROVE  Sound(t)
<1>1. PICK o \in Answers : Reply(t, o) /\ NoteFault(t, o)
  BY DEF Summary
<1>2. /\ pc[t] = "summary" /\ pc' = [pc EXCEPT ![t] = "close"]
      /\ UNCHANGED <<slack, kind, cancel, open, verdict, outcome, tree, notified, root>>
  BY DEF Summary, At, Goto
<1>3. strayed' = strayed
  BY <1>1, ReplyFacts
<1>4. /\ faults' \in [Tasks -> SUBSET {"build", "slack", "close", "report", "respond"}]
      /\ \A u \in Tasks \ {t} : faults'[u] = faults[u]
      /\ faults'[t] \cap {"build", "close"} = faults[t] \cap {"build", "close"}
      /\ "slack" \notin faults'[t] => o = "ok" /\ faults'[t] = faults[t]
  BY <1>1, NoteFacts
<1>5. DispatcherTypeOK'
  BY <1>2, <1>3, <1>4 DEF DispatcherTypeOK, Labels
<1>6. Confined(t)
  BY <1>2, <1>3, <1>4 DEF DispatcherTypeOK, Confined
<1>7. TaskInv(t)'
  BY <1>2, <1>4 DEF DispatcherTypeOK, TaskInv, KindInv, OpenInv, VerdictInv,
     ThreadInv, Stages, RootTellsTheOutcome
<1> QED
  BY <1>5, <1>6, <1>7 DEF Sound

\* A close(): what is left to close is shorter, and after the last of them
\* there is nothing.
LEMMA CloseSound ==
  ASSUME DispatcherTypeOK, NEW t \in Tasks, TaskInv(t), Close(t)
  PROVE  Sound(t)
<1>1. /\ pc[t] = "close" /\ open[t] # <<>> /\ open[t] \in Seq(Resources)
      /\ kind[t] \in {"query", "pipeline", "quiet"}
      /\ UNCHANGED <<slack, kind, cancel, verdict, tree, slackVars>>
  BY DEF Close, At, DispatcherTypeOK, TaskInv, KindInv, OpenInv
<1>2. CASE /\ open' = [open EXCEPT ![t] = Tail(@)]
           /\ IF Len(open[t]) > 1 THEN UNCHANGED <<pc, outcome>> ELSE AfterClose(t)
           /\ UNCHANGED faults
  <2>1. /\ Tail(open[t]) \in Seq(Resources)
        /\ Tail(open[t]) = <<>> <=> ~(Len(open[t]) > 1)
    BY <1>1, TailFacts
  <2>2. /\ open' \in [Tasks -> Seq(Resources)] /\ open'[t] = Tail(open[t])
        /\ \A u \in Tasks \ {t} : open'[u] = open[u]
    BY <1>2, <2>1 DEF DispatcherTypeOK
  <2>3. /\ pc' \in [Tasks -> Labels]
        /\ outcome' \in [Tasks -> {"none", "returned", "raised", "cancelled"}]
        /\ \A u \in Tasks \ {t} : pc'[u] = pc[u] /\ outcome'[u] = outcome[u]
        /\ \/ pc'[t] = "close" /\ Len(open[t]) > 1
           \/ ~(Len(open[t]) > 1) /\ pc'[t] \in {"respond", "report"}
           \/ ~(Len(open[t]) > 1) /\ pc'[t] = "done" /\ outcome'[t] # "none"
    <3>1. CASE Len(open[t]) > 1
      BY <1>1, <1>2, <3>1 DEF DispatcherTypeOK
    <3>2. CASE ~(Len(open[t]) > 1)
      <4>1. /\ pc \in [Tasks -> Labels]
            /\ outcome \in [Tasks -> {"none", "returned", "raised", "cancelled"}]
            /\ {"done", "respond", "report"} \subseteq Labels
        BY DEF DispatcherTypeOK, Labels
      <4>2. \/ outcome[t] # "none" /\ pc' = [pc EXCEPT ![t] = "done"] /\ outcome' = outcome
            \/ /\ \E label \in {"respond", "report"} : pc' = [pc EXCEPT ![t] = label]
               /\ outcome' = outcome
            \/ /\ pc' = [pc EXCEPT ![t] = "done"]
               /\ outcome' = [outcome EXCEPT ![t] = "returned"]
        BY <1>1, <1>2, <3>2 DEF AfterClose, Goto, Finish
      <4> QED
        BY <3>2, <4>1, <4>2
    <3> QED
      BY <3>1, <3>2
  <2>4. DispatcherTypeOK'
    BY <1>1, <1>2, <2>2, <2>3 DEF DispatcherTypeOK, slackVars
  <2>5. Confined(t)
    BY <1>1, <1>2, <2>2, <2>3 DEF slackVars, Confined
  <2>6. KindInv(t)' /\ OpenInv(t)' /\ VerdictInv(t)'
    BY <1>1, <1>2, <2>1, <2>2, <2>3 DEF TaskInv, KindInv, OpenInv, VerdictInv, Stages
  <2>7. ThreadInv(t)'
    BY <1>1, <1>2, <2>3 DEF slackVars, TaskInv, ThreadInv, Stages, RootTellsTheOutcome
  <2> QED
    BY <2>4, <2>5, <2>6, <2>7 DEF Sound, TaskInv
<1>3. CASE Finish(t, "raised") /\ Fault(t, "close") /\ UNCHANGED open
  <2>1. /\ faults' \in [Tasks -> SUBSET {"build", "slack", "close", "report", "respond"}]
        /\ \A u \in Tasks \ {t} : faults'[u] = faults[u]
        /\ faults'[t] = faults[t] \cup {"close"}
    BY <1>3, FaultFacts
  <2>2. pc' = [pc EXCEPT ![t] = "done"] /\ outcome' = [outcome EXCEPT ![t] = "raised"]
    BY <1>3 DEF Finish, Goto
  <2>3. DispatcherTypeOK'
    BY <1>1, <1>3, <2>1, <2>2 DEF DispatcherTypeOK, slackVars, Labels
  <2>4. Confined(t)
    BY <1>1, <1>3, <2>1, <2>2 DEF DispatcherTypeOK, slackVars, Confined
  <2>5. TaskInv(t)'
    BY <1>1, <1>3, <2>1, <2>2 DEF DispatcherTypeOK, slackVars, TaskInv, KindInv, OpenInv,
       VerdictInv, ThreadInv, Stages, RootTellsTheOutcome
  <2> QED
    BY <2>3, <2>4, <2>5 DEF Sound
<1> QED
  BY <1>2, <1>3 DEF Close

\* The report, the response, and a cancellation before the constructors: nothing
\* is open.
LEMMA LateSound ==
  ASSUME DispatcherTypeOK, NEW t \in Tasks, TaskInv(t),
         pc[t] \in {"build", "report", "post", "upload", "uploadMd", "reportFailed", "respond"},
         NEW label \in {"post", "upload", "uploadMd", "reportFailed", "done"},
         pc[t] = "build" => label = "done",
         pc' = [pc EXCEPT ![t] = label],
         outcome' \in [Tasks -> {"none", "returned", "raised", "cancelled"}],
         \A u \in Tasks \ {t} : outcome'[u] = outcome[u],
         label = "done" => outcome'[t] # "none",
         faults' \in [Tasks -> SUBSET {"build", "slack", "close", "report", "respond"}],
         \A u \in Tasks \ {t} : faults'[u] = faults[u],
         faults[t] \subseteq faults'[t],
         cancel' \in [Tasks -> BOOLEAN],
         UNCHANGED <<slack, kind, open, verdict, tree, slackVars>>
  PROVE  Sound(t)
<1>1. DispatcherTypeOK'
  BY DEF DispatcherTypeOK, slackVars, Labels
<1>2. Confined(t)
  BY DEF DispatcherTypeOK, slackVars, Confined
<1>3. KindInv(t)' /\ OpenInv(t)' /\ VerdictInv(t)'
  BY DEF DispatcherTypeOK, TaskInv, KindInv, OpenInv, VerdictInv, Stages
<1>4. ThreadInv(t)'
  BY DEF DispatcherTypeOK, slackVars, TaskInv, ThreadInv, Stages, RootTellsTheOutcome
<1> QED
  BY <1>1, <1>2, <1>3, <1>4 DEF Sound, TaskInv

\* A cancellation is delivered once.
LEMMA DeliveredType ==
  ASSUME DispatcherTypeOK, NEW t \in Tasks, Delivered(t)
  PROVE  cancel' \in [Tasks -> BOOLEAN]
<1>1. cancel \in [Tasks -> BOOLEAN] /\ FALSE \in BOOLEAN
  BY DEF DispatcherTypeOK
<1> QED
  BY <1>1 DEF Delivered

\* The steps of the report and of the response, one of which may be cancelled.
LEMMA ReportSound ==
  ASSUME DispatcherTypeOK, NEW t \in Tasks, TaskInv(t),
         \/ MakeReport(t) \/ PostReport(t) \/ Upload(t) \/ ReportFailed(t)
         \/ Respond(t) \/ CancelElsewhere(t)
  PROVE  Sound(t)
<1>1. cancel' \in [Tasks -> BOOLEAN]
  <2>1. CASE CancelElsewhere(t)
    BY <2>1, DeliveredType DEF CancelElsewhere
  <2>2. CASE ~CancelElsewhere(t)
    <3>1. cancel' = cancel
      BY <2>2 DEF MakeReport, PostReport, Upload, ReportFailed, Respond
    <3> QED
      BY <3>1 DEF DispatcherTypeOK
  <2> QED
    BY <2>1, <2>2
<1>2. /\ pc[t] \in {"build", "report", "post", "upload", "uploadMd", "reportFailed", "respond"}
      /\ UNCHANGED <<slack, kind, open, verdict, tree, slackVars>>
  <2>1. CASE ReportFailed(t)
    <3>1. PICK o \in Answers : Reply(t, o)
      BY <2>1 DEF ReportFailed
    <3>2. strayed' = strayed
      BY <3>1, ReplyFacts
    <3> QED
      BY <2>1, <3>2 DEF ReportFailed, At, slackVars
  <2>2. CASE ~ReportFailed(t)
    BY <2>2 DEF MakeReport, PostReport, Upload, Respond, CancelElsewhere, At
  <2> QED
    BY <2>1, <2>2
<1>3. \/ faults' = faults
      \/ \E what \in {"build", "slack", "close", "report", "respond"} : Fault(t, what)
  BY DEF MakeReport, PostReport, Upload, ReportFailed, Respond, CancelElsewhere, NoteFault
<1>4. \/ \E how \in {"returned", "raised", "cancelled"} : Finish(t, how)
      \/ /\ \E label \in {"post", "upload", "uploadMd", "reportFailed"} : Goto(t, label)
         /\ UNCHANGED outcome /\ pc[t] # "build"
  BY DEF MakeReport, PostReport, Upload, ReportFailed, Respond, CancelElsewhere, At
<1>5. /\ faults' \in [Tasks -> SUBSET {"build", "slack", "close", "report", "respond"}]
      /\ \A u \in Tasks \ {t} : faults'[u] = faults[u]
      /\ faults[t] \subseteq faults'[t]
  <2>1. CASE faults' = faults
    BY <2>1 DEF DispatcherTypeOK
  <2>2. CASE \E what \in {"build", "slack", "close", "report", "respond"} : Fault(t, what)
    BY <2>2, FaultFacts
  <2> QED
    BY <1>3, <2>1, <2>2
<1>6. PICK label \in {"post", "upload", "uploadMd", "reportFailed", "done"} :
        /\ pc' = [pc EXCEPT ![t] = label]
        /\ outcome' \in [Tasks -> {"none", "returned", "raised", "cancelled"}]
        /\ \A u \in Tasks \ {t} : outcome'[u] = outcome[u]
        /\ label = "done" => outcome'[t] # "none"
        /\ pc[t] = "build" => label = "done"
  <2>1. CASE \E how \in {"returned", "raised", "cancelled"} : Finish(t, how)
    <3>1. PICK how \in {"returned", "raised", "cancelled"} :
            /\ pc' = [pc EXCEPT ![t] = "done"]
            /\ outcome' = [outcome EXCEPT ![t] = how]
      BY <2>1 DEF Finish, Goto
    <3>2. /\ outcome' \in [Tasks -> {"none", "returned", "raised", "cancelled"}]
          /\ \A u \in Tasks \ {t} : outcome'[u] = outcome[u]
          /\ outcome'[t] # "none"
      BY <3>1 DEF DispatcherTypeOK
    <3> QED
      BY <3>1, <3>2
  <2>2. CASE /\ \E label \in {"post", "upload", "uploadMd", "reportFailed"} : Goto(t, label)
             /\ UNCHANGED outcome /\ pc[t] # "build"
    BY <2>2 DEF Goto, DispatcherTypeOK
  <2> QED
    BY <1>4, <2>1, <2>2
<1> QED
  BY <1>1, <1>2, <1>5, <1>6, LateSound

\* The search: what it opened is closed next.
LEMMA SearchSound ==
  ASSUME DispatcherTypeOK, NEW t \in Tasks, TaskInv(t), Search(t)
  PROVE  Sound(t)
<1>1. /\ pc[t] = "search" /\ pc' = [pc EXCEPT ![t] = "close"]
      /\ UNCHANGED <<slack, kind, cancel, open, verdict, outcome, tree, slackVars, faults>>
  BY DEF Search, At, Goto
<1>2. DispatcherTypeOK'
  BY <1>1 DEF DispatcherTypeOK, slackVars, Labels
<1>3. Confined(t)
  BY <1>1 DEF DispatcherTypeOK, slackVars, Confined
<1>4. TaskInv(t)'
  BY <1>1 DEF DispatcherTypeOK, slackVars, TaskInv, KindInv, OpenInv, VerdictInv,
     ThreadInv, Stages, RootTellsTheOutcome
<1> QED
  BY <1>2, <1>3, <1>4 DEF Sound

\* Cancelled in the first message, in a closing notice or in the search: the
\* finally block closes.
LEMMA AbandonSound ==
  ASSUME DispatcherTypeOK, NEW t \in Tasks, TaskInv(t),
         pc[t] \in {"start", "complete", "failed", "summary", "search"},
         pc' = [pc EXCEPT ![t] = "close"],
         outcome' = [outcome EXCEPT ![t] = "cancelled"],
         root' \in [Tasks -> {"none", "starting", "complete", "failed", "cancelled"}],
         \A u \in Tasks \ {t} : root'[u] = root[u],
         faults' \in [Tasks -> SUBSET {"build", "slack", "close", "report", "respond"}],
         \A u \in Tasks \ {t} : faults'[u] = faults[u],
         \/ faults'[t] = faults[t] \cup {"slack"}
         \/ pc[t] = "search" /\ faults' = faults /\ root' = root,
         cancel' \in [Tasks -> BOOLEAN],
         UNCHANGED <<slack, kind, open, verdict, tree, notified, strayed>>
  PROVE  Sound(t)
<1>1. DispatcherTypeOK'
  BY DEF DispatcherTypeOK, Labels
<1>2. Confined(t)
  BY DEF DispatcherTypeOK, Confined
<1>3. KindInv(t)' /\ OpenInv(t)' /\ VerdictInv(t)'
  BY DEF DispatcherTypeOK, TaskInv, KindInv, OpenInv, VerdictInv, Stages
<1>4. ThreadInv(t)'
  BY DEF DispatcherTypeOK, TaskInv, ThreadInv, Stages, RootTellsTheOutcome
<1> QED
  BY <1>1, <1>2, <1>3, <1>4 DEF Sound, TaskInv

\* Cancellation, before the last close().
LEMMA CancelSound ==
  ASSUME DispatcherTypeOK, NEW t \in Tasks, TaskInv(t),
         CancelStart(t) \/ CancelNotice(t) \/ CancelSearch(t)
  PROVE  Sound(t)
<1>1. cancel' \in [Tasks -> BOOLEAN]
  BY DeliveredType DEF CancelStart, CancelNotice, CancelSearch
<1>2. /\ pc' = [pc EXCEPT ![t] = "close"]
      /\ outcome' = [outcome EXCEPT ![t] = "cancelled"]
      /\ UNCHANGED <<slack, kind, open, verdict, tree, notified>>
  BY DEF CancelStart, CancelNotice, CancelSearch, Goto, slackVars
<1>3. /\ faults \in [Tasks -> SUBSET {"build", "slack", "close", "report", "respond"}]
      /\ root \in [Tasks -> {"none", "starting", "complete", "failed", "cancelled"}]
  BY DEF DispatcherTypeOK
<1>4. CASE CancelSearch(t)
  <2>1. pc[t] = "search" /\ faults' = faults /\ root' = root /\ strayed' = strayed
    BY <1>4 DEF CancelSearch, slackVars
  <2> QED
    BY <1>1, <1>2, <1>3, <2>1, AbandonSound
<1>5. ASSUME CancelStart(t) \/ CancelNotice(t), Fault(t, "slack")
      PROVE  /\ faults' \in [Tasks -> SUBSET {"build", "slack", "close", "report", "respond"}]
             /\ \A u \in Tasks \ {t} : faults'[u] = faults[u]
             /\ faults'[t] = faults[t] \cup {"slack"}
  BY <1>5, FaultFacts
<1>6. CASE CancelStart(t)
  <2>1. /\ pc[t] = "start" /\ Fault(t, "slack") /\ strayed' = strayed
        /\ root' = root \/ root' = [root EXCEPT ![t] = "starting"]
    BY <1>6 DEF CancelStart
  <2>2. /\ root' \in [Tasks -> {"none", "starting", "complete", "failed", "cancelled"}]
        /\ \A u \in Tasks \ {t} : root'[u] = root[u]
    BY <1>3, <2>1
  <2> QED
    BY <1>1, <1>2, <1>5, <1>6, <2>1, <2>2, AbandonSound
<1>7. CASE CancelNotice(t)
  <2>1. pc[t] \in {"complete", "failed", "summary"} /\ Fault(t, "slack")
    BY <1>7 DEF CancelNotice
  <2>2. /\ root' \in [Tasks -> {"none", "starting", "complete", "failed", "cancelled"}]
        /\ \A u \in Tasks \ {t} : root'[u] = root[u]
        /\ strayed' = strayed
    <3>1. PICK o \in {"lost", "refused"} :
            IF pc[t] # "summary" /\ HasRoot(t)
            THEN Show(t, o, pc[t]) /\ UNCHANGED strayed
            ELSE Reply(t, o) /\ UNCHANGED root
      BY <1>7 DEF CancelNotice
    <3>2. o \in Answers
      BY <3>1 DEF Answers
    <3>3. CASE pc[t] # "summary" /\ HasRoot(t)
      <4>1. notified[t] = t
        BY <3>3 DEF HasRoot, NotifierOf, TaskInv, ThreadInv
      <4>2. pc[t] \in {"complete", "failed", "cancelled"}
        BY <2>1, <3>3
      <4> QED
        BY <3>1, <3>2, <3>3, <4>1, <4>2, ShowFacts
    <3>4. CASE ~(pc[t] # "summary" /\ HasRoot(t))
      BY <1>3, <3>1, <3>2, <3>4, ReplyFacts
    <3> QED
      BY <3>3, <3>4
  <2> QED
    BY <1>1, <1>2, <1>5, <1>7, <2>1, <2>2, AbandonSound
<1> QED
  BY <1>4, <1>6, <1>7

\* Cancelled in the stages: with a notice; in a close(): without.
LEMMA CancelLateSound ==
  ASSUME DispatcherTypeOK, NEW t \in Tasks, TaskInv(t),
         CancelStages(t) \/ CancelClose(t)
  PROVE  Sound(t)
<1>1. cancel' \in [Tasks -> BOOLEAN]
  BY DeliveredType DEF CancelStages, CancelClose
<1>2. CASE CancelStages(t)
  <2>1. /\ pc[t] \in {"sync", "syncNotice", "stages"} /\ Closing(t, "cancelled")
        /\ UNCHANGED <<slack, kind, open, tree, slackVars, faults>>
    BY <1>2 DEF CancelStages
  <2> QED
    BY <1>1, <2>1, ClosingSound
<1>3. CASE CancelClose(t)
  <2>1. /\ pc[t] = "close" /\ pc' = [pc EXCEPT ![t] = "done"]
        /\ outcome' = [outcome EXCEPT ![t] = "cancelled"]
        /\ UNCHANGED <<slack, kind, open, verdict, tree, slackVars>>
    BY <1>3 DEF CancelClose, Finish, Goto
  <2>2. /\ faults' \in [Tasks -> SUBSET {"build", "slack", "close", "report", "respond"}]
        /\ \A u \in Tasks \ {t} : faults'[u] = faults[u]
        /\ faults'[t] = faults[t] \cup {"close"}
    BY <1>3, FaultFacts DEF CancelClose
  <2>3. DispatcherTypeOK'
    BY <1>1, <2>1, <2>2 DEF DispatcherTypeOK, slackVars, Labels
  <2>4. Confined(t)
    BY <2>1, <2>2 DEF DispatcherTypeOK, slackVars, Confined
  <2>5. TaskInv(t)'
    BY <2>1, <2>2 DEF DispatcherTypeOK, slackVars, TaskInv, KindInv, OpenInv,
       VerdictInv, ThreadInv, Stages, RootTellsTheOutcome
  <2> QED
    BY <2>3, <2>4, <2>5 DEF Sound
<1> QED
  BY <1>2, <1>3

\* A post about progress changes nothing, also when it comes late.
LEMMA ProgressSound ==
  ASSUME DispatcherTypeOK, NEW t \in Tasks, TaskInv(t), Progress(t)
  PROVE  Sound(t)
<1>1. strayed' = strayed
  <2>1. PICK o \in Answers : Reply(t, o)
    BY DEF Progress
  <2> QED
    BY <2>1, ReplyFacts
<1>2. UNCHANGED <<slack, taskVars, notified, root, faults>>
  BY DEF Progress
<1>3. pc[t] # "none"
  BY DEF Progress, At, TaskInv, VerdictInv
<1>4. DispatcherTypeOK'
  BY <1>1, <1>2 DEF DispatcherTypeOK, taskVars
<1>5. Confined(t)
  BY <1>1, <1>2, <1>3 DEF taskVars, Confined
<1>6. TaskInv(t)'
  BY <1>2 DEF taskVars, TaskInv, KindInv, OpenInv, VerdictInv, ThreadInv,
     RootTellsTheOutcome
<1> QED
  BY <1>4, <1>5, <1>6 DEF Sound

\* The constructors: they open everything there is to close, or one of them raises
\* after those before it.
LEMMA BuildSound ==
  ASSUME DispatcherTypeOK, NEW t \in Tasks, TaskInv(t),
         NEW resources \in Seq(Resources) \ {<<>>},
         NEW label \in {"search", "start", "sync"}, Build(t, resources, label),
         label = "search" => kind[t] = "query",
         label # "search" => kind[t] \in {"pipeline", "quiet"},
         label = "sync" => slack # "on"
  PROVE  Sound(t)
<1>1. /\ pc[t] = "build" /\ UNCHANGED <<slack, kind, cancel, verdict, tree, slackVars>>
      /\ kind[t] # "none" /\ verdict[t] = "none"
  BY DEF Build, At, TaskInv, VerdictInv
<1>2. CASE /\ open' = [open EXCEPT ![t] = resources] /\ Goto(t, label)
           /\ UNCHANGED <<outcome, faults>>
  <2>1. DispatcherTypeOK'
    BY <1>1, <1>2 DEF Goto, DispatcherTypeOK, slackVars, Labels
  <2>2. Confined(t)
    BY <1>1, <1>2 DEF Goto, DispatcherTypeOK, slackVars, Confined
  <2>3. TaskInv(t)'
    BY <1>1, <1>2 DEF Goto, DispatcherTypeOK, slackVars, TaskInv, KindInv, OpenInv,
       VerdictInv, ThreadInv, Stages, RootTellsTheOutcome
  <2> QED
    BY <2>1, <2>2, <2>3 DEF Sound
<1>3. CASE /\ \E n \in 0..Len(resources) :
                 open' = [open EXCEPT ![t] = SubSeq(resources, 1, n)]
           /\ Finish(t, "raised") /\ Fault(t, "build")
  <2>1. PICK left \in Seq(Resources) : open' = [open EXCEPT ![t] = left]
    <3>1. PICK n \in 0..Len(resources) :
             open' = [open EXCEPT ![t] = SubSeq(resources, 1, n)]
      BY <1>3
    <3>2. \A i \in 1..n : resources[i] \in Resources
      BY <3>1
    <3>3. SubSeq(resources, 1, n) \in Seq(Resources)
      BY <3>1, <3>2, SubSeqProperties
    <3> QED
      BY <3>1, <3>3
  <2>2. /\ faults' \in [Tasks -> SUBSET {"build", "slack", "close", "report", "respond"}]
        /\ \A u \in Tasks \ {t} : faults'[u] = faults[u]
        /\ faults'[t] = faults[t] \cup {"build"}
    BY <1>3, FaultFacts
  <2>3. pc' = [pc EXCEPT ![t] = "done"] /\ outcome' = [outcome EXCEPT ![t] = "raised"]
    BY <1>3 DEF Finish, Goto
  <2>4. DispatcherTypeOK'
    BY <1>1, <2>1, <2>2, <2>3 DEF DispatcherTypeOK, slackVars, Labels
  <2>5. Confined(t)
    BY <1>1, <2>1, <2>2, <2>3 DEF DispatcherTypeOK, slackVars, Confined
  <2>6. TaskInv(t)'
    BY <1>1, <2>1, <2>2, <2>3 DEF DispatcherTypeOK, slackVars, TaskInv, KindInv, OpenInv,
       VerdictInv, ThreadInv, Stages, RootTellsTheOutcome
  <2> QED
    BY <2>4, <2>5, <2>6 DEF Sound
<1> QED
  BY <1>2, <1>3 DEF Build

\* Whatever step it is.
LEMMA StepSound ==
  ASSUME DispatcherTypeOK, NEW t \in Tasks, TaskInv(t), Step(t) \/ Progress(t)
  PROVE  Sound(t)
<1>1. CASE BuildPipeline(t)
  <2>1. PICK label \in {"start", "sync"} :
          /\ Build(t, PipelineResources, label)
          /\ label = "sync" => slack # "on"
    BY <1>1 DEF BuildPipeline
  <2> QED
    BY <1>1, <2>1, BuildSound DEF BuildPipeline
<1>2. CASE BuildQuery(t)
  BY <1>2, BuildSound DEF BuildQuery
<1> QED
  BY <1>1, <1>2, StartSound, SyncSound, SyncNoticeSound, StagesSound, UpdateSound,
     SummarySound, CloseSound, ReportSound, SearchSound, CancelSound, CancelLateSound,
     ProgressSound DEF Step

\* A task begins with nothing open.
LEMMA BeginSound ==
  ASSUME DispatcherTypeOK, NEW t \in Tasks, TaskInv(t), pc[t] = "none",
         kind[t] # "none", Begin(t)
  PROVE  Sound(t)
<1>1. kind[t] \in {"query", "pipeline", "quiet", "report"}
  BY DEF DispatcherTypeOK
<1>2. PICK label \in {"build", "report"} :
        /\ pc' = [pc EXCEPT ![t] = label]
        /\ label = "build" => kind[t] \in {"query", "pipeline", "quiet"}
        /\ UNCHANGED <<slack, kind, cancel, open, verdict, outcome, tree, slackVars,
                       faults>>
  BY <1>1 DEF Begin, BeginQuery, BeginPipeline, BeginReport, Goto
<1>3. DispatcherTypeOK'
  BY <1>2 DEF DispatcherTypeOK, slackVars, Labels
<1>4. Confined(t)
  BY <1>2 DEF DispatcherTypeOK, slackVars, Confined
<1>5. TaskInv(t)'
  BY <1>2 DEF DispatcherTypeOK, slackVars, TaskInv, KindInv, OpenInv, VerdictInv,
     ThreadInv, Stages, RootTellsTheOutcome
<1> QED
  BY <1>3, <1>4, <1>5 DEF Sound

-----------------------------------------------------------------------------
(* The process                                                             *)

\* A step of t is a step of something that runs; progress changes no label.
LEMMA StepRuns ==
  ASSUME NEW t \in Tasks, TaskInv(t), Step(t) \/ Progress(t)
  PROVE  pc[t] # "none" /\ (Running(t) \/ pc' = pc)
<1>1. CASE Step(t)
  <2>1. pc[t] \notin {"none", "done"}
    BY <1>1 DEF Step, BuildPipeline, BuildQuery, Build, PipelineStart, SyncRepo, SyncNotice, RunStages, CompleteUpdate,
       FailedUpdate, CancelledUpdate, Summary, Close, MakeReport, PostReport, Upload,
       ReportFailed, Search, Respond, CancelStart, CancelStages, CancelNotice,
       CancelSearch, CancelClose, CancelElsewhere, At
  <2> QED
    BY <2>1 DEF Running
<1>2. CASE Progress(t)
  BY <1>2 DEF Progress, At, taskVars, TaskInv, VerdictInv
<1> QED
  BY <1>1, <1>2

\* The other executions keep their invariant.
LEMMA OthersSound ==
  ASSUME NEW t \in Tasks, Confined(t), NEW u \in Tasks \ {t}, TaskInv(u)
  PROVE  TaskInv(u)'
  BY DEF Confined, TaskInv, KindInv, OpenInv, VerdictInv, ThreadInv, RootTellsTheOutcome

\* A step of the process that only enqueues, or calls cancel(), leaves the
\* executions as they are.
LEMMA DispatchKept ==
  ASSUME DispatcherTypeOK, \A t \in Tasks : TaskInv(t), strayed = {},
         kind' \in [Tasks -> {"none", "query", "pipeline", "quiet", "report"}],
         \A t \in Tasks : kind'[t] = kind[t] \/ kind[t] = "none",
         cancel' \in [Tasks -> BOOLEAN],
         UNCHANGED <<slack, pc, open, verdict, outcome, tree, slackVars, faults>>
  PROVE  DispatcherTypeOK' /\ (\A t \in Tasks : TaskInv(t)') /\ strayed' = {}
<1>1. DispatcherTypeOK'
  BY DEF DispatcherTypeOK, slackVars
<1>2. ASSUME NEW t \in Tasks PROVE TaskInv(t)'
  <2>1. KindInv(t)'
    BY DEF TaskInv, KindInv, Stages
  <2>2. OpenInv(t)' /\ VerdictInv(t)'
    BY DEF TaskInv, OpenInv, VerdictInv
  <2>3. ThreadInv(t)'
    BY DEF TaskInv, ThreadInv, slackVars, RootTellsTheOutcome
  <2> QED
    BY <2>1, <2>2, <2>3 DEF TaskInv
<1> QED
  BY <1>1, <1>2 DEF slackVars

\* The types of what Service declares itself.
ServiceTypeOK ==
    /\ main \in {"boot", "connect", "serve", "cronStop", "join", "gather", "unwound",
                 "cleanup", "exit"}
    /\ cron \in {"none", "begin", "sleep", "notice", "ended", "died"}
    /\ notice \in CronTasks \cup {NoTask}
    /\ noticed \subseteq CronTasks
    /\ queue \in Seq(Tasks)
    /\ consumer \in {"none", "get", "run", "ended", "died"}
    /\ current \in Tasks \cup {NoTask}
    /\ interrupted \subseteq {"cron", "consumer"}
    /\ socket \in {"none", "open", "closed"}

\* The two halves of the type invariant.
LEMMA TypeSplit == TypeOK <=> DispatcherTypeOK /\ ServiceTypeOK
  BY DEF TypeOK, ServiceTypeOK

\* The same, of the state after a step.
LEMMA TypeSplitNext == TypeOK' <=> DispatcherTypeOK' /\ ServiceTypeOK'
  BY DEF TypeOK, ServiceTypeOK

\* What is queued afterwards, when a new task is.
LEMMA EnqueueInv ==
  ASSUME TypeOK, IInv, NEW t \in Tasks, kind[t] = "none",
         NEW what \in {"query", "pipeline", "quiet", "report"},
         queue' = Append(queue, t), kind' = [kind EXCEPT ![t] = what],
         UNCHANGED <<slack, pc, cancel, open, verdict, outcome, tree, slackVars, faults>>
  PROVE  /\ DispatcherTypeOK' /\ (\A u \in Tasks : TaskInv(u)') /\ strayed' = {}
         /\ queue' \in Seq(Tasks) /\ QueueInv'
         /\ kind'[t] = what /\ \A u \in Tasks \ {t} : kind'[u] = kind[u]
<1>1. /\ kind' \in [Tasks -> {"none", "query", "pipeline", "quiet", "report"}]
      /\ kind'[t] = what /\ \A u \in Tasks \ {t} : kind'[u] = kind[u]
      /\ cancel' \in [Tasks -> BOOLEAN]
  BY DEF TypeOK, DispatcherTypeOK
<1>2. DispatcherTypeOK' /\ (\A u \in Tasks : TaskInv(u)') /\ strayed' = {}
  BY <1>1, DispatchKept DEF TypeOK, IInv
<1>3. pc'[t] = "none"
  BY DEF IInv, TaskInv, KindInv
<1>4. /\ queue \in Seq(Tasks) /\ Len(queue) \in Nat
      /\ queue' \in Seq(Tasks) /\ Len(queue') = Len(queue) + 1
      /\ \A i \in 1..Len(queue) : queue'[i] = queue[i] /\ queue[i] \in Tasks
      /\ queue'[Len(queue) + 1] = t
  <2>1. queue \in Seq(Tasks)
    BY DEF TypeOK
  <2> QED
    BY <2>1, AppendFacts
<1>5. \A i \in 1..Len(queue) : /\ kind[queue[i]] # "none" /\ pc[queue[i]] = "none"
                               /\ queue[i] # t
  BY DEF IInv, QueueInv
<1>6. \A i \in 1..Len(queue') : i \in 1..Len(queue) \/ i = Len(queue) + 1
  BY <1>4
<1>7. \A i \in 1..Len(queue') : kind'[queue'[i]] # "none" /\ pc'[queue'[i]] = "none"
  BY <1>1, <1>3, <1>4, <1>5, <1>6
<1>8. ASSUME NEW i \in 1..Len(queue'), NEW j \in 1..Len(queue'), queue'[i] = queue'[j]
      PROVE  i = j
  <2>1. \A k, l \in 1..Len(queue) : queue[k] = queue[l] => k = l
    BY DEF IInv, QueueInv
  <2> QED
    BY <1>4, <1>5, <1>6, <1>8, <2>1
<1>9. ASSUME NEW u \in Tasks, kind'[u] # "none", pc'[u] = "none"
      PROVE  \E i \in 1..Len(queue') : queue'[i] = u
  <2>1. CASE u = t
    BY <1>4, <2>1
  <2>2. CASE u # t
    <3>1. PICK i \in 1..Len(queue) : queue[i] = u
      BY <1>1, <1>9, <2>2 DEF IInv, QueueInv
    <3> QED
      BY <1>4, <3>1
  <2> QED
    BY <2>1, <2>2
<1> QED
  BY <1>1, <1>2, <1>4, <1>7, <1>8, <1>9 DEF QueueInv

\* The shutdown, while neither main() nor the socket moves: who has ended does
\* not begin again.
LEMMA MainKept ==
  ASSUME ServiceTypeOK, MainInv, UNCHANGED <<main, interrupted, socket>>,
         cron' = cron \/ cron \in {"begin", "sleep", "notice"},
         consumer' = consumer \/ consumer \in {"get", "run"},
         consumer # "get" => Background' \subseteq Background
  PROVE  MainInv'
<1>1. main' = "boot" => cron' = "none" /\ consumer' = "none"
  BY DEF MainInv
<1>2. /\ main' \in {"boot", "connect", "serve"} => interrupted' = {}
      /\ main' \in {"boot", "serve", "cronStop", "join", "gather"} => socket' = "none"
  BY DEF MainInv
<1>3. /\ main' \in {"join", "gather"} => cron' = "ended"
      /\ main' = "gather" => consumer' = "ended"
  BY DEF MainInv
<1>4. NothingLeftRunning'
  <2> SUFFICES ASSUME main' = "unwound", "cron" \in interrupted', cron' # "died",
                      consumer' # "died"
               PROVE  /\ cron' = "ended" /\ consumer' = "ended"
                      /\ Background' = {} /\ socket' = "none"
    BY DEF NothingLeftRunning
  <2>1. main = "unwound" /\ "cron" \in interrupted /\ cron # "died" /\ consumer # "died"
    OBVIOUS
  <2>2. cron = "ended" /\ consumer = "ended" /\ Background = {} /\ socket = "none"
    BY <2>1 DEF MainInv, NothingLeftRunning
  <2> QED
    BY <2>2
<1> QED
  BY <1>1, <1>2, <1>3, <1>4 DEF MainInv

\* At the start there is nothing.
LEMMA InitInv == Init => TypeOK /\ IInv
<1> SUFFICES ASSUME Init PROVE TypeOK /\ IInv
  OBVIOUS
<1>1. DispatcherTypeOK
  <2>1. <<>> \in Seq(Resources) /\ FALSE \in BOOLEAN
    OBVIOUS
  <2>2. cancel \in [Tasks -> BOOLEAN]
    BY <2>1 DEF Init, DispatcherInit
  <2> QED
    BY <2>1, <2>2 DEF Init, DispatcherInit, DispatcherTypeOK, Labels
<1>2. ServiceTypeOK
  BY DEF Init, ServiceTypeOK
<1>3. \A t \in Tasks : TaskInv(t)
  BY DEF Init, DispatcherInit, TaskInv, KindInv, OpenInv, VerdictInv, ThreadInv, Stages,
     RootTellsTheOutcome
<1>4. QueueInv
  <2>1. Len(queue) = 0 /\ \A t \in Tasks : kind[t] = "none"
    BY DEF Init, DispatcherInit
  <2> QED
    BY <2>1 DEF QueueInv
<1>5. ConsumerInv /\ CronInv /\ strayed = {}
  BY DEF Init, DispatcherInit, ConsumerInv, Running, CronInv
<1>6. MainInv
  BY DEF Init, MainInv, NothingLeftRunning
<1> QED
  BY <1>1, <1>2, <1>3, <1>4, <1>5, <1>6, TypeSplit DEF IInv

\* A step of an execution.
LEMMA ExecuteInv ==
  ASSUME TypeOK, IInv, NEW t \in Tasks, Execute(t)
  PROVE  TypeOK' /\ IInv'
<1>1. DispatcherTypeOK /\ ServiceTypeOK /\ TaskInv(t) /\ \A u \in Tasks : TaskInv(u)
  BY TypeSplit DEF IInv
<1>2. (Step(t) \/ Progress(t)) /\ UNCHANGED serviceVars
  BY DEF Execute
<1>3. DispatcherTypeOK' /\ TaskInv(t)' /\ Confined(t)
  BY <1>1, <1>2, StepSound DEF Sound
<1>4. pc[t] # "none" /\ (Running(t) \/ pc' = pc)
  BY <1>1, <1>2, StepRuns
<1>5. ServiceTypeOK'
  BY <1>1, <1>2 DEF ServiceTypeOK, serviceVars
<1>6. (\A u \in Tasks : TaskInv(u))' /\ strayed' = {}
  <2>1. ASSUME NEW u \in Tasks PROVE TaskInv(u)'
    <3>1. CASE u = t
      BY <1>3, <3>1
    <3>2. CASE u # t
      BY <1>1, <1>3, <3>2, OthersSound
    <3> QED
      BY <3>1, <3>2
  <2> QED
    BY <1>3, <2>1 DEF IInv, Confined
<1>7. QueueInv'
  <2>1. \A i \in 1..Len(queue) : queue[i] \in Tasks
    BY <1>1 DEF ServiceTypeOK
  <2>2. queue' = queue /\ kind' = kind /\ \A u \in Tasks \ {t} : pc'[u] = pc[u]
    BY <1>2, <1>3 DEF serviceVars, Confined
  <2>3. \A u \in Tasks : kind'[u] # "none" /\ pc'[u] = "none" =>
                            kind[u] # "none" /\ pc[u] = "none"
    BY <1>3, <2>2 DEF Confined
  <2> QED
    BY <1>4, <2>1, <2>2, <2>3 DEF IInv, QueueInv
<1>8. ConsumerInv'
  <2>1. \A u \in Tasks : Running(u)' => Running(u)
    BY <1>3, <1>4 DEF Running, Confined
  <2> QED
    BY <1>2, <1>3, <2>1 DEF IInv, ConsumerInv, Confined, serviceVars
<1>9. CronInv'
  BY <1>2, <1>3 DEF IInv, CronInv, Confined, serviceVars
<1>10. MainInv'
  <2>1. Background' \subseteq Background
    BY <1>3, <1>4 DEF Background, Running, Confined
  <2> QED
    BY <1>1, <1>2, <2>1, MainKept DEF IInv, serviceVars
<1> QED
  BY <1>3, <1>5, <1>6, <1>7, <1>8, <1>9, <1>10, TypeSplitNext DEF IInv

\* What a step that leaves the executions and the queue alone keeps.
LEMMA DispatchStill ==
  ASSUME TypeOK, IInv, UNCHANGED <<dispatchVars, queue>>
  PROVE  /\ DispatcherTypeOK' /\ (\A t \in Tasks : TaskInv(t))' /\ strayed' = {}
         /\ QueueInv' /\ Background' = Background
<1>1. cancel' \in [Tasks -> BOOLEAN]
  BY DEF dispatchVars, taskVars, TypeOK, DispatcherTypeOK
<1>2. DispatcherTypeOK' /\ (\A t \in Tasks : TaskInv(t)') /\ strayed' = {}
  BY <1>1, DispatchKept DEF dispatchVars, taskVars, slackVars, TypeOK, IInv, DispatcherTypeOK
<1>3. QueueInv' /\ Background' = Background
  BY DEF dispatchVars, taskVars, IInv, QueueInv, Background, Running
<1> QED
  BY <1>2, <1>3

\* The cron task plans, fires and ends.
LEMMA CronStepInv ==
  ASSUME TypeOK, IInv, CronPlan \/ CronFire \/ CronCancelled
  PROVE  TypeOK' /\ IInv'
<1>1. UNCHANGED <<dispatchVars, queue, main, consumer, current, interrupted, socket>>
  BY DEF CronPlan, CronFire, CronCancelled
<1>2. /\ DispatcherTypeOK' /\ (\A t \in Tasks : TaskInv(t))' /\ strayed' = {}
      /\ QueueInv' /\ Background' = Background
  BY <1>1, DispatchStill
<1>3. kind' = kind /\ pc' = pc
  BY <1>1 DEF dispatchVars, taskVars
<1>4. /\ ServiceTypeOK /\ cron \in {"begin", "sleep", "notice"}
      /\ CronInv /\ ConsumerInv /\ MainInv
  BY TypeSplit DEF IInv, CronPlan, CronFire, CronCancelled
<1>5. ServiceTypeOK' /\ CronInv'
  <2>1. CASE CronPlan
    BY <1>1, <1>3, <1>4, <2>1 DEF CronPlan, ServiceTypeOK, CronInv
  <2>2. CASE CronFire
    <3>1. PICK t \in CronTasks \ Fired : notice' = t
      BY <2>2 DEF CronFire
    <3>2. kind[t] = "none"
      BY <1>4, <3>1 DEF Fired, CronInv
    <3> QED
      BY <1>1, <1>3, <1>4, <2>2, <3>1, <3>2 DEF CronFire, ServiceTypeOK, CronInv
  <2>3. CASE CronCancelled
    <3>1. CASE cron = "notice" /\ noticed' = noticed \cup {notice}
      BY <1>1, <1>3, <1>4, <2>3, <3>1 DEF CronCancelled, ServiceTypeOK, CronInv
    <3>2. CASE noticed' = noticed
      BY <1>1, <1>3, <1>4, <2>3, <3>2 DEF CronCancelled, ServiceTypeOK, CronInv
    <3> QED
      BY <2>3, <3>1, <3>2 DEF CronCancelled
  <2> QED
    BY <2>1, <2>2, <2>3
<1>6. ConsumerInv'
  BY <1>1, <1>3, <1>4 DEF ConsumerInv, Running
<1>7. MainInv'
  BY <1>1, <1>2, <1>4, MainKept
<1> QED
  BY <1>2, <1>5, <1>6, <1>7, TypeSplitNext DEF IInv

\* A scheduled run is enqueued when its notice is out.
LEMMA CronEnqueueInv ==
  ASSUME TypeOK, IInv, CronEnqueue
  PROVE  TypeOK' /\ IInv'
<1>1. /\ ServiceTypeOK /\ QueueInv /\ CronInv /\ ConsumerInv /\ MainInv
      /\ notice \in CronTasks /\ notice \in Tasks /\ kind[notice] = "none" /\ cron = "notice"
  BY TypeSplit DEF IInv, CronInv, CronEnqueue
<1>2. /\ DispatcherTypeOK' /\ (\A u \in Tasks : TaskInv(u)') /\ strayed' = {}
      /\ queue' \in Seq(Tasks) /\ QueueInv'
      /\ kind'[notice] = "pipeline" /\ \A u \in Tasks \ {notice} : kind'[u] = kind[u]
  BY <1>1, EnqueueInv DEF CronEnqueue
<1>3. /\ noticed' = noticed \cup {notice} /\ notice' = NoTask /\ cron' = "begin"
      /\ UNCHANGED <<pc, main, consumer, current, interrupted, socket>>
  BY DEF CronEnqueue
<1>4. ServiceTypeOK'
  BY <1>1, <1>2, <1>3 DEF ServiceTypeOK
<1>5. CronInv'
  <2>1. \A u \in noticed : kind[u] # "none"
    BY <1>1 DEF CronInv
  <2>2. \A u \in noticed' : u \in Tasks /\ kind'[u] # "none"
    BY <1>1, <1>2, <1>3, <2>1 DEF ServiceTypeOK
  <2>3. \A u \in CronTasks : kind'[u] # "none" => u \in noticed'
    BY <1>1, <1>2, <1>3 DEF CronInv
  <2> QED
    BY <1>3, <2>2, <2>3 DEF CronInv
<1>6. ConsumerInv'
  <2>1. pc[notice] = "none"
    BY <1>1 DEF IInv, TaskInv, KindInv
  <2> QED
    BY <1>1, <1>2, <1>3, <2>1 DEF ConsumerInv, Running
<1>7. MainInv'
  <2>1. Background' \subseteq Background
    BY <1>1, <1>2, <1>3 DEF Background, Running
  <2> QED
    BY <1>1, <1>3, <2>1, MainKept
<1> QED
  BY <1>2, <1>4, <1>5, <1>6, <1>7, TypeSplitNext DEF IInv

\* A command is enqueued.
LEMMA CommandInv ==
  ASSUME TypeOK, IInv, NEW t \in Commands, Command(t)
  PROVE  TypeOK' /\ IInv'
<1>1. /\ ServiceTypeOK /\ QueueInv /\ CronInv /\ ConsumerInv /\ MainInv
      /\ t \in Tasks /\ t \notin CronTasks /\ kind[t] = "none" /\ pc[t] = "none"
  BY TypeSplit DEF IInv, TaskInv, KindInv, Command, Commands
<1>2. PICK what \in {"query", "pipeline", "quiet", "report"} :
        kind' = [kind EXCEPT ![t] = what]
  BY DEF Command
<1>3. /\ DispatcherTypeOK' /\ (\A u \in Tasks : TaskInv(u)') /\ strayed' = {}
      /\ queue' \in Seq(Tasks) /\ QueueInv'
      /\ kind'[t] = what /\ \A u \in Tasks \ {t} : kind'[u] = kind[u]
  BY <1>1, <1>2, EnqueueInv DEF Command
<1>4. UNCHANGED <<pc, main, cron, notice, noticed, consumer, current, interrupted, socket>>
  BY DEF Command
<1>5. ServiceTypeOK'
  BY <1>1, <1>3, <1>4 DEF ServiceTypeOK
<1>6. CronInv'
  <2>1. \A u \in CronTasks : kind'[u] = kind[u]
    BY <1>1, <1>3
  <2> QED
    BY <1>1, <1>4, <2>1 DEF CronInv, ServiceTypeOK
<1>7. ConsumerInv'
  BY <1>1, <1>3, <1>4 DEF ConsumerInv, Running
<1>8. MainInv'
  <2>1. Background' \subseteq Background
    BY <1>1, <1>3, <1>4 DEF Background, Running
  <2> QED
    BY <1>1, <1>4, <2>1, MainKept
<1> QED
  BY <1>3, <1>5, <1>6, <1>7, <1>8, TypeSplitNext DEF IInv

\* The consumer takes the oldest task, and its execution begins.
LEMMA TakeInv ==
  ASSUME TypeOK, IInv, Take
  PROVE  TypeOK' /\ IInv'
<1>1. /\ DispatcherTypeOK /\ ServiceTypeOK /\ QueueInv /\ ConsumerInv /\ CronInv
      /\ MainInv /\ \A u \in Tasks : TaskInv(u)
  BY TypeSplit DEF IInv
<1>0. queue \in Seq(Tasks) /\ queue # <<>>
  BY <1>1 DEF Take, ServiceTypeOK
<1>a. PICK t \in Tasks : t = Head(queue)
  BY <1>0, TailFacts
<1>2. /\ consumer = "get" /\ queue' = Tail(queue) /\ Begin(t)
      /\ \/ consumer' = consumer /\ current' = current /\ kind[t] = "query"
         \/ consumer' = "run" /\ current' = t
      /\ UNCHANGED <<main, cron, notice, noticed, interrupted, socket>>
  BY <1>a DEF Take
<1>3. /\ queue' \in Seq(Tasks) /\ Len(queue') = Len(queue) - 1 /\ Len(queue) \in Nat
      /\ t = queue[1] /\ t \in Tasks /\ 1 \in 1..Len(queue)
      /\ \A i \in 1..Len(queue') : i + 1 \in 1..Len(queue) /\ queue'[i] = queue[i + 1]
      /\ \A i \in 1..Len(queue) : queue[i] \in Tasks
  BY <1>0, <1>a, <1>2, TailFacts
<1>4. kind[t] # "none" /\ pc[t] = "none"
  BY <1>1, <1>3 DEF QueueInv
<1>5. DispatcherTypeOK' /\ TaskInv(t)' /\ Confined(t)
  <2>1. TaskInv(t)
    BY <1>1
  <2>2. Sound(t)
    BY <1>1, <1>2, <1>4, <2>1, BeginSound
  <2> QED
    BY <2>2 DEF Sound
<1>6. (\A u \in Tasks : TaskInv(u))' /\ strayed' = {}
  <2>1. ASSUME NEW u \in Tasks PROVE TaskInv(u)'
    <3>1. CASE u = t
      BY <1>5, <3>1
    <3>2. CASE u # t
      BY <1>1, <1>3, <1>5, <3>2, OthersSound
    <3> QED
      BY <3>1, <3>2
  <2> QED
    BY <1>5, <2>1 DEF IInv, Confined
<1>7. ServiceTypeOK'
  BY <1>1, <1>2, <1>3 DEF ServiceTypeOK
<1>8. QueueInv'
  <2>1. \A i \in 1..Len(queue') : queue[i + 1] \in Tasks \ {t}
    <3> TAKE i \in 1..Len(queue')
    <3>1. i + 1 # 1 /\ i + 1 \in 1..Len(queue)
      BY <1>3
    <3> QED
      BY <1>1, <1>3, <3>1 DEF QueueInv
  <2>2. kind' = kind /\ \A u \in Tasks \ {t} : pc'[u] = pc[u]
    BY <1>5 DEF Confined
  <2>3. \A i \in 1..Len(queue') : kind'[queue'[i]] # "none" /\ pc'[queue'[i]] = "none"
    <3> TAKE i \in 1..Len(queue')
    <3>1. i + 1 \in 1..Len(queue) /\ queue'[i] = queue[i + 1]
      BY <1>3
    <3>2. kind[queue[i + 1]] # "none" /\ pc[queue[i + 1]] = "none"
      BY <1>1, <3>1 DEF QueueInv
    <3>3. kind'[queue[i + 1]] # "none" /\ pc'[queue[i + 1]] = "none"
      BY <2>1, <2>2, <3>2
    <3> QED
      BY <3>1, <3>3
  <2>4. ASSUME NEW i \in 1..Len(queue'), NEW j \in 1..Len(queue'), queue'[i] = queue'[j]
        PROVE  i = j
    <3>1. /\ i + 1 \in 1..Len(queue) /\ j + 1 \in 1..Len(queue)
          /\ queue[i + 1] = queue[j + 1]
      BY <1>3, <2>4
    <3>2. i + 1 = j + 1
      BY <1>1, <3>1 DEF QueueInv
    <3> QED
      BY <3>2
  <2>5. ASSUME NEW u \in Tasks, kind'[u] # "none", pc'[u] = "none"
        PROVE  \E i \in 1..Len(queue') : queue'[i] = u
    <3>1. u # t /\ kind[u] # "none" /\ pc[u] = "none"
      BY <1>5, <2>2, <2>5 DEF Confined
    <3>2. PICK j \in 1..Len(queue) : queue[j] = u
      BY <1>1, <3>1 DEF QueueInv
    <3>3. j # 1
      BY <1>3, <3>1, <3>2
    <3>4. j - 1 \in 1..Len(queue') /\ (j - 1) + 1 = j
      BY <1>3, <3>3
    <3>5. queue'[j - 1] = u
      BY <1>3, <3>2, <3>4
    <3> QED
      BY <3>4, <3>5
  <2> QED
    BY <2>3, <2>4, <2>5 DEF QueueInv
<1>9. ConsumerInv'
  <2>1. \A u \in Tasks \ {t} : kind'[u] # "query" => ~Running(u)'
    BY <1>1, <1>2, <1>5 DEF ConsumerInv, Running, Confined
  <2> QED
    BY <1>1, <1>2, <1>3, <1>5, <2>1 DEF ConsumerInv, Running, Confined
<1>10. CronInv'
  BY <1>1, <1>2, <1>5 DEF CronInv, Confined
<1>11. MainInv'
  BY <1>1, <1>2, MainKept
<1> QED
  BY <1>5, <1>6, <1>7, <1>8, <1>9, <1>10, <1>11, TypeSplitNext DEF IInv

\* The execution is over, or the consumer is.
LEMMA ConsumerEndInv ==
  ASSUME TypeOK, IInv, Executed \/ ConsumerCancelled
  PROVE  TypeOK' /\ IInv'
<1>1. UNCHANGED <<dispatchVars, queue, main, cron, notice, noticed, interrupted, socket>>
  BY DEF Executed, ConsumerCancelled
<1>2. /\ DispatcherTypeOK' /\ (\A t \in Tasks : TaskInv(t))' /\ strayed' = {}
      /\ QueueInv' /\ Background' = Background
  BY <1>1, DispatchStill
<1>3. kind' = kind /\ pc' = pc
  BY <1>1 DEF dispatchVars, taskVars
<1>4. ServiceTypeOK /\ CronInv /\ ConsumerInv /\ MainInv
  BY TypeSplit DEF IInv
<1>5. /\ consumer \in {"get", "run"} /\ consumer' \in {"get", "ended", "died"}
      /\ current' \in Tasks \cup {NoTask}
  <2>1. CASE Executed
    <3>1. /\ consumer = "run" /\ current \in Tasks /\ pc[current] = "done"
      BY <1>4, <2>1 DEF Executed, ConsumerInv
    <3>2. outcome[current] \in {"returned", "raised", "cancelled"}
      BY <3>1 DEF TypeOK, DispatcherTypeOK, IInv, TaskInv, VerdictInv
    <3> QED
      BY <2>1, <3>1, <3>2 DEF Executed
  <2>2. CASE ConsumerCancelled
    BY <1>4, <2>2 DEF ConsumerCancelled, ServiceTypeOK
  <2> QED
    BY <2>1, <2>2
<1>6. ServiceTypeOK' /\ ConsumerInv'
  <2>1. \A t \in Tasks : kind[t] # "query" => ~Running(t)
    BY <1>4 DEF ConsumerInv, Running, Executed, ConsumerCancelled
  <2> QED
    BY <1>1, <1>3, <1>4, <1>5, <2>1 DEF ServiceTypeOK, ConsumerInv, Running
<1>7. CronInv'
  BY <1>1, <1>3, <1>4 DEF CronInv
<1>8. MainInv'
  BY <1>1, <1>2, <1>4, <1>5, MainKept
<1> QED
  BY <1>2, <1>6, <1>7, <1>8, TypeSplitNext DEF IInv

\* Start-up, and the end of serve().
LEMMA StartupInv ==
  ASSUME TypeOK, IInv, Boot \/ Connect \/ Interrupt \/ StopServing
  PROVE  TypeOK' /\ IInv'
<1>1. UNCHANGED <<dispatchVars, queue, notice, noticed, current>>
  BY DEF Boot, Connect, Interrupt, StopServing
<1>2. /\ DispatcherTypeOK' /\ (\A t \in Tasks : TaskInv(t))' /\ strayed' = {}
      /\ QueueInv' /\ Background' = Background
  BY <1>1, DispatchStill
<1>3. kind' = kind /\ pc' = pc
  BY <1>1 DEF dispatchVars, taskVars
<1>4. ServiceTypeOK /\ CronInv /\ ConsumerInv /\ MainInv
  BY TypeSplit DEF IInv
<1>5. /\ cron' = cron \/ (cron' = "begin" /\ main = "boot")
      /\ consumer' = consumer \/ (consumer' = "get" /\ main = "boot")
      /\ main' \in {"exit", "unwound", "connect", "serve", "cronStop"}
      /\ main' \in {"connect", "serve", "unwound"} =>
            main \in {"boot", "connect"} /\ interrupted' = interrupted
      /\ interrupted' \subseteq {"cron", "consumer"}
      /\ socket' \in {"none", "open", "closed"}
      /\ main' \in {"serve", "cronStop"} => socket' = "none"
  <2>1. CASE Boot
    BY <1>4, <2>1 DEF Boot, ServiceTypeOK
  <2>2. CASE Connect
    BY <1>4, <2>2 DEF Connect, ServiceTypeOK
  <2>3. CASE StopServing
    BY <1>4, <2>3 DEF StopServing, ServiceTypeOK, MainInv
  <2>4. CASE Interrupt
    BY <1>4, <2>4 DEF Interrupt, ServiceTypeOK
  <2> QED
    BY <2>1, <2>2, <2>3, <2>4
<1>6. ServiceTypeOK' /\ ConsumerInv'
  <2>1. main = "boot" => consumer = "none"
    BY <1>4 DEF MainInv
  <2> QED
    BY <1>1, <1>3, <1>4, <1>5, <2>1 DEF ServiceTypeOK, ConsumerInv, Running
<1>7. CronInv'
  <2>1. main = "boot" => cron # "ended"
    BY <1>4 DEF MainInv
  <2> QED
    BY <1>1, <1>3, <1>4, <1>5, <2>1 DEF CronInv
<1>8. MainInv'
  BY <1>4, <1>5 DEF MainInv, NothingLeftRunning
<1> QED
  BY <1>2, <1>6, <1>7, <1>8, TypeSplitNext DEF IInv

\* Each step of the shutdown finds ended what it waits for, or raises what it
\* died of.
LEMMA ShutdownInv ==
  ASSUME TypeOK, IInv, Joined \/ Gathered \/ Exit
  PROVE  TypeOK' /\ IInv'
<1>1. UNCHANGED <<dispatchVars, queue, cron, notice, noticed, consumer, current, interrupted,
                  socket>>
  BY DEF Joined, Gathered, Exit
<1>2. /\ DispatcherTypeOK' /\ (\A t \in Tasks : TaskInv(t))' /\ strayed' = {}
      /\ QueueInv' /\ Background' = Background
  BY <1>1, DispatchStill
<1>3. kind' = kind /\ pc' = pc
  BY <1>1 DEF dispatchVars, taskVars
<1>4. ServiceTypeOK /\ CronInv /\ ConsumerInv /\ MainInv
  BY TypeSplit DEF IInv
<1>5. ServiceTypeOK'
  BY <1>1, <1>4 DEF Joined, Gathered, Exit, ServiceTypeOK
<1>6. ConsumerInv' /\ CronInv'
  BY <1>1, <1>3, <1>4 DEF ConsumerInv, Running, CronInv
<1>7. MainInv'
  <2>1. CASE Joined
    BY <1>1, <1>4, <2>1 DEF Joined, MainInv, NothingLeftRunning
  <2>2. CASE Gathered
    <3>1. /\ main' = "unwound" /\ cron' = "ended" /\ consumer' = "ended"
          /\ Background' = {} /\ socket' = "none"
      BY <1>1, <1>2, <1>4, <2>2 DEF Gathered, MainInv
    <3> QED
      BY <3>1 DEF MainInv, NothingLeftRunning
  <2>3. CASE Exit
    BY <2>3 DEF Exit, MainInv, NothingLeftRunning
  <2> QED
    BY <2>1, <2>2, <2>3
<1> QED
  BY <1>2, <1>5, <1>6, <1>7, TypeSplitNext DEF IInv

\* Calls of cancel(): on the consumer by loop.stop(), on all that is left by
\* asyncio.run.
LEMMA InterruptInv ==
  ASSUME TypeOK, IInv, CronStopped \/ CancelAll
  PROVE  TypeOK' /\ IInv'
<1>1. UNCHANGED <<slack, kind, pc, open, verdict, outcome, tree, slackVars, faults, cron,
                  notice, noticed, queue, consumer, current>>
  BY DEF CronStopped, CancelAll
<1>2. DispatcherTypeOK /\ ServiceTypeOK /\ QueueInv /\ CronInv /\ ConsumerInv /\ MainInv
  BY TypeSplit DEF IInv
<1>3. cancel' \in [Tasks -> BOOLEAN]
  <2>1. cancel \in [Tasks -> BOOLEAN] /\ TRUE \in BOOLEAN
    BY <1>2 DEF DispatcherTypeOK
  <2>2. CASE CronStopped
    BY <2>1, <2>2 DEF CronStopped, InterruptConsumer
  <2>3. CASE CancelAll
    <3>1. \A t \in Tasks : (cancel[t] \/ Running(t)) \in BOOLEAN
      OBVIOUS
    <3>2. cancel' = [t \in Tasks |-> cancel[t] \/ Running(t)]
      BY <2>3 DEF CancelAll
    <3> QED
      BY <3>1, <3>2
  <2> QED
    BY <2>2, <2>3
<1>4. /\ DispatcherTypeOK' /\ (\A t \in Tasks : TaskInv(t)') /\ strayed' = {}
  BY <1>1, <1>2, <1>3, DispatchKept DEF IInv, DispatcherTypeOK
<1>5. QueueInv' /\ ConsumerInv' /\ CronInv'
  BY <1>1, <1>2 DEF QueueInv, ConsumerInv, Running, CronInv
<1>6. ServiceTypeOK'
  <2>1. CASE CronStopped
    BY <1>1, <1>2, <2>1 DEF CronStopped, InterruptConsumer, Idle, ServiceTypeOK
  <2>2. CASE CancelAll
    BY <1>1, <1>2, <2>2 DEF CancelAll, Idle, ServiceTypeOK
  <2> QED
    BY <2>1, <2>2
<1>7. MainInv'
  <2>1. CASE CronStopped
    BY <1>1, <1>2, <2>1 DEF CronStopped, MainInv, NothingLeftRunning
  <2>2. CASE CancelAll
    BY <2>2 DEF CancelAll, MainInv, NothingLeftRunning
  <2> QED
    BY <2>1, <2>2
<1> QED
  BY <1>4, <1>5, <1>6, <1>7, TypeSplitNext DEF IInv

\* Any step.
LEMMA NextInv ==
  ASSUME TypeOK, IInv, [Next]_vars
  PROVE  TypeOK' /\ IInv'
<1>1. CASE UNCHANGED vars
  <2>1. UNCHANGED <<dispatchVars, queue, main, cron, notice, noticed, consumer, current,
                    interrupted, socket>>
    BY <1>1 DEF vars, serviceVars
  <2>2. /\ DispatcherTypeOK' /\ (\A t \in Tasks : TaskInv(t))' /\ strayed' = {}
        /\ QueueInv' /\ Background' = Background
    BY <2>1, DispatchStill
  <2>3. ServiceTypeOK /\ CronInv /\ ConsumerInv /\ MainInv
    BY TypeSplit DEF IInv
  <2>4. ServiceTypeOK' /\ CronInv' /\ ConsumerInv'
    BY <2>1, <2>3 DEF ServiceTypeOK, CronInv, ConsumerInv, Running, dispatchVars, taskVars
  <2>5. MainInv'
    BY <2>1, <2>2, <2>3, MainKept
  <2> QED
    BY <2>2, <2>4, <2>5, TypeSplitNext DEF IInv
<1>2. CASE Next
  BY <1>2, StartupInv, ShutdownInv, InterruptInv, CronStepInv, CronEnqueueInv, TakeInv,
     ConsumerEndInv, CommandInv, ExecuteInv DEF Next
<1> QED
  BY <1>1, <1>2

-----------------------------------------------------------------------------
(* The theorems                                                            *)

\* The process keeps its invariant: each execution its own, what is queued has
\* not begun, and each step of the shutdown finds stopped what it must.
THEOREM Invariance == Spec => [](TypeOK /\ IInv)
<1>1. Init => TypeOK /\ IInv
  BY InitInv
<1>2. (TypeOK /\ IInv) /\ [Next]_vars => (TypeOK /\ IInv)'
  BY NextInv
<1> QED
  BY <1>1, <1>2, PTL DEF Spec

\* Every reachable state of the process is well typed.
THEOREM TypeCorrect == Spec => []TypeOK
  BY Invariance, PTL

\* An execution that ended has closed everything it opened (the finally blocks
\* of _handle_query and _handle_pipeline), unless a constructor raised before the
\* try block or a close() failed.
THEOREM NothingIsLeaked == Spec => []ReleasedWhenDone
<1>1. TypeOK /\ IInv => ReleasedWhenDone
  BY DEF IInv, TaskInv, OpenInv, ReleasedWhenDone, Stages
<1> QED
  BY <1>1, Invariance, PTL

\* The channel message of a finished run shows how it ended, its thread says
\* so when it ran on older source, and no reply lands in another run's thread.
THEOREM SlackIsTold == Spec => []SlackTellsTheRun
<1>1. TypeOK /\ IInv => SlackTellsTheRun
  BY DEF IInv, TaskInv, ThreadInv, SlackTellsTheRun
<1> QED
  BY <1>1, Invariance, PTL

\* The orderly shutdown of main(), which a process without Socket Mode goes
\* through, leaves nothing behind that asyncio.run would have to cancel, unless the
\* cron task or the consumer had died of an exception.
THEOREM ShutdownIsComplete == Spec => []NothingLeftRunning
<1>1. TypeOK /\ IInv => NothingLeftRunning
  BY DEF IInv, MainInv
<1> QED
  BY <1>1, Invariance, PTL

\* A scheduled run that was announced is in the queue; at most the notice that
\* was being posted when the cron task was cancelled is without its run.
THEOREM NoticesAreHonoured == Spec => []NoticeBringsRun
<1>1. ASSUME TypeOK, IInv PROVE NoticeBringsRun
  <2> DEFINE Without == {t \in noticed : kind[t] = "none"}
  <2>1. PICK last \in CronTasks \cup {NoTask} :
           \A t \in noticed : kind[t] = "none" => t = last
    BY <1>1 DEF IInv, CronInv
  <2>2. Without \subseteq {last}
    BY <2>1
  <2>3. Cardinality({last}) = 1 /\ IsFiniteSet({last})
    BY FS_Singleton
  <2>4. Cardinality(Without) <= 1
    BY <2>2, <2>3, FS_Subset
  <2>5. cron # "ended" => Without = {}
    BY <1>1 DEF IInv, CronInv
  <2> QED
    BY <2>4, <2>5 DEF NoticeBringsRun
<1>2. TypeOK /\ IInv => NoticeBringsRun
  BY <1>1
<1> QED
  BY <1>2, Invariance, PTL

-----------------------------------------------------------------------------
(***************************************************************************)
(* The process implements TaskService: a handler or the cron trigger       *)
(* submits, the consumer begins the oldest task, an execution ends, and no *)
(* other step, of the shutdown neither, is seen by the abstract scheduler. *)
(***************************************************************************)

\* What the abstract scheduler knows depends on three variables.
LEMMA StillRefines ==
  ASSUME UNCHANGED <<kind, pc, queue>>
  PROVE  UNCHANGED Scheduler!vars
<1>1. taskStatus' = taskStatus
  BY DEF taskStatus, StatusOf
<1>2. writing' = writing /\ queueOrder' = queueOrder
  BY DEF writing, queueOrder
<1> QED
  BY <1>1, <1>2 DEF Scheduler!vars

\* The status of one task changes.
LEMMA OneStatusChanges ==
  ASSUME NEW t \in Tasks, NEW x, StatusOf(t)' = x,
         \A u \in Tasks \ {t} : StatusOf(u)' = StatusOf(u)
  PROVE  taskStatus' = [taskStatus EXCEPT ![t] = x]
  BY DEF taskStatus

\* What is pending is what is queued.
LEMMA PendingIsQueued ==
  ASSUME TypeOK, QueueInv
  PROVE  /\ Scheduler!Pending \subseteq Tasks
         /\ \A u : u \in Scheduler!Pending <=> \E i \in 1..Len(queue) : u = queue[i]
<1>1. queue \in Seq(Tasks) /\ Len(queue) \in Nat /\ \A i \in 1..Len(queue) : queue[i] \in Tasks
  BY DEF TypeOK
<1>2. Scheduler!Pending = {u \in Tasks : kind[u] # "none" /\ pc[u] = "none"}
  BY DEF Scheduler!Pending, taskStatus, StatusOf
<1> QED
  BY <1>1, <1>2 DEF QueueInv

\* Who enqueues a task submits it, after everything that is queued.
LEMMA EnqueueRefines ==
  ASSUME TypeOK, IInv, NEW t \in Tasks, kind[t] = "none",
         NEW what \in {"query", "pipeline", "quiet", "report"},
         queue' = Append(queue, t), kind' = [kind EXCEPT ![t] = what], pc' = pc
  PROVE  Scheduler!Submit(t)
<1>1. kind'[t] = what /\ \A u \in Tasks \ {t} : kind'[u] = kind[u]
  BY DEF TypeOK, DispatcherTypeOK
<1>2. pc[t] = "none"
  BY DEF IInv, TaskInv, KindInv
<1>3. taskStatus[t] = "new" /\ taskStatus' = [taskStatus EXCEPT ![t] = "pending"]
  <2>1. StatusOf(t) = "new" /\ StatusOf(t)' = "pending"
    BY <1>1, <1>2 DEF StatusOf
  <2>2. \A u \in Tasks \ {t} : StatusOf(u)' = StatusOf(u)
    BY <1>1 DEF StatusOf
  <2> QED
    BY <2>1, <2>2, OneStatusChanges DEF taskStatus
<1>4. writing' \in {writing, writing \cup {t}}
  <2>1. CASE what = "query"
    BY <1>1, <2>1 DEF writing
  <2>2. CASE what # "query"
    BY <1>1, <2>2 DEF writing
  <2> QED
    BY <2>1, <2>2
<1>5. queueOrder' = queueOrder \cup (Scheduler!Pending \X {t})
  <2>1. /\ Len(queue) \in Nat /\ Len(queue') = Len(queue) + 1
        /\ \A i \in 1..Len(queue) : queue'[i] = queue[i] /\ queue[i] \in Tasks
        /\ queue'[Len(queue) + 1] = t
    <3>1. queue \in Seq(Tasks)
      BY DEF TypeOK
    <3> QED
      BY <3>1, AppendFacts
  <2>2. \A u : u \in Scheduler!Pending <=> \E i \in 1..Len(queue) : u = queue[i]
    BY PendingIsQueued DEF IInv
  <2>3. ASSUME NEW p \in queueOrder' PROVE p \in queueOrder \cup (Scheduler!Pending \X {t})
    <3>1. PICK i \in 1..Len(queue'), j \in 1..Len(queue') :
             i < j /\ p = <<queue'[i], queue'[j]>>
      BY <2>3 DEF queueOrder
    <3>2. i \in 1..Len(queue)
      BY <2>1, <3>1
    <3>3. CASE j \in 1..Len(queue)
      BY <2>1, <3>1, <3>2, <3>3 DEF queueOrder
    <3>4. CASE j = Len(queue) + 1
      <4>1. queue[i] \in Scheduler!Pending /\ p = <<queue[i], t>>
        BY <2>1, <2>2, <3>1, <3>2, <3>4
      <4> QED
        BY <4>1
    <3>5. j \in 1..Len(queue) \/ j = Len(queue) + 1
      BY <2>1
    <3> QED
      BY <3>3, <3>4, <3>5
  <2>4. ASSUME NEW p \in queueOrder PROVE p \in queueOrder'
    <3>1. PICK i \in 1..Len(queue), j \in 1..Len(queue) : i < j /\ p = <<queue[i], queue[j]>>
      BY <2>4 DEF queueOrder
    <3>2. i \in 1..Len(queue') /\ j \in 1..Len(queue') /\ p = <<queue'[i], queue'[j]>>
      BY <2>1, <3>1
    <3>3. p \in Tasks \X Tasks
      BY <2>1, <3>1
    <3> QED
      BY <3>1, <3>2, <3>3 DEF queueOrder
  <2>5. ASSUME NEW u \in Scheduler!Pending PROVE <<u, t>> \in queueOrder'
    <3>1. PICK i \in 1..Len(queue) : u = queue[i]
      BY <2>2
    <3>2. /\ i \in 1..Len(queue') /\ Len(queue') \in 1..Len(queue') /\ i < Len(queue')
          /\ <<u, t>> = <<queue'[i], queue'[Len(queue')]>>
      BY <2>1, <3>1
    <3>3. <<u, t>> \in Tasks \X Tasks
      BY <2>1, <3>1
    <3> QED
      BY <3>2, <3>3 DEF queueOrder
  <2> QED
    BY <2>3, <2>4, <2>5
<1> QED
  BY <1>3, <1>4, <1>5 DEF Scheduler!Submit

\* The consumer begins the oldest task, and no other that writes is running.
LEMMA TakeRefines ==
  ASSUME TypeOK, IInv, Take
  PROVE  \E t \in Tasks : Scheduler!Begin(t)
<1>1. queue \in Seq(Tasks) /\ queue # <<>> /\ consumer = "get"
  BY DEF Take, TypeOK
<1>2. PICK t \in Tasks : t = Head(queue)
  BY <1>1, TailFacts
<1>3. /\ queue' = Tail(queue) /\ Len(queue) \in Nat /\ Len(queue') = Len(queue) - 1
      /\ t = queue[1] /\ 1 \in 1..Len(queue)
      /\ \A i \in 1..Len(queue') : i + 1 \in 1..Len(queue) /\ queue'[i] = queue[i + 1]
      /\ \A i \in 1..Len(queue) : queue[i] \in Tasks
  BY <1>1, <1>2, TailFacts DEF Take
<1>4. kind[t] # "none" /\ pc[t] = "none"
  BY <1>3 DEF IInv, QueueInv
<1>5. kind' = kind /\ pc'[t] \notin {"none", "done"} /\ \A u \in Tasks \ {t} : pc'[u] = pc[u]
  <2>1. Begin(t)
    BY <1>2 DEF Take
  <2>2. kind[t] \in {"query", "pipeline", "quiet", "report"}
    BY <1>4 DEF TypeOK, DispatcherTypeOK
  <2>3. PICK label \in {"build", "report"} :
          pc' = [pc EXCEPT ![t] = label] /\ kind' = kind
    <3>1. CASE kind[t] = "query"
      BY <2>1, <3>1 DEF Begin, BeginQuery, Goto
    <3>2. CASE kind[t] \in {"pipeline", "quiet"}
      BY <2>1, <3>2 DEF Begin, BeginPipeline, Goto
    <3>3. CASE kind[t] = "report"
      BY <2>1, <3>3 DEF Begin, BeginReport, Goto
    <3> QED
      BY <2>2, <3>1, <3>2, <3>3
  <2> QED
    BY <2>3 DEF TypeOK, DispatcherTypeOK
<1>6. taskStatus[t] = "pending" /\ taskStatus' = [taskStatus EXCEPT ![t] = "running"]
  <2>1. StatusOf(t) = "pending" /\ StatusOf(t)' = "running"
    BY <1>4, <1>5 DEF StatusOf
  <2>2. \A u \in Tasks \ {t} : StatusOf(u)' = StatusOf(u)
    BY <1>5 DEF StatusOf
  <2> QED
    BY <2>1, <2>2, OneStatusChanges DEF taskStatus
<1>7. writing' = writing
  BY <1>5 DEF writing
<1>8. \A u \in writing : taskStatus[u] # "running"
  <2> TAKE u \in writing
  <2>1. u \in Tasks /\ kind[u] # "query"
    BY DEF writing
  <2>2. ~Running(u)
    BY <1>1, <2>1 DEF IInv, ConsumerInv
  <2> QED
    BY <2>1, <2>2 DEF taskStatus, StatusOf, Running
<1>9. \A i \in 1..Len(queue) : queue[i] = t <=> i = 1
  BY <1>3 DEF IInv, QueueInv
<1>10. \A u \in writing : <<u, t>> \notin queueOrder
  <2> SUFFICES ASSUME NEW u \in writing, <<u, t>> \in queueOrder PROVE FALSE
    OBVIOUS
  <2>1. PICK i \in 1..Len(queue), j \in 1..Len(queue) :
           i < j /\ <<u, t>> = <<queue[i], queue[j]>>
    BY DEF queueOrder
  <2>2. j = 1
    BY <1>9, <2>1
  <2> QED
    BY <1>3, <2>1, <2>2
<1>11. Scheduler!Leave(t)
  <2>1. ASSUME NEW p \in queueOrder' PROVE p \in queueOrder /\ p[1] # t /\ p[2] # t
    <3>1. PICK i \in 1..Len(queue'), j \in 1..Len(queue') :
             i < j /\ p = <<queue'[i], queue'[j]>>
      BY <2>1 DEF queueOrder
    <3>2. /\ i + 1 \in 1..Len(queue) /\ j + 1 \in 1..Len(queue) /\ i + 1 < j + 1
          /\ i + 1 # 1 /\ j + 1 # 1
          /\ p = <<queue[i + 1], queue[j + 1]>>
      BY <1>3, <3>1
    <3>3. p \in Tasks \X Tasks
      BY <1>3, <3>2
    <3>4. p \in queueOrder
      BY <3>2, <3>3 DEF queueOrder
    <3>5. queue[i + 1] # t /\ queue[j + 1] # t
      BY <1>9, <3>2
    <3> QED
      BY <3>2, <3>4, <3>5
  <2>2. ASSUME NEW p \in queueOrder, p[1] # t, p[2] # t PROVE p \in queueOrder'
    <3>1. PICK i \in 1..Len(queue), j \in 1..Len(queue) : i < j /\ p = <<queue[i], queue[j]>>
      BY <2>2 DEF queueOrder
    <3>2. i # 1 /\ j # 1
      BY <1>9, <2>2, <3>1
    <3>3. /\ i - 1 \in 1..Len(queue') /\ j - 1 \in 1..Len(queue') /\ i - 1 < j - 1
          /\ (i - 1) + 1 = i /\ (j - 1) + 1 = j
      BY <1>3, <3>1, <3>2
    <3>4. p = <<queue'[i - 1], queue'[j - 1]>>
      BY <1>3, <3>1, <3>3
    <3>5. p \in Tasks \X Tasks
      BY <1>3, <3>1
    <3> QED
      BY <3>3, <3>4, <3>5 DEF queueOrder
  <2> QED
    BY <2>1, <2>2 DEF Scheduler!Leave
<1> QED
  BY <1>6, <1>7, <1>8, <1>10, <1>11 DEF Scheduler!Begin

\* A step of an execution ends it, or is of no concern to the scheduler.
LEMMA ExecuteRefines ==
  ASSUME TypeOK, IInv, NEW t \in Tasks, Execute(t)
  PROVE  Scheduler!End(t) \/ UNCHANGED Scheduler!vars
<1>1. TaskInv(t) /\ DispatcherTypeOK /\ (Step(t) \/ Progress(t)) /\ queue' = queue
  BY DEF Execute, serviceVars, TypeOK, IInv
<1>2. Confined(t) /\ DispatcherTypeOK'
  BY <1>1, StepSound DEF Sound
<1>3. pc[t] # "none" /\ (Running(t) \/ pc' = pc)
  BY <1>1, StepRuns
<1>4. kind' = kind /\ kind[t] # "none" /\ \A u \in Tasks \ {t} : StatusOf(u)' = StatusOf(u)
  BY <1>1, <1>2, <1>3 DEF Confined, StatusOf, TaskInv, KindInv
<1>5. writing' = writing /\ queueOrder' = queueOrder
  BY <1>1, <1>4 DEF writing, queueOrder
<1>6. CASE Running(t) /\ pc'[t] = "done"
  <2>1. StatusOf(t) = "running" /\ StatusOf(t)' = "over"
    BY <1>4, <1>6 DEF Running, StatusOf
  <2>2. taskStatus[t] = "running" /\ taskStatus' = [taskStatus EXCEPT ![t] = "over"]
    BY <1>4, <2>1, OneStatusChanges DEF taskStatus
  <2> QED
    BY <1>5, <2>2 DEF Scheduler!End
<1>7. CASE pc' = pc \/ (Running(t) /\ pc'[t] # "done")
  <2>1. StatusOf(t)' = StatusOf(t)
    BY <1>2, <1>4, <1>7 DEF Running, Confined, StatusOf
  <2>2. taskStatus' = taskStatus
    BY <1>4, <2>1 DEF taskStatus
  <2> QED
    BY <1>5, <2>2 DEF Scheduler!vars
<1> QED
  BY <1>3, <1>6, <1>7

\* Initially every task is new to the scheduler.
LEMMA InitRefines == Init => Scheduler!Init
<1> SUFFICES ASSUME Init PROVE Scheduler!Init
  OBVIOUS
<1>1. queue = <<>> /\ Len(queue) = 0 /\ \A t \in Tasks : kind[t] = "none"
  BY DEF Init, DispatcherInit
<1>2. taskStatus = [t \in Tasks |-> "new"] /\ writing = {}
  BY <1>1 DEF taskStatus, StatusOf, writing
<1>3. queueOrder = {}
  BY <1>1 DEF queueOrder
<1> QED
  BY <1>2, <1>3 DEF Scheduler!Init

\* Any step.
LEMMA NextRefines == TypeOK /\ IInv /\ [Next]_vars => [Scheduler!Next]_(Scheduler!vars)
<1> SUFFICES ASSUME TypeOK, IInv, [Next]_vars
             PROVE  Scheduler!Next \/ UNCHANGED Scheduler!vars
  OBVIOUS
<1>1. CASE CronEnqueue
  <2>1. PICK t \in Tasks : t = notice /\ kind[t] = "none"
    BY <1>1 DEF CronEnqueue, IInv, CronInv
  <2>2. Scheduler!Submit(t)
    BY <1>1, <2>1, EnqueueRefines DEF CronEnqueue
  <2> QED
    BY <2>2 DEF Scheduler!Next
<1>2. ASSUME NEW t \in Commands, Command(t) PROVE Scheduler!Next
  <2>1. Scheduler!Submit(t) /\ t \in Tasks
    BY <1>2, EnqueueRefines DEF Command, Commands
  <2> QED
    BY <2>1 DEF Scheduler!Next
<1>3. CASE Take
  BY <1>3, TakeRefines DEF Scheduler!Next
<1>4. ASSUME NEW t \in Tasks, Execute(t)
      PROVE  Scheduler!Next \/ UNCHANGED Scheduler!vars
  BY <1>4, ExecuteRefines DEF Scheduler!Next
<1>5. CASE \/ Boot \/ Connect \/ Interrupt \/ StopServing \/ CronStopped \/ Joined
           \/ Gathered \/ CancelAll \/ Exit \/ CronPlan \/ CronFire \/ CronCancelled
           \/ Executed \/ ConsumerCancelled
  <2>1. UNCHANGED <<kind, pc, queue>>
    BY <1>5 DEF Boot, Connect, Interrupt, StopServing, CronStopped, Joined, Gathered,
       CancelAll, Exit, CronPlan, CronFire, CronCancelled, Executed, ConsumerCancelled,
       dispatchVars, taskVars
  <2> QED
    BY <2>1, StillRefines
<1>6. CASE UNCHANGED vars
  BY <1>6, StillRefines DEF vars, dispatchVars, taskVars, serviceVars
<1> QED
  BY <1>1, <1>2, <1>3, <1>4, <1>5, <1>6 DEF Next

\* The process keeps the promise of the scheduler: one task that writes at a
\* time, in the order in which the tasks were enqueued, each executed at most
\* once, whatever fails, is cancelled or is interrupted by the shutdown.
THEOREM ServedInOrder == Spec => ImplementsTaskService
  BY InitRefines, NextRefines, Invariance, PTL DEF Spec, ImplementsTaskService,
     Scheduler!Spec

=============================================================================
