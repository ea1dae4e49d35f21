------------------------------ MODULE CareerProofs ------------------------------
(* What holds of a candidate's career records for any number of rows, calls and   *)
(* readers: the records of a profile and the passport made of them, the education *)
(* records and the requests about them, the file of a request, and the connectors *)
(* that verify it.                                                                *)
EXTENDS Career, TLAPS

(* ---- what counting gives for the least sets ---- *)
LEMMA NoneCounted == Cardinality({}) = 0
<1> DEFINE CS(S) == CHOOSE f : f = [T \in SUBSET S |-> IF T = {} THEN 0 ELSE 1 + f[T \ {CHOOSE x : x \in T}]]
<1>1. Cardinality({}) = CS({})[{}]
  BY Zenon DEF Cardinality
<1>2. CS({}) = [T \in SUBSET {} |-> IF T = {} THEN 0 ELSE 1 + CS({})[T \ {CHOOSE x : x \in T}]]
  <2>1. \E f : f = [T \in SUBSET {} |-> IF T = {} THEN 0 ELSE 1 + f[T \ {CHOOSE x : x \in T}]]
    <3> PICK f : f = [T \in SUBSET {} |-> 0]
      BY Zenon
    <3>1. \A T \in SUBSET {} : T = {}
      OBVIOUS
    <3>2. f = [T \in SUBSET {} |-> IF T = {} THEN 0 ELSE 1 + f[T \ {CHOOSE x : x \in T}]]
      BY Zenon, <3>1
    <3> QED
      BY <3>2, Zenon
  <2> QED
    BY <2>1, Zenon
<1> QED
  BY <1>1, <1>2

LEMMA OneCounted ==
  ASSUME NEW a
  PROVE Cardinality({a}) = 1
<1> DEFINE Least(T) == CHOOSE x : x \in T
           CS(S) == CHOOSE f : f = [T \in SUBSET S |-> IF T = {} THEN 0 ELSE 1 + f[T \ {Least(T)}]]
<1>1. Cardinality({a}) = CS({a})[{a}]
  BY Zenon DEF Cardinality
<1>2. \A T \in SUBSET {a} : T = {} \/ (T = {a} /\ T \ {Least(T)} = {})
  OBVIOUS
<1>3. CS({a}) = [T \in SUBSET {a} |-> IF T = {} THEN 0 ELSE 1 + CS({a})[T \ {Least(T)}]]
  <2>1. \E f : f = [T \in SUBSET {a} |-> IF T = {} THEN 0 ELSE 1 + f[T \ {Least(T)}]]
    <3> PICK f : f = [T \in SUBSET {a} |-> IF T = {} THEN 0 ELSE 1]
      BY Zenon
    <3> HIDE DEF Least
    <3>1. f[{}] = 0
      OBVIOUS
    <3>2. \A T \in SUBSET {a} : f[T] = IF T = {} THEN 0 ELSE 1 + f[T \ {Least(T)}]
      BY <1>2, <3>1
    <3>3. f = [T \in SUBSET {a} |-> f[T]]
      BY Zenon
    <3>4. f = [T \in SUBSET {a} |-> IF T = {} THEN 0 ELSE 1 + f[T \ {Least(T)}]]
      BY Zenon, <3>2, <3>3
    <3> QED
      BY <3>4, Zenon
  <2> QED
    BY <2>1, Zenon
<1> HIDE DEF CS, Least
<1>4. CS({a})[{}] = 0
  BY <1>3
<1>5. {a} # {} /\ {a} \ {Least({a})} = {} /\ {a} \in SUBSET {a}
  BY <1>2
<1>6. CS({a})[{a}] = 1 + CS({a})[{}]
  <2>1. CS({a})[{a}] = IF {a} = {} THEN 0 ELSE 1 + CS({a})[{a} \ {Least({a})}]
    BY Zenon, <1>3, <1>5
  <2> QED
    BY Zenon, <1>5, <2>1
<1> QED
  BY <1>1, <1>4, <1>6

(* ---- calls: what each part starts, goes on with and ends ---- *)
PipelinePcs == {"done", "update", "delete", "submit", "status", "intent", "complete", "erased", "remove", "review"}
ResumePcs == {"done", "uploaded", "process", "dispatch", "forget", "forgotten", "take", "working"}
ReviewPcs == {"done", "confirm", "import"}
PaperPcs == {"done", "paper", "tear"}
StudyPcs == {"done", "edit", "enter", "attach", "contact", "submitted", "resubmitted", "informed",
             "corrected", "approved", "closed", "moved", "answered", "respond"}
FilePcs == {"done", "exhibit", "amend", "consent", "update", "edit"}
RecordPcs == {"done", "record", "sheet", "confirming"}
PassportPcs == {"done", "scored", "persist", "delete", "status"}
VisitPcs == {"done", "visit"}
ConnectorPcs == {"done", "verify", "connecting", "moving"}

\* A step is of one call: of one that begins in its turn, or of one under way.
Puts(c, k) == (Turn(c) \/ c \in Flying) /\ call' = [call EXCEPT ![c] = k]
Steps(H) == call' = call \/ \E c \in Calls : \E k : k.pc \in H /\ Puts(c, k)

\* Finishing is putting a call that is over.
LEMMA FinishPuts ==
  ASSUME NEW c \in Calls, Turn(c) \/ c \in Flying, Finish(c), NEW H, "done" \in H
  PROVE Steps(H)
<1>1. Over.pc = "done"
  BY DEF Over, Call
<1>2. Puts(c, Over)
  BY DEF Puts, Finish
<1> QED
  BY <1>1, <1>2 DEF Steps

\* So is beginning a call, or going on with one.
LEMMA SomePuts ==
  ASSUME NEW c \in Calls, Turn(c) \/ c \in Flying, NEW H, NEW h \in H,
         \E k : k.pc = h /\ call' = [call EXCEPT ![c] = k]
  PROVE Steps(H)
<1>1. PICK k : k.pc = h /\ call' = [call EXCEPT ![c] = k]
  BY Zenon
<1>2. k.pc \in H /\ Puts(c, k)
  BY Zenon, <1>1 DEF Puts
<1> QED
  BY <1>2, Zenon DEF Steps

LEMMA FlyingPc ==
  ASSUME NEW c \in Calls, NEW h, call[c].pc = h, h # "idle", h # "done"
  PROVE c \in Flying
BY DEF Flying

(* Each part puts its own calls. *)
LEMMA PipelinePuts == PipelineNext => Steps(PipelinePcs)
<1> SUFFICES ASSUME PipelineNext PROVE Steps(PipelinePcs)
  OBVIOUS
<1>1. ASSUME NEW c \in Calls, Turn(c),
             AddCase(c) \/ UpdateCase(c) \/ DeleteCase(c) \/ SubmitCase(c) \/ CancelCase(c)
             \/ CreateUploadIntent(c) \/ CompleteUpload(c) \/ RemoveFile(c) \/ Transition(c)
             \/ AssignReview(c) \/ ReviewFile(c) \/ RequestMade(c) \/ RequestClosed(c)
      PROVE Steps(PipelinePcs)
  <2>1. CASE AddCase(c)
    <3>1. \E k : k.pc = "done" /\ call' = [call EXCEPT ![c] = k]
      BY Zenon, <2>1 DEF AddCase, Finish, Over, Call
    <3> QED
      BY Zenon, <1>1, <3>1, SomePuts DEF PipelinePcs
  <2>2. CASE UpdateCase(c)
    <3>1. \E k : k.pc = "update" /\ call' = [call EXCEPT ![c] = k]
      BY Zenon, <2>2 DEF UpdateCase, Begin, Call
    <3> QED
      BY Zenon, <1>1, <3>1, SomePuts DEF PipelinePcs
  <2>3. CASE DeleteCase(c)
    <3>1. \E k : k.pc = "delete" /\ call' = [call EXCEPT ![c] = k]
      BY Zenon, <2>3 DEF DeleteCase, Begin, Call
    <3> QED
      BY Zenon, <1>1, <3>1, SomePuts DEF PipelinePcs
  <2>4. CASE SubmitCase(c)
    <3>1. \E k : k.pc = "submit" /\ call' = [call EXCEPT ![c] = k]
      BY Zenon, <2>4 DEF SubmitCase, Begin, Call
    <3> QED
      BY Zenon, <1>1, <3>1, SomePuts DEF PipelinePcs
  <2>5. CASE CancelCase(c)
    <3>1. \E k : k.pc = "status" /\ call' = [call EXCEPT ![c] = k]
      BY Zenon, <2>5 DEF CancelCase, Begin, Call
    <3> QED
      BY Zenon, <1>1, <3>1, SomePuts DEF PipelinePcs
  <2>6. CASE CreateUploadIntent(c)
    <3>1. \E k : k.pc = "intent" /\ call' = [call EXCEPT ![c] = k]
      BY Zenon, <2>6 DEF CreateUploadIntent, Begin, Call
    <3> QED
      BY Zenon, <1>1, <3>1, SomePuts DEF PipelinePcs
  <2>7. CASE CompleteUpload(c)
    <3>1. \E k : k.pc = "complete" /\ call' = [call EXCEPT ![c] = k]
      BY Zenon, <2>7 DEF CompleteUpload, Begin, Call
    <3> QED
      BY Zenon, <1>1, <3>1, SomePuts DEF PipelinePcs
  <2>8. CASE RemoveFile(c)
    <3>1. \/ \E k : k.pc = "erased" /\ call' = [call EXCEPT ![c] = k]
          \/ \E k : k.pc = "remove" /\ call' = [call EXCEPT ![c] = k]
      BY Zenon, <2>8 DEF RemoveFile, Begin, Call
    <3> QED
      BY <1>1, <3>1, SomePuts DEF PipelinePcs
  <2>9. CASE Transition(c)
    <3>1. \E k : k.pc = "status" /\ call' = [call EXCEPT ![c] = k]
      BY Zenon, <2>9 DEF Transition, Begin, Call
    <3> QED
      BY Zenon, <1>1, <3>1, SomePuts DEF PipelinePcs
  <2>10. CASE AssignReview(c)
    <3>1. \E k : k.pc = "status" /\ call' = [call EXCEPT ![c] = k]
      BY Zenon, <2>10 DEF AssignReview, Begin, Call
    <3> QED
      BY Zenon, <1>1, <3>1, SomePuts DEF PipelinePcs
  <2>11. CASE ReviewFile(c)
    <3>1. \E k : k.pc = "review" /\ call' = [call EXCEPT ![c] = k]
      BY Zenon, <2>11 DEF ReviewFile, Begin, Call
    <3> QED
      BY Zenon, <1>1, <3>1, SomePuts DEF PipelinePcs
  <2>12. CASE RequestMade(c) \/ RequestClosed(c)
    <3>1. Finish(c)
      BY <2>12 DEF RequestMade, RequestClosed
    <3> QED
      BY <1>1, <3>1, FinishPuts DEF PipelinePcs
  <2> QED
    BY <1>1, <2>1, <2>2, <2>3, <2>4, <2>5, <2>6, <2>7, <2>8, <2>9, <2>10, <2>11, <2>12
<1>2. ASSUME NEW c \in Calls,
             CommitUpdate(c) \/ CommitDelete(c) \/ CommitIntent(c) \/ CommitComplete(c)
             \/ CommitRemove(c) \/ CommitStatus(c) \/ CommitReview(c)
      PROVE Steps(PipelinePcs)
  <2>1. Finish(c)
    BY <1>2 DEF CommitUpdate, CommitDelete, CommitIntent, CommitComplete, CommitRemove, CommitStatus, CommitReview
  <2>2. call[c].pc \in {"update", "delete", "intent", "complete", "erased", "submit", "status", "review"}
    BY <1>2 DEF CommitUpdate, CommitDelete, CommitIntent, CommitComplete, CommitRemove, CommitStatus, CommitReview
  <2> QED
    BY <2>1, <2>2, FinishPuts DEF Flying, PipelinePcs
<1>3. ASSUME NEW c \in Calls, EraseObject(c)
      PROVE Steps(PipelinePcs)
  <2>1. call' = [call EXCEPT ![c] = [call[c] EXCEPT !.pc = "erased"]] /\ c \in Flying
    BY <1>3 DEF EraseObject, Flying
  <2>2. call[c].pc = "remove" /\ [call[c] EXCEPT !.pc = "erased"].pc = "erased"
    BY <1>3 DEF EraseObject
  <2>3. \E k : k.pc = "erased" /\ call' = [call EXCEPT ![c] = k]
    BY Zenon, <2>1, <2>2
  <2> QED
    BY Zenon, <2>1, <2>3, SomePuts DEF PipelinePcs
<1>4. CASE PutObject
  BY <1>4 DEF PutObject, Steps
<1> QED
  BY <1>1, <1>2, <1>3, <1>4 DEF PipelineNext

LEMMA ResumePuts == ProcessingNext => Steps(ResumePcs)
<1> SUFFICES ASSUME ProcessingNext PROVE Steps(ResumePcs)
  OBVIOUS
<1>1. ASSUME NEW c \in Calls, Turn(c),
             UploadResume(c) \/ CompleteResume(c) \/ ProcessResume(c) \/ DeleteResume(c) \/
             TakeJob(c)
      PROVE Steps(ResumePcs)
  <2>1. CASE UploadResume(c)
    <3>1. Finish(c)
      BY <2>1 DEF UploadResume, Answered
    <3> QED
      BY <1>1, <3>1, FinishPuts DEF ResumePcs
  <2>2. CASE CompleteResume(c)
    <3>1. \E k : k.pc = "uploaded" /\ call' = [call EXCEPT ![c] = k]
      BY Zenon, <2>2 DEF CompleteResume, Ask, Call
    <3> QED
      BY Zenon, <1>1, <3>1, SomePuts DEF ResumePcs
  <2>3. CASE ProcessResume(c)
    <3>1. \E k : k.pc = "process" /\ call' = [call EXCEPT ![c] = k]
      BY Zenon, <2>3 DEF ProcessResume, Ask, Call
    <3> QED
      BY Zenon, <1>1, <3>1, SomePuts DEF ResumePcs
  <2>4. CASE DeleteResume(c)
    <3>1. \E k : k.pc = "forget" /\ call' = [call EXCEPT ![c] = k]
      BY Zenon, <2>4 DEF DeleteResume, Ask, Call
    <3> QED
      BY Zenon, <1>1, <3>1, SomePuts DEF ResumePcs
  <2>5. CASE TakeJob(c)
    <3>1. \/ \E k : k.pc = "take" /\ call' = [call EXCEPT ![c] = k]
          \/ \E k : k.pc = "done" /\ call' = [call EXCEPT ![c] = k]
      BY Zenon, <2>5 DEF TakeJob, Ask, Answered, Finish, Over, Call
    <3> QED
      BY <1>1, <3>1, SomePuts DEF ResumePcs
  <2> QED
    BY <1>1, <2>1, <2>2, <2>3, <2>4, <2>5
<1>2. ASSUME NEW c \in Calls,
             CommitResume(c) \/ CommitProcess(c) \/ DispatchResume(c) \/ ForgetObject(c) \/
             CommitForget(c) \/ StartJob(c) \/ FinishJob(c) \/ RetryJob(c)
      PROVE Steps(ResumePcs)
  <2>1. CASE CommitResume(c)
    <3>1. c \in Flying
      BY <2>1 DEF CommitResume, Flying
    <3>2. Finish(c)
      BY <2>1 DEF CommitResume, Answered
    <3> QED
      BY <3>1, <3>2, FinishPuts DEF ResumePcs
  <2>2. CASE CommitProcess(c)
    <3>1. c \in Flying
      BY <2>2 DEF CommitProcess, Flying
    <3>2. \E k : k.pc = "dispatch" /\ call' = [call EXCEPT ![c] = k]
      BY Zenon, <2>2 DEF CommitProcess, Call
    <3> QED
      BY Zenon, <3>1, <3>2, SomePuts DEF ResumePcs
  <2>3. CASE DispatchResume(c)
    <3>1. c \in Flying
      BY <2>3 DEF DispatchResume, Flying
    <3>2. Finish(c)
      BY <2>3 DEF DispatchResume, Answered
    <3> QED
      BY <3>1, <3>2, FinishPuts DEF ResumePcs
  <2>4. CASE ForgetObject(c)
    <3>1. c \in Flying
      BY <2>4 DEF ForgetObject, Flying
    <3>2. call' = [call EXCEPT ![c] = [call[c] EXCEPT !.pc = "forgotten"]] /\ call[c].pc = "forget"
      BY <2>4 DEF ForgetObject
    <3>3. [call[c] EXCEPT !.pc = "forgotten"].pc = "forgotten"
      BY <3>2
    <3>4. \E k : k.pc = "forgotten" /\ call' = [call EXCEPT ![c] = k]
      BY Zenon, <3>2, <3>3
    <3> QED
      BY Zenon, <3>1, <3>4, SomePuts DEF ResumePcs
  <2>5. CASE CommitForget(c)
    <3>1. c \in Flying
      BY <2>5 DEF CommitForget, Flying
    <3>2. Finish(c)
      BY <2>5 DEF CommitForget, Answered
    <3> QED
      BY <3>1, <3>2, FinishPuts DEF ResumePcs
  <2>6. CASE StartJob(c)
    <3>1. c \in Flying
      BY <2>6 DEF StartJob, Flying
    <3>2. call' = [call EXCEPT ![c] = [call[c] EXCEPT !.pc = "working"]] /\ call[c].pc = "take"
      BY <2>6 DEF StartJob, Ask
    <3>3. [call[c] EXCEPT !.pc = "working"].pc = "working"
      BY <3>2
    <3>4. \E k : k.pc = "working" /\ call' = [call EXCEPT ![c] = k]
      BY Zenon, <3>2, <3>3
    <3> QED
      BY Zenon, <3>1, <3>4, SomePuts DEF ResumePcs
  <2>7. CASE FinishJob(c)
    <3>1. c \in Flying
      BY <2>7 DEF FinishJob, Flying
    <3>2. Finish(c)
      BY <2>7 DEF FinishJob, Answered
    <3> QED
      BY <3>1, <3>2, FinishPuts DEF ResumePcs
  <2>8. CASE RetryJob(c)
    <3>1. c \in Flying
      BY <2>8 DEF RetryJob, Flying
    <3>2. Finish(c)
      BY <2>8 DEF RetryJob, Answered
    <3> QED
      BY <3>1, <3>2, FinishPuts DEF ResumePcs
  <2> QED
    BY <1>2, <2>1, <2>2, <2>3, <2>4, <2>5, <2>6, <2>7, <2>8
<1>3. CASE PutResume
  BY <1>3 DEF PutResume, pipelineVars, Steps
<1>4. CASE GoesStale
  BY <1>4 DEF GoesStale, pipelineVars, Steps
<1> QED
  BY <1>1, <1>2, <1>3, <1>4 DEF ProcessingNext

LEMMA ReviewPuts == ReviewNext => Steps(ReviewPcs)
<1> SUFFICES ASSUME ReviewNext PROVE Steps(ReviewPcs)
  OBVIOUS
<1>1. ASSUME NEW c \in Calls, Turn(c),
             CreateReview(c) \/ UpdateItem(c) \/ ValidateReview(c) \/ CancelReview(c) \/ Confirm(c)
             \/ AddSkill(c) \/ DeleteSkill(c) \/ MoveRequest(c)
      PROVE Steps(ReviewPcs)
  <2>1. CASE CreateReview(c)
    <3>1. Finish(c)
      BY <2>1 DEF CreateReview, Answered
    <3> QED
      BY <1>1, <3>1, FinishPuts DEF ReviewPcs
  <2>2. CASE UpdateItem(c)
    <3>1. Finish(c)
      BY <2>2 DEF UpdateItem, Answered
    <3> QED
      BY <1>1, <3>1, FinishPuts DEF ReviewPcs
  <2>3. CASE ValidateReview(c)
    <3>1. Finish(c)
      BY <2>3 DEF ValidateReview, Answered
    <3> QED
      BY <1>1, <3>1, FinishPuts DEF ReviewPcs
  <2>4. CASE CancelReview(c)
    <3>1. Finish(c)
      BY <2>4 DEF CancelReview, Answered
    <3> QED
      BY <1>1, <3>1, FinishPuts DEF ReviewPcs
  <2>5. CASE Confirm(c)
    <3>1. \E k : k.pc = "confirm" /\ call' = [call EXCEPT ![c] = k]
      BY Zenon, <2>5 DEF Confirm, Ask, Call
    <3> QED
      BY Zenon, <1>1, <3>1, SomePuts DEF ReviewPcs
  <2>6. CASE AddSkill(c)
    <3>1. Finish(c)
      BY <2>6 DEF AddSkill, Answered
    <3> QED
      BY <1>1, <3>1, FinishPuts DEF ReviewPcs
  <2>7. CASE DeleteSkill(c)
    <3>1. Finish(c)
      BY <2>7 DEF DeleteSkill, Answered
    <3> QED
      BY <1>1, <3>1, FinishPuts DEF ReviewPcs
  <2>8. CASE MoveRequest(c)
    <3>1. Finish(c)
      BY <2>8 DEF MoveRequest, RequestMade, RequestClosed
    <3> QED
      BY <1>1, <3>1, FinishPuts DEF ReviewPcs
  <2> QED
    BY <1>1, <2>1, <2>2, <2>3, <2>4, <2>5, <2>6, <2>7, <2>8
<1>2. ASSUME NEW c \in Calls,
             BeginImport(c) \/ CommitImport(c)
      PROVE Steps(ReviewPcs)
  <2>1. CASE BeginImport(c)
    <3>1. c \in Flying
      BY <2>1 DEF BeginImport, Flying
    <3>2. \E k : k.pc = "import" /\ call' = [call EXCEPT ![c] = k]
      BY Zenon, <2>1 DEF BeginImport, Call
    <3> QED
      BY Zenon, <3>1, <3>2, SomePuts DEF ReviewPcs
  <2>2. CASE CommitImport(c)
    <3>1. c \in Flying
      BY <2>2 DEF CommitImport, Flying
    <3>2. Finish(c)
      BY <2>2 DEF CommitImport
    <3> QED
      BY <3>1, <3>2, FinishPuts DEF ReviewPcs
  <2> QED
    BY <1>2, <2>1, <2>2
<1> QED
  BY <1>1, <1>2 DEF ReviewNext

LEMMA PaperPuts == PapersNext => Steps(PaperPcs)
<1> SUFFICES ASSUME PapersNext PROVE Steps(PaperPcs)
  OBVIOUS
<1>1. ASSUME NEW c \in Calls, Turn(c),
             PaperIntent(c) \/ PaperComplete(c) \/ PaperDelete(c)
      PROVE Steps(PaperPcs)
  <2>1. CASE PaperIntent(c)
    <3>1. Finish(c)
      BY <2>1 DEF PaperIntent, Answered
    <3> QED
      BY <1>1, <3>1, FinishPuts DEF PaperPcs
  <2>2. CASE PaperComplete(c)
    <3>1. \E k : k.pc = "paper" /\ call' = [call EXCEPT ![c] = k]
      BY Zenon, <2>2 DEF PaperComplete, Ask, Call
    <3> QED
      BY Zenon, <1>1, <3>1, SomePuts DEF PaperPcs
  <2>3. CASE PaperDelete(c)
    <3>1. \E k : k.pc = "tear" /\ call' = [call EXCEPT ![c] = k]
      BY Zenon, <2>3 DEF PaperDelete, Ask, Call
    <3> QED
      BY Zenon, <1>1, <3>1, SomePuts DEF PaperPcs
  <2> QED
    BY <1>1, <2>1, <2>2, <2>3
<1>2. ASSUME NEW c \in Calls,
             CommitPaper(c) \/ CommitTear(c)
      PROVE Steps(PaperPcs)
  <2>1. CASE CommitPaper(c)
    <3>1. c \in Flying
      BY Zenon, <2>1 DEF CommitPaper, Flying
    <3>2. Finish(c)
      BY Zenon, <2>1 DEF CommitPaper, Answered
    <3> QED
      BY <3>1, <3>2, FinishPuts DEF PaperPcs
  <2>2. CASE CommitTear(c)
    <3>1. c \in Flying
      BY <2>2 DEF CommitTear, Flying
    <3>2. Finish(c)
      BY <2>2 DEF CommitTear, Answered
    <3> QED
      BY <3>1, <3>2, FinishPuts DEF PaperPcs
  <2> QED
    BY <1>2, <2>1, <2>2
<1> QED
  BY <1>1, <1>2 DEF PapersNext

LEMMA StudyPuts == StudyNext => Steps(StudyPcs)
<1> SUFFICES ASSUME StudyNext PROVE Steps(StudyPcs)
  OBVIOUS
<1>1. ASSUME NEW c \in Calls, Turn(c),
             AddStudy(c) \/ EditStudy(c) \/ SubmitStudy(c) \/ DeleteStudy(c) \/ Transcript(c) \/
             Apply(c) \/ Attach(c) \/ UpdateContact(c) \/ SubmitForReview(c) \/ Resubmit(c) \/
             SubmitInformation(c) \/ Withdraw(c) \/ RequestCorrections(c) \/ ReviewContact(c) \/
             Approve(c) \/ Close(c) \/ ReturnToVerifier(c) \/ AdminCancel(c) \/
             RecordClarification(c) \/ ResolveOrganization(c) \/ InstitutionActs(c) \/
             InstitutionAnswers(c) \/ Respond(c)
      PROVE Steps(StudyPcs)
  <2>1. CASE AddStudy(c)
    <3>1. Finish(c)
      BY <2>1 DEF AddStudy
    <3> QED
      BY <1>1, <3>1, FinishPuts DEF StudyPcs
  <2>2. CASE EditStudy(c)
    <3>1. \E k : k.pc = "edit" /\ call' = [call EXCEPT ![c] = k]
      BY Zenon, <2>2 DEF EditStudy, OnStudy, Call
    <3> QED
      BY Zenon, <1>1, <3>1, SomePuts DEF StudyPcs
  <2>3. CASE SubmitStudy(c)
    <3>1. \E k : k.pc = "enter" /\ call' = [call EXCEPT ![c] = k]
      BY Zenon, <2>3 DEF SubmitStudy, OnStudy, Call
    <3> QED
      BY Zenon, <1>1, <3>1, SomePuts DEF StudyPcs
  <2>4. CASE DeleteStudy(c)
    <3>1. Finish(c)
      BY <2>4 DEF DeleteStudy, AtOnce
    <3> QED
      BY <1>1, <3>1, FinishPuts DEF StudyPcs
  <2>5. CASE Transcript(c)
    <3>1. Finish(c)
      BY <2>5 DEF Transcript, AtOnce
    <3> QED
      BY <1>1, <3>1, FinishPuts DEF StudyPcs
  <2>6. CASE Apply(c)
    <3>1. Finish(c)
      BY <2>6 DEF Apply, AtOnce
    <3> QED
      BY <1>1, <3>1, FinishPuts DEF StudyPcs
  <2>7. CASE Attach(c)
    <3>1. \E k : k.pc = "attach" /\ call' = [call EXCEPT ![c] = k]
      BY Zenon, <2>7 DEF Attach, Engage, Call
    <3> QED
      BY Zenon, <1>1, <3>1, SomePuts DEF StudyPcs
  <2>8. CASE UpdateContact(c)
    <3>1. \E k : k.pc = "contact" /\ call' = [call EXCEPT ![c] = k]
      BY Zenon, <2>8 DEF UpdateContact, Engage, Call
    <3> QED
      BY Zenon, <1>1, <3>1, SomePuts DEF StudyPcs
  <2>9. CASE SubmitForReview(c)
    <3>1. \E k : k.pc = "submitted" /\ call' = [call EXCEPT ![c] = k]
      BY Zenon, <2>9 DEF SubmitForReview, Engage, Call
    <3> QED
      BY Zenon, <1>1, <3>1, SomePuts DEF StudyPcs
  <2>10. CASE Resubmit(c)
    <3>1. \E k : k.pc = "resubmitted" /\ call' = [call EXCEPT ![c] = k]
      BY Zenon, <2>10 DEF Resubmit, Engage, Call
    <3> QED
      BY Zenon, <1>1, <3>1, SomePuts DEF StudyPcs
  <2>11. CASE SubmitInformation(c)
    <3>1. \E k : k.pc = "informed" /\ call' = [call EXCEPT ![c] = k]
      BY Zenon, <2>11 DEF SubmitInformation, Engage, Call
    <3> QED
      BY Zenon, <1>1, <3>1, SomePuts DEF StudyPcs
  <2>12. CASE Withdraw(c)
    <3>1. Finish(c)
      BY <2>12 DEF Withdraw, AtOnce
    <3> QED
      BY <1>1, <3>1, FinishPuts DEF StudyPcs
  <2>13. CASE RequestCorrections(c)
    <3>1. \E k : k.pc = "corrected" /\ call' = [call EXCEPT ![c] = k]
      BY Zenon, <2>13 DEF RequestCorrections, Engage, Call
    <3> QED
      BY Zenon, <1>1, <3>1, SomePuts DEF StudyPcs
  <2>14. CASE ReviewContact(c)
    <3>1. \E k : k.pc = "contact" /\ call' = [call EXCEPT ![c] = k]
      BY Zenon, <2>14 DEF ReviewContact, Engage, Call
    <3> QED
      BY Zenon, <1>1, <3>1, SomePuts DEF StudyPcs
  <2>15. CASE Approve(c)
    <3>1. \E k : k.pc = "approved" /\ call' = [call EXCEPT ![c] = k]
      BY Zenon, <2>15 DEF Approve, Engage, Call
    <3> QED
      BY Zenon, <1>1, <3>1, SomePuts DEF StudyPcs
  <2>16. CASE Close(c)
    <3>1. \E k : k.pc = "closed" /\ call' = [call EXCEPT ![c] = k]
      BY Zenon, <2>16 DEF Close, Engage, Call
    <3> QED
      BY Zenon, <1>1, <3>1, SomePuts DEF StudyPcs
  <2>17. CASE ReturnToVerifier(c)
    <3>1. \E k : k.pc = "moved" /\ call' = [call EXCEPT ![c] = k]
      BY Zenon, <2>17 DEF ReturnToVerifier, Engage, Call
    <3> QED
      BY Zenon, <1>1, <3>1, SomePuts DEF StudyPcs
  <2>18. CASE AdminCancel(c)
    <3>1. \E k : k.pc = "moved" /\ call' = [call EXCEPT ![c] = k]
      BY Zenon, <2>18 DEF AdminCancel, Engage, Call
    <3> QED
      BY Zenon, <1>1, <3>1, SomePuts DEF StudyPcs
  <2>19. CASE RecordClarification(c)
    <3>1. \E k : k.pc = "informed" /\ call' = [call EXCEPT ![c] = k]
      BY Zenon, <2>19 DEF RecordClarification, Engage, Call
    <3> QED
      BY Zenon, <1>1, <3>1, SomePuts DEF StudyPcs
  <2>20. CASE ResolveOrganization(c)
    <3>1. Finish(c)
      BY <2>20 DEF ResolveOrganization, AtOnce
    <3> QED
      BY <1>1, <3>1, FinishPuts DEF StudyPcs
  <2>21. CASE InstitutionActs(c)
    <3>1. \E k : k.pc = "moved" /\ call' = [call EXCEPT ![c] = k]
      BY Zenon, <2>21 DEF InstitutionActs, Engage, Call
    <3> QED
      BY Zenon, <1>1, <3>1, SomePuts DEF StudyPcs
  <2>22. CASE InstitutionAnswers(c)
    <3>1. \E k : k.pc = "answered" /\ call' = [call EXCEPT ![c] = k]
      BY Zenon, <2>22 DEF InstitutionAnswers, Engage, Call
    <3> QED
      BY Zenon, <1>1, <3>1, SomePuts DEF StudyPcs
  <2>23. CASE Respond(c)
    <3>1. \E k : k.pc = "respond" /\ call' = [call EXCEPT ![c] = k]
      BY Zenon, <2>23 DEF Respond, Engage, Call
    <3> QED
      BY Zenon, <1>1, <3>1, SomePuts DEF StudyPcs
  <2> QED
    BY <1>1, <2>1, <2>2, <2>3, <2>4, <2>5, <2>6, <2>7, <2>8, <2>9, <2>10, <2>11, <2>12, <2>13, <2>14, <2>15, <2>16, <2>17, <2>18, <2>19, <2>20, <2>21, <2>22, <2>23
<1>2. ASSUME NEW c \in Calls,
             CommitEdit(c) \/ CommitSubmit(c) \/ CommitRequest(c) \/ CommitApproval(c) \/
             CommitClosing(c) \/ CommitResponse(c)
      PROVE Steps(StudyPcs)
  <2>1. CASE CommitEdit(c)
    <3>1. c \in Flying
      BY <2>1 DEF CommitEdit, Flying
    <3>2. Finish(c)
      BY <2>1 DEF CommitEdit, Commit
    <3> QED
      BY <3>1, <3>2, FinishPuts DEF StudyPcs
  <2>2. CASE CommitSubmit(c)
    <3>1. c \in Flying
      BY <2>2 DEF CommitSubmit, Flying
    <3>2. Finish(c)
      BY <2>2 DEF CommitSubmit, Commit
    <3> QED
      BY <3>1, <3>2, FinishPuts DEF StudyPcs
  <2>3. CASE CommitRequest(c)
    <3>1. c \in Flying
      BY <2>3 DEF CommitRequest, Plain, Flying
    <3>2. Finish(c)
      BY <2>3 DEF CommitRequest, Commit
    <3> QED
      BY <3>1, <3>2, FinishPuts DEF StudyPcs
  <2>4. CASE CommitApproval(c)
    <3>1. c \in Flying
      BY <2>4 DEF CommitApproval, Flying
    <3>2. Finish(c)
      BY <2>4 DEF CommitApproval, Commit
    <3> QED
      BY <3>1, <3>2, FinishPuts DEF StudyPcs
  <2>5. CASE CommitClosing(c)
    <3>1. c \in Flying
      BY <2>5 DEF CommitClosing, Flying
    <3>2. Finish(c)
      BY <2>5 DEF CommitClosing, Commit
    <3> QED
      BY <3>1, <3>2, FinishPuts DEF StudyPcs
  <2>6. CASE CommitResponse(c)
    <3>1. c \in Flying
      BY <2>6 DEF CommitResponse, Flying
    <3>2. Finish(c)
      BY <2>6 DEF CommitResponse, Commit
    <3> QED
      BY <3>1, <3>2, FinishPuts DEF StudyPcs
  <2> QED
    BY <1>2, <2>1, <2>2, <2>3, <2>4, <2>5, <2>6
<1>3. CASE ViewLink
  BY <1>3 DEF ViewLink, Steps
<1>4. CASE LinkLapses
  BY <1>4 DEF LinkLapses, Steps
<1> QED
  BY <1>1, <1>2, <1>3, <1>4 DEF StudyNext

LEMMA FilePuts == FileNext => Steps(FilePcs)
<1> SUFFICES ASSUME FileNext PROVE Steps(FilePcs)
  OBVIOUS
<1>1. ASSUME NEW c \in Calls, Turn(c),
             AddEvidence(c) \/ UpdateEvidence(c) \/ SendForReview(c) \/ Moves(c) \/ AssignReviewer(c)
             \/ UpdateInternalNote(c) \/ ChangePriority(c) \/ AdminRemark(c) \/ EditClaim(c)
      PROVE Steps(FilePcs)
  <2>1. CASE AddEvidence(c)
    <3>1. \E k : k.pc = "exhibit" /\ call' = [call EXCEPT ![c] = k]
      BY Zenon, <2>1 DEF AddEvidence, OnFile, Call
    <3> QED
      BY Zenon, <1>1, <3>1, SomePuts DEF FilePcs
  <2>2. CASE UpdateEvidence(c)
    <3>1. \E k : k.pc = "amend" /\ call' = [call EXCEPT ![c] = k]
      BY Zenon, <2>2 DEF UpdateEvidence, OnFile, Call
    <3> QED
      BY Zenon, <1>1, <3>1, SomePuts DEF FilePcs
  <2>3. CASE SendForReview(c)
    <3>1. \E k : k.pc = "consent" /\ call' = [call EXCEPT ![c] = k]
      BY Zenon, <2>3 DEF SendForReview, OnFile, Call
    <3> QED
      BY Zenon, <1>1, <3>1, SomePuts DEF FilePcs
  <2>4. CASE Moves(c)
    <3>1. Finish(c)
      BY <2>4 DEF Moves
    <3> QED
      BY <1>1, <3>1, FinishPuts DEF FilePcs
  <2>5. CASE AssignReviewer(c)
    <3>1. Finish(c)
      BY <2>5 DEF AssignReviewer, Put
    <3> QED
      BY <1>1, <3>1, FinishPuts DEF FilePcs
  <2>6. CASE UpdateInternalNote(c)
    <3>1. Finish(c)
      BY <2>6 DEF UpdateInternalNote, Put
    <3> QED
      BY <1>1, <3>1, FinishPuts DEF FilePcs
  <2>7. CASE ChangePriority(c)
    <3>1. Finish(c)
      BY <2>7 DEF ChangePriority, Put
    <3> QED
      BY <1>1, <3>1, FinishPuts DEF FilePcs
  <2>8. CASE AdminRemark(c)
    <3>1. Finish(c)
      BY <2>8 DEF AdminRemark, Put
    <3> QED
      BY <1>1, <3>1, FinishPuts DEF FilePcs
  <2>9. CASE EditClaim(c)
    <3>1. \/ \E k : k.pc = "update" /\ call' = [call EXCEPT ![c] = k]
          \/ \E k : k.pc = "edit" /\ call' = [call EXCEPT ![c] = k]
      BY Zenon, <2>9 DEF EditClaim, UpdateCase, Begin, EditStudy, OnStudy, Call
    <3> QED
      BY <1>1, <3>1, SomePuts DEF FilePcs
  <2> QED
    BY <1>1, <2>1, <2>2, <2>3, <2>4, <2>5, <2>6, <2>7, <2>8, <2>9
<1>2. ASSUME NEW c \in Calls,
             CommitClaim(c) \/ CommitEvidence(c) \/ CommitAmendment(c) \/ CommitConsent(c)
      PROVE Steps(FilePcs)
  <2>1. CASE CommitClaim(c)
    <3>1. c \in Flying
      BY <2>1 DEF CommitClaim, CommitUpdate, CommitEdit, Flying
    <3>2. Finish(c)
      BY <2>1 DEF CommitClaim, CommitUpdate, CommitEdit, Commit
    <3> QED
      BY <3>1, <3>2, FinishPuts DEF FilePcs
  <2>2. CASE CommitEvidence(c)
    <3>1. c \in Flying
      BY <2>2 DEF CommitEvidence, Flying
    <3>2. Finish(c)
      BY <2>2 DEF CommitEvidence
    <3> QED
      BY <3>1, <3>2, FinishPuts DEF FilePcs
  <2>3. CASE CommitAmendment(c)
    <3>1. c \in Flying
      BY <2>3 DEF CommitAmendment, Flying
    <3>2. Finish(c)
      BY <2>3 DEF CommitAmendment
    <3> QED
      BY <3>1, <3>2, FinishPuts DEF FilePcs
  <2>4. CASE CommitConsent(c)
    <3>1. c \in Flying
      BY <2>4 DEF CommitConsent, Flying
    <3>2. Finish(c)
      BY <2>4 DEF CommitConsent
    <3> QED
      BY <3>1, <3>2, FinishPuts DEF FilePcs
  <2> QED
    BY <1>2, <2>1, <2>2, <2>3, <2>4
<1>3. CASE OpenPortal
  BY <1>3 DEF OpenPortal, Steps
<1> QED
  BY <1>1, <1>2, <1>3 DEF FileNext

LEMMA PassportPuts == PassportNext => Steps(PassportPcs)
<1> SUFFICES ASSUME PassportNext PROVE Steps(PassportPcs)
  OBVIOUS
<1>1. ASSUME NEW c \in Calls, Turn(c),
             RecordConsent(c) \/ WithdrawConsent(c) \/ Calculate(c) \/ ClaimsMove(c)
      PROVE Steps(PassportPcs)
  <2>1. CASE RecordConsent(c)
    <3>1. Finish(c)
      BY <2>1 DEF RecordConsent
    <3> QED
      BY <1>1, <3>1, FinishPuts DEF PassportPcs
  <2>2. CASE WithdrawConsent(c)
    <3>1. Finish(c)
      BY <2>2 DEF WithdrawConsent
    <3> QED
      BY <1>1, <3>1, FinishPuts DEF PassportPcs
  <2>3. CASE Calculate(c)
    <3>1. \/ \E k : k.pc = "scored" /\ call' = [call EXCEPT ![c] = k]
          \/ \E k : k.pc = "persist" /\ call' = [call EXCEPT ![c] = k]
      <4>1. CASE consent = 0
        <5>1. call' = [call EXCEPT ![c] = Call("persist", None, None, None, Stamp(c, 0, Required, FALSE))]
          BY <2>3, <4>1 DEF Calculate
        <5> QED
          BY Zenon, <5>1 DEF Call
      <4>2. CASE consent # 0
        <5>1. call' = [call EXCEPT ![c] = Call("scored", None, None, Facts, consent)]
          BY <2>3, <4>2 DEF Calculate
        <5> QED
          BY Zenon, <5>1 DEF Call
      <4> QED
        BY <4>1, <4>2
    <3> QED
      BY <1>1, <3>1, SomePuts DEF PassportPcs
  <2>4. CASE ClaimsMove(c)
    <3>1. \/ \E k : k.pc = "delete" /\ call' = [call EXCEPT ![c] = k]
          \/ \E k : k.pc = "status" /\ call' = [call EXCEPT ![c] = k]
          \/ \E k : k.pc = "done" /\ call' = [call EXCEPT ![c] = k]
      BY Zenon, <2>4 DEF ClaimsMove, AddCase, DeleteCase, Transition, DeleteStudy, Begin, AtOnce, Finish, Over, Call
    <3> QED
      BY <1>1, <3>1, SomePuts DEF PassportPcs
  <2> QED
    BY <1>1, <2>1, <2>2, <2>3, <2>4
<1>2. ASSUME NEW c \in Calls,
             ClaimMoved(c) \/ Weigh(c) \/ Persist(c)
      PROVE Steps(PassportPcs)
  <2>1. CASE ClaimMoved(c)
    <3>1. c \in Flying
      BY <2>1 DEF ClaimMoved, CommitStatus, CommitDelete, Flying
    <3>2. Finish(c)
      BY <2>1 DEF ClaimMoved, CommitStatus, CommitDelete
    <3> QED
      BY <3>1, <3>2, FinishPuts DEF PassportPcs
  <2>2. CASE Weigh(c)
    <3>1. c \in Flying
      BY <2>2 DEF Weigh, Flying
    <3>2. \E arg : call' = [call EXCEPT ![c] = Call("persist", None, None, None, arg)]
      BY <2>2, Zenon DEF Weigh
    <3>3. \E k : k.pc = "persist" /\ call' = [call EXCEPT ![c] = k]
      BY Zenon, <3>2 DEF Call
    <3> QED
      BY Zenon, <3>1, <3>3, SomePuts DEF PassportPcs
  <2>3. CASE Persist(c)
    <3>1. c \in Flying
      BY <2>3 DEF Persist, Flying
    <3>2. Finish(c)
      BY <2>3 DEF Persist
    <3> QED
      BY <3>1, <3>2, FinishPuts DEF PassportPcs
  <2> QED
    BY <1>2, <2>1, <2>2, <2>3
<1> QED
  BY <1>1, <1>2 DEF PassportNext

LEMMA VisitPuts == VisitsNext => Steps(VisitPcs)
<1> SUFFICES ASSUME VisitsNext PROVE Steps(VisitPcs)
  OBVIOUS
<1>1. ASSUME NEW c \in Calls, Turn(c),
             RecordView(c)
      PROVE Steps(VisitPcs)
  <2>1. CASE RecordView(c)
    <3>1. \E k : k.pc = "visit" /\ call' = [call EXCEPT ![c] = k]
      BY Zenon, <2>1 DEF RecordView, Call
    <3> QED
      BY Zenon, <1>1, <3>1, SomePuts DEF VisitPcs
  <2> QED
    BY <1>1, <2>1
<1>2. ASSUME NEW c \in Calls,
             CommitView(c)
      PROVE Steps(VisitPcs)
  <2>1. CASE CommitView(c)
    <3>1. c \in Flying
      BY <2>1 DEF CommitView, Flying
    <3>2. Finish(c)
      BY <2>1 DEF CommitView
    <3> QED
      BY <3>1, <3>2, FinishPuts DEF VisitPcs
  <2> QED
    BY <1>2, <2>1
<1>3. CASE DayPasses
  BY <1>3 DEF DayPasses, Steps
<1> QED
  BY <1>1, <1>2, <1>3 DEF VisitsNext

LEMMA ConnectorPuts == ConnectorsNext => Steps(ConnectorPcs)
<1> SUFFICES ASSUME ConnectorsNext PROVE Steps(ConnectorPcs)
  OBVIOUS
<1>1. ASSUME NEW c \in Calls, Turn(c),
             Verify(c) \/ MoveBegins(c) \/ UpdateConnector(c)
      PROVE Steps(ConnectorPcs)
  <2>1. CASE Verify(c)
    <3>1. \E k : k.pc = "verify" /\ call' = [call EXCEPT ![c] = k]
      BY Zenon, <2>1 DEF Verify, OnFile, Call
    <3> QED
      BY Zenon, <1>1, <3>1, SomePuts DEF ConnectorPcs
  <2>2. CASE MoveBegins(c)
    <3>1. \E k : k.pc = "moving" /\ call' = [call EXCEPT ![c] = k]
      BY Zenon, <2>2 DEF MoveBegins, OnFile, Call
    <3> QED
      BY Zenon, <1>1, <3>1, SomePuts DEF ConnectorPcs
  <2>3. CASE UpdateConnector(c)
    <3>1. Finish(c)
      BY <2>3 DEF UpdateConnector
    <3> QED
      BY <1>1, <3>1, FinishPuts DEF ConnectorPcs
  <2> QED
    BY <1>1, <2>1, <2>2, <2>3
<1>2. ASSUME NEW c \in Calls,
             Connect(c) \/ ConnectorAnswers(c) \/ CommitMove(c)
      PROVE Steps(ConnectorPcs)
  <2>1. CASE Connect(c)
    <3>1. c \in Flying
      BY <2>1 DEF Connect, Flying
    <3>2. call' = [call EXCEPT ![c] = [call[c] EXCEPT !.pc = "connecting"]] /\ call[c].pc = "verify"
      BY <2>1 DEF Connect
    <3>3. [call[c] EXCEPT !.pc = "connecting"].pc = "connecting"
      BY <3>2
    <3>4. \E k : k.pc = "connecting" /\ call' = [call EXCEPT ![c] = k]
      BY Zenon, <3>2, <3>3
    <3> QED
      BY Zenon, <3>1, <3>4, SomePuts DEF ConnectorPcs
  <2>2. CASE ConnectorAnswers(c)
    <3>1. c \in Flying
      BY <2>2 DEF ConnectorAnswers, Flying
    <3>2. Finish(c)
      BY <2>2 DEF ConnectorAnswers
    <3> QED
      BY <3>1, <3>2, FinishPuts DEF ConnectorPcs
  <2>3. CASE CommitMove(c)
    <3>1. c \in Flying
      BY <2>3 DEF CommitMove, Flying
    <3>2. Finish(c)
      BY <2>3 DEF CommitMove
    <3> QED
      BY <3>1, <3>2, FinishPuts DEF ConnectorPcs
  <2> QED
    BY <1>2, <2>1, <2>2, <2>3
<1> QED
  BY <1>1, <1>2 DEF ConnectorsNext

(* ---- the records of a profile ---- *)
\* What a call to the records does, whichever service it is to.
RecordStart(c) ==
  \/ \E kind \in Kinds :
       \/ \E filed \in BOOLEAN : AddEntry(c, kind, filed)
       \/ EditEntry(c, kind) \/ DeleteEntry(c, kind) \/ MarkUploaded(c, kind)
       \/ SheetIntent(c, kind) \/ SheetComplete(c, kind) \/ SheetDelete(c, kind)
  \/ AnnounceFile(c) \/ ConfirmRecord(c)
RecordCommit(c) == CommitRecord(c) \/ CommitSheet(c) \/ CommitDecision(c)

LEMMA RecordActs ==
  RecordsNext => \/ ConfirmationLapses
                 \/ \E c \in Calls : (Turn(c) /\ RecordStart(c)) \/ RecordCommit(c)
<1> SUFFICES ASSUME NEW c \in Calls,
                    InternshipService(c) \/ FreelanceContractService(c) \/ GigPlatformService(c) \/ ProjectService(c)
                    \/ CertificationService(c) \/ PortfolioService(c) \/ InternshipDocuments(c)
                    \/ FreelanceDocuments(c) \/ ConfirmRecord(c)
             PROVE RecordStart(c)
  BY Zenon DEF RecordsNext, RecordCommit
<1>1. ASSUME NEW kind \in Kinds, CRUD(c, kind) PROVE RecordStart(c)
  BY Zenon, <1>1 DEF CRUD, RecordStart
<1>2. {"internship", "freelance", "gig", "project", "certification", "portfolio"} \subseteq Kinds
  BY DEF Kinds
<1>3. CASE InternshipService(c) \/ FreelanceContractService(c) \/ GigPlatformService(c) \/ ProjectService(c)
  BY <1>1, <1>2, <1>3 DEF InternshipService, FreelanceContractService, GigPlatformService, ProjectService
<1>4. CASE CertificationService(c)
  BY Zenon, <1>1, <1>2, <1>4 DEF CertificationService, RecordStart
<1>5. CASE PortfolioService(c)
  BY <1>1, <1>2, <1>5 DEF PortfolioService, RecordStart
<1>6. CASE InternshipDocuments(c) \/ FreelanceDocuments(c)
  BY <1>2, <1>6 DEF InternshipDocuments, FreelanceDocuments, RecordStart
<1>7. CASE ConfirmRecord(c)
  BY <1>7 DEF RecordStart
<1> QED
  BY <1>3, <1>4, <1>5, <1>6, <1>7

LEMMA RecordPuts == RecordsNext => Steps(RecordPcs)
<1> SUFFICES ASSUME RecordsNext PROVE Steps(RecordPcs)
  OBVIOUS
<1>1. ASSUME NEW c \in Calls, Turn(c),
             AnnounceFile(c) \/ ConfirmRecord(c)
      PROVE Steps(RecordPcs)
  <2>1. CASE AnnounceFile(c)
    <3>1. Finish(c)
      BY <2>1 DEF AnnounceFile
    <3> QED
      BY <1>1, <3>1, FinishPuts DEF RecordPcs
  <2>2. CASE ConfirmRecord(c)
    <3>1. \E k : k.pc = "confirming" /\ call' = [call EXCEPT ![c] = k]
      BY Zenon, <2>2 DEF ConfirmRecord, OnRecord, Call
    <3> QED
      BY Zenon, <1>1, <3>1, SomePuts DEF RecordPcs
  <2> QED
    BY <1>1, <2>1, <2>2
<1>2. ASSUME NEW c \in Calls,
             CommitRecord(c) \/ CommitSheet(c) \/ CommitDecision(c)
      PROVE Steps(RecordPcs)
  <2>1. CASE CommitRecord(c)
    <3>1. c \in Flying
      BY <2>1 DEF CommitRecord, Flying
    <3>2. Finish(c)
      BY <2>1 DEF CommitRecord
    <3> QED
      BY <3>1, <3>2, FinishPuts DEF RecordPcs
  <2>2. CASE CommitSheet(c)
    <3>1. c \in Flying
      BY <2>2 DEF CommitSheet, Flying
    <3>2. Finish(c)
      BY <2>2 DEF CommitSheet
    <3> QED
      BY <3>1, <3>2, FinishPuts DEF RecordPcs
  <2>3. CASE CommitDecision(c)
    <3>1. c \in Flying
      BY <2>3 DEF CommitDecision, Flying
    <3>2. Finish(c)
      BY <2>3 DEF CommitDecision
    <3> QED
      BY <3>1, <3>2, FinishPuts DEF RecordPcs
  <2> QED
    BY <1>2, <2>1, <2>2, <2>3
<1>3. CASE ConfirmationLapses
  BY <1>3 DEF ConfirmationLapses, Steps
<1>4. ASSUME NEW c \in Calls, Turn(c), NEW kind \in Kinds,
             \/ \E filed \in BOOLEAN : AddEntry(c, kind, filed)
             \/ EditEntry(c, kind) \/ DeleteEntry(c, kind) \/ MarkUploaded(c, kind)
             \/ SheetIntent(c, kind) \/ SheetComplete(c, kind) \/ SheetDelete(c, kind)
      PROVE Steps(RecordPcs)
  <2>1. CASE EditEntry(c, kind)
    <3>1. \E k : k.pc = "record" /\ call' = [call EXCEPT ![c] = k]
      BY Zenon, <2>1 DEF EditEntry, OnRecord, Call
    <3> QED
      BY Zenon, <1>4, <3>1, SomePuts DEF RecordPcs
  <2>2. CASE SheetComplete(c, kind)
    <3>1. \E k : k.pc = "sheet" /\ call' = [call EXCEPT ![c] = k]
      BY Zenon, <2>2 DEF SheetComplete, Call
    <3> QED
      BY Zenon, <1>4, <3>1, SomePuts DEF RecordPcs
  <2>3. CASE ~EditEntry(c, kind) /\ ~SheetComplete(c, kind)
    <3>1. Finish(c)
      BY Zenon, <1>4, <2>3 DEF AddEntry, DeleteEntry, MarkUploaded, SheetIntent, SheetDelete
    <3> QED
      BY <1>4, <3>1, FinishPuts DEF RecordPcs
  <2> QED
    BY <2>1, <2>2, <2>3
<1> QED
  BY <1>1, <1>2, <1>3, <1>4, RecordActs DEF RecordStart, RecordCommit

(* ---- the parts beside one another ---- *)
Pcs == PipelinePcs \cup ResumePcs \cup ReviewPcs \cup PaperPcs \cup StudyPcs \cup FilePcs \cup RecordPcs
       \cup PassportPcs \cup VisitPcs \cup ConnectorPcs

LEMMA StepsMore ==
  ASSUME NEW H, NEW K, H \subseteq K, Steps(H)
  PROVE Steps(K)
<1>1. CASE call' = call
  BY <1>1 DEF Steps
<1>2. CASE call' # call
  <2>1. PICK c \in Calls : \E k : k.pc \in H /\ Puts(c, k)
    BY <1>2 DEF Steps
  <2>2. PICK k : k.pc \in H /\ Puts(c, k)
    BY <2>1
  <2>3. k.pc \in K
    BY <2>2
  <2> QED
    BY <2>2, <2>3, Zenon DEF Steps
<1> QED
  BY <1>1, <1>2

LEMMA CrashPuts ==
  ASSUME NEW c \in Calls, Crash(c)
  PROVE Steps({"done"})
<1>1. c \in Flying /\ Finish(c)
  BY DEF Crash
<1> QED
  BY <1>1, FinishPuts

\* A step that is of no part only ends a call, or does nothing.
LEMMA NextParts ==
  ASSUME [Next]_vars
  PROVE \/ PipelineNext /\ UNCHANGED <<resumeVars, skills, reviews, batches, paperVars, studyVars>>
           /\ UNCHANGED <<fileVars, recordVars, passportVars, connectorVars>>
        \/ ProcessingNext /\ UNCHANGED <<reviewVars, paperVars, studyVars, fileVars, recordVars, passportVars, connectorVars>>
        \/ ReviewNext /\ UNCHANGED <<paperVars, studyVars, fileVars, recordVars, passportVars, connectorVars>>
        \/ PapersNext /\ UNCHANGED <<resumeVars, reviewVars, studyVars, fileVars, recordVars, passportVars, connectorVars>>
        \/ StudyNext /\ UNCHANGED <<resumeVars, reviewVars, paperVars, fileVars, recordVars, passportVars, connectorVars>>
        \/ (\E c \in Calls : Crash(c)) /\ UNCHANGED <<resumeVars, reviewVars, paperVars, studyVars, fileVars, recordVars, passportVars, connectorVars>>
        \/ FileNext /\ UNCHANGED <<resumeVars, reviewVars, paperVars, recordVars, passportVars, connectorVars>>
        \/ RecordsNext /\ UNCHANGED <<cases, files, ghosts, resumeVars, reviewVars, paperVars, studyVars, fileVars, passportVars, connectorVars>>
        \/ PassportNext /\ UNCHANGED <<resumeVars, reviewVars, paperVars, fileVars, recordVars, connectorVars>>
        \/ VisitsNext /\ UNCHANGED <<cases, files, ghosts, resumeVars, reviewVars, paperVars, studyVars, fileVars, recordVars, connectorVars>>
        \/ ConnectorsNext /\ UNCHANGED <<cases, files, ghosts, resumeVars, reviewVars, paperVars, studyVars, recordVars, passportVars>>
        \/ UNCHANGED vars
BY Zenon DEF Next, Pipelined

\* The step of one part is aside from the others.
LEMMA RecordsAside ==
  ASSUME [Next]_vars
  PROVE RecordsNext \/ (UNCHANGED recordVars /\ Steps(Pcs \ {"record", "sheet", "confirming"}))
<1> DEFINE H == Pcs \ {"record", "sheet", "confirming"}
<1>1. /\ PipelinePcs \subseteq H /\ ResumePcs \subseteq H /\ ReviewPcs \subseteq H /\ PaperPcs \subseteq H
      /\ StudyPcs \subseteq H /\ FilePcs \subseteq H /\ PassportPcs \subseteq H /\ VisitPcs \subseteq H
      /\ ConnectorPcs \subseteq H /\ {"done"} \subseteq H
  BY DEF Pcs, PipelinePcs, ResumePcs, ReviewPcs, PaperPcs, StudyPcs, FilePcs, RecordPcs, PassportPcs, VisitPcs, ConnectorPcs
<1> HIDE DEF H
<1>2. CASE PipelineNext /\ UNCHANGED recordVars
  BY <1>1, <1>2, PipelinePuts, StepsMore DEF H
<1>3. CASE ProcessingNext /\ UNCHANGED recordVars
  BY <1>1, <1>3, ResumePuts, StepsMore DEF H
<1>4. CASE ReviewNext /\ UNCHANGED recordVars
  BY <1>1, <1>4, ReviewPuts, StepsMore DEF H
<1>5. CASE PapersNext /\ UNCHANGED recordVars
  BY <1>1, <1>5, PaperPuts, StepsMore DEF H
<1>6. CASE StudyNext /\ UNCHANGED recordVars
  BY <1>1, <1>6, StudyPuts, StepsMore DEF H
<1>7. CASE (\E c \in Calls : Crash(c)) /\ UNCHANGED recordVars
  BY <1>1, <1>7, CrashPuts, StepsMore DEF H
<1>8. CASE FileNext /\ UNCHANGED recordVars
  BY <1>1, <1>8, FilePuts, StepsMore DEF H
<1>9. CASE PassportNext /\ UNCHANGED recordVars
  BY <1>1, <1>9, PassportPuts, StepsMore DEF H
<1>10. CASE VisitsNext /\ UNCHANGED recordVars
  BY <1>1, <1>10, VisitPuts, StepsMore DEF H
<1>11. CASE ConnectorsNext /\ UNCHANGED recordVars
  BY <1>1, <1>11, ConnectorPuts, StepsMore DEF H
<1>12. CASE UNCHANGED vars
  BY <1>12 DEF vars, pipelineVars, recordVars, Steps
<1> QED
  BY <1>2, <1>3, <1>4, <1>5, <1>6, <1>7, <1>8, <1>9, <1>10, <1>11, <1>12, NextParts, Zenon

\* What a step that is aside leaves of a call.
LEMMA AsideCalls ==
  ASSUME DOMAIN call = Calls, NEW H, Steps(H)
  PROVE DOMAIN call' = Calls /\ \A c \in Calls : call'[c] = call[c] \/ call'[c].pc \in H
<1>1. CASE call' = call
  BY <1>1
<1>2. CASE call' # call
  <2>1. PICK c \in Calls : \E k : k.pc \in H /\ Puts(c, k)
    BY <1>2 DEF Steps
  <2>2. PICK k : k.pc \in H /\ Puts(c, k)
    BY <2>1
  <2>3. call' = [call EXCEPT ![c] = k]
    BY <2>2 DEF Puts
  <2> QED
    BY <2>2, <2>3
<1> QED
  BY <1>1, <1>2

\* What a call that is over leaves of the others.
LEMMA FinishCalls ==
  ASSUME DOMAIN call = Calls, NEW c \in Calls, Finish(c)
  PROVE /\ DOMAIN call' = Calls /\ call'[c].pc = "done"
        /\ \A d \in Calls : d # c => call'[d] = call[d]
BY DEF Finish, Over, Call

(* ---- identity documents ---- *)
LEMMA PapersAside ==
  ASSUME [Next]_vars
  PROVE PapersNext \/ (UNCHANGED paperVars /\ Steps(Pcs \ {"paper", "tear"}))
<1> DEFINE H == Pcs \ {"paper", "tear"}
<1>1. /\ PipelinePcs \subseteq H /\ ResumePcs \subseteq H /\ ReviewPcs \subseteq H /\ StudyPcs \subseteq H /\ FilePcs \subseteq H
      /\ RecordPcs \subseteq H /\ PassportPcs \subseteq H /\ VisitPcs \subseteq H /\ ConnectorPcs \subseteq H /\ {"done"} \subseteq H
  BY DEF Pcs, PipelinePcs, ResumePcs, ReviewPcs, PaperPcs, StudyPcs, FilePcs, RecordPcs, PassportPcs, VisitPcs, ConnectorPcs
<1> HIDE DEF H
<1>2. CASE PipelineNext /\ UNCHANGED paperVars
  BY <1>1, <1>2, PipelinePuts, StepsMore DEF H
<1>3. CASE ProcessingNext /\ UNCHANGED paperVars
  BY <1>1, <1>3, ResumePuts, StepsMore DEF H
<1>4. CASE ReviewNext /\ UNCHANGED paperVars
  BY <1>1, <1>4, ReviewPuts, StepsMore DEF H
<1>5. CASE StudyNext /\ UNCHANGED paperVars
  BY <1>1, <1>5, StudyPuts, StepsMore DEF H
<1>6. CASE (\E c \in Calls : Crash(c)) /\ UNCHANGED paperVars
  BY <1>1, <1>6, CrashPuts, StepsMore DEF H
<1>7. CASE FileNext /\ UNCHANGED paperVars
  BY <1>1, <1>7, FilePuts, StepsMore DEF H
<1>8. CASE RecordsNext /\ UNCHANGED paperVars
  BY <1>1, <1>8, RecordPuts, StepsMore DEF H
<1>9. CASE PassportNext /\ UNCHANGED paperVars
  BY <1>1, <1>9, PassportPuts, StepsMore DEF H
<1>10. CASE VisitsNext /\ UNCHANGED paperVars
  BY <1>1, <1>10, VisitPuts, StepsMore DEF H
<1>11. CASE ConnectorsNext /\ UNCHANGED paperVars
  BY <1>1, <1>11, ConnectorPuts, StepsMore DEF H
<1>12. CASE UNCHANGED vars
  BY <1>12 DEF vars, pipelineVars, paperVars, Steps
<1> QED
  BY <1>2, <1>3, <1>4, <1>5, <1>6, <1>7, <1>8, <1>9, <1>10, <1>11, <1>12, NextParts, Zenon

\* What is there of a document, what it replaces, and what superseded it, belong together.
PapersMade == \A p \in Papers :
  /\ ~papers[p].there => papers[p] = NoPaper
  /\ papers[p].replaces # None => papers[papers[p].replaces].there
  /\ papers[p].superseded # None => papers[p].superseded \in Newer(p)
  /\ Newer(p) # {} /\ ~papers[p].deleted => papers[p].superseded # None
\* A completion under way supersedes what the document replaces, unless that is gone or superseded already.
CompletionHeld(k) ==
  /\ k.on \in Papers /\ papers[k.on].there
  /\ k.arg # None => k.arg = papers[k.on].replaces
  /\ LET r == papers[k.on].replaces IN
     r # None => k.arg = r \/ papers[r].deleted \/ papers[r].superseded # None
PaperCalls == \A c \in Calls :
  /\ call[c].pc = "paper" => CompletionHeld(call[c])
  /\ call[c].pc = "tear" => call[c].on \in Papers /\ papers[call[c].on].there
PapersHeld == DOMAIN call = Calls /\ papers \in [Papers -> Paper] /\ PapersMade /\ PaperCalls

LEMMA PapersHeldAside ==
  ASSUME PapersHeld, UNCHANGED paperVars, Steps(Pcs \ {"paper", "tear"})
  PROVE PapersHeld'
<1>1. DOMAIN call' = Calls /\ \A c \in Calls : call'[c].pc \in {"paper", "tear"} => call'[c] = call[c]
  BY AsideCalls DEF PapersHeld
<1>2. papers' = papers
  BY DEF paperVars
<1>3. PapersMade'
  BY <1>2 DEF PapersHeld, PapersMade, Newer
<1>4. PaperCalls'
  BY <1>1, <1>2 DEF PapersHeld, PaperCalls, CompletionHeld
<1> QED
  BY <1>1, <1>2, <1>3, <1>4 DEF PapersHeld

LEMMA PaperIntentHeld ==
  ASSUME PapersHeld, NEW c \in Calls, PaperIntent(c)
  PROVE PapersHeld'
<1>1. PICK p \in Papers, r \in Current \cup {None} :
        ~papers[p].there /\ papers' = [papers EXCEPT ![p] = [NoPaper EXCEPT !.there = TRUE, !.replaces = r]]
  BY Zenon DEF PaperIntent
<1>2. Finish(c)
  BY DEF PaperIntent, Answered
<1>3. /\ DOMAIN call' = Calls /\ call'[c].pc = "done"
      /\ \A d \in Calls : d # c => call'[d] = call[d]
  BY <1>2, FinishCalls DEF PapersHeld
<1> PICK row : row = [NoPaper EXCEPT !.there = TRUE, !.replaces = r]
  OBVIOUS
<1>4. r \in Papers \cup {None} /\ (r # None => papers[r].there)
  BY DEF Current, Kept
<1>5. row \in Paper /\ row.there /\ ~row.done /\ row.replaces = r /\ row.superseded = None /\ ~row.deleted
  BY Zenon, <1>4 DEF NoPaper, Paper
<1>6. papers'[p] = row /\ (\A q \in Papers : q # p => papers'[q] = papers[q]) /\ papers' \in [Papers -> Paper]
  BY <1>1, <1>5 DEF PapersHeld
<1>7. papers[p] = NoPaper /\ ~papers[p].done
  BY <1>1 DEF PapersHeld, PapersMade, NoPaper
<1>8. \A q \in Papers : Newer(q)' = Newer(q)
  BY <1>1, <1>5, <1>6 DEF Newer
<1>9. \A q \in Papers : p \notin Newer(q)
  BY <1>1 DEF Newer
<1>10. Newer(p) = {}
  <2> SUFFICES ASSUME NEW q \in Newer(p) PROVE FALSE
    OBVIOUS
  <2>1. q \in Papers /\ papers[q].replaces = p
    BY DEF Newer
  <2>2. p # None
    BY NullAssumption
  <2> QED
    BY <1>1, <2>1, <2>2 DEF PapersHeld, PapersMade
<1>11. PapersMade'
  <2> SUFFICES ASSUME NEW q \in Papers
               PROVE /\ ~papers'[q].there => papers'[q] = NoPaper
                     /\ papers'[q].replaces # None => papers'[papers'[q].replaces].there
                     /\ papers'[q].superseded # None => papers'[q].superseded \in Newer(q)
                     /\ Newer(q) # {} /\ ~papers'[q].deleted => papers'[q].superseded # None
    BY <1>8 DEF PapersMade
  <2>1. CASE q = p
    BY <2>1, <1>1, <1>4, <1>5, <1>6, <1>10
  <2>2. CASE q # p
    <3>1. papers'[q] = papers[q] /\ papers[q] \in Paper
      BY <2>2, <1>6 DEF PapersHeld
    <3>2. papers[q].replaces # None => papers'[papers[q].replaces].there
      BY Zenon, <3>1, <1>5, <1>6 DEF PapersHeld, PapersMade, Paper
    <3> QED
      BY <3>1, <3>2 DEF PapersHeld, PapersMade
  <2> QED
    BY <2>1, <2>2
<1>12. PaperCalls'
  <2> SUFFICES ASSUME NEW d \in Calls, d # c PROVE PaperCalls!(d)'
    BY <1>3 DEF PaperCalls
  <2>1. call'[d] = call[d]
    BY <1>3
  <2>2. CASE call[d].pc = "paper"
    <3>1. CompletionHeld(call[d])
      BY <2>2 DEF PapersHeld, PaperCalls
    <3> PICK q \in Papers : q = call[d].on
      BY <3>1 DEF CompletionHeld
    <3>2. q # p /\ papers'[q] = papers[q] /\ papers[q] \in Paper
      BY <3>1, <1>1, <1>6 DEF CompletionHeld, PapersHeld
    <3>3. papers[q].replaces # None => papers'[papers[q].replaces] = papers[papers[q].replaces]
      BY <3>2, <1>1, <1>6 DEF PapersHeld, PapersMade, Paper
    <3>4. CompletionHeld(call[d])'
      BY <3>1, <3>2, <3>3, <2>1 DEF CompletionHeld
    <3> QED
      BY <3>4, <2>1, <2>2
  <2>3. CASE call[d].pc # "paper"
    BY <2>1, <2>3, <1>1, <1>6 DEF PapersHeld, PaperCalls
  <2> QED
    BY <2>2, <2>3
<1> QED
  BY <1>3, <1>6, <1>11, <1>12 DEF PapersHeld

\* A completion or a removal begins; no document changes.
LEMMA PaperAskedHeld ==
  ASSUME PapersHeld, NEW c \in Calls, PaperComplete(c) \/ PaperDelete(c)
  PROVE PapersHeld'
<1>1. CASE PaperComplete(c)
  <2>1. PICK p \in Kept : /\ call' = [call EXCEPT ![c] = Call("paper", None, p, None, IF papers[p].replaces \in Current THEN papers[p].replaces ELSE None)]
                          /\ papers' = papers
    BY Zenon, <1>1 DEF PaperComplete, Ask
  <2> PICK arg : arg = IF papers[p].replaces \in Current THEN papers[p].replaces ELSE None
    OBVIOUS
  <2> PICK k : k = Call("paper", None, p, None, arg)
    OBVIOUS
  <2>2. /\ DOMAIN call' = Calls /\ \A d \in Calls : d # c => call'[d] = call[d]
        /\ call'[c] = k /\ k.pc = "paper" /\ k.on = p /\ k.arg = arg
    BY <2>1 DEF PapersHeld, Call
  <2>3. p \in Papers /\ papers[p].there /\ papers[p] \in Paper
    BY DEF Kept, PapersHeld
  <2>4. papers[p].replaces # None => papers[p].replaces \in Papers /\ papers[papers[p].replaces].there
    BY <2>3 DEF PapersHeld, PapersMade, Paper
  <2>5. CompletionHeld(k)'
    BY Zenon, <2>1, <2>2, <2>3, <2>4 DEF CompletionHeld, Current, Kept
  <2>6. PaperCalls'
    <3> SUFFICES ASSUME NEW d \in Calls PROVE PaperCalls!(d)'
      BY DEF PaperCalls
    <3>1. CASE d = c
      BY <3>1, <2>2, <2>5
    <3>2. CASE d # c
      BY <3>2, <2>1, <2>2 DEF PapersHeld, PaperCalls, CompletionHeld
    <3> QED
      BY <3>1, <3>2
  <2>7. PapersMade'
    BY <2>1 DEF PapersHeld, PapersMade, Newer
  <2> QED
    BY <2>1, <2>2, <2>6, <2>7 DEF PapersHeld
<1>2. CASE PaperDelete(c)
  <2>1. PICK p \in Kept : call' = [call EXCEPT ![c] = Call("tear", None, p, None, None)] /\ papers' = papers
    BY Zenon, <1>2 DEF PaperDelete, Ask
  <2>2. /\ DOMAIN call' = Calls /\ \A d \in Calls : d # c => call'[d] = call[d]
        /\ call'[c].pc = "tear" /\ call'[c].on \in Papers /\ papers[call'[c].on].there
    BY <2>1 DEF PapersHeld, Call, Kept
  <2>3. PaperCalls'
    BY <2>1, <2>2 DEF PapersHeld, PaperCalls, CompletionHeld
  <2>4. PapersMade'
    BY <2>1 DEF PapersHeld, PapersMade, Newer
  <2> QED
    BY <2>1, <2>2, <2>3, <2>4 DEF PapersHeld
<1> QED
  BY <1>1, <1>2

LEMMA CommitPaperHeld ==
  ASSUME PapersHeld, NEW c \in Calls, CommitPaper(c)
  PROVE PapersHeld'
<1> PICK k : k = call[c]
  OBVIOUS
<1>1. /\ k.pc = "paper" /\ Finish(c)
      /\ papers' = [q \in Papers |-> [papers[q] EXCEPT !.done = @ \/ q = k.on, !.superseded = SupersededBy(k, q)]]
  BY Zenon DEF CommitPaper, Answered
<1>2. CompletionHeld(k)
  BY Zenon, <1>1 DEF PapersHeld, PaperCalls
<1>3. /\ DOMAIN call' = Calls /\ call'[c].pc = "done"
      /\ \A d \in Calls : d # c => call'[d] = call[d]
  BY Zenon, <1>1, FinishCalls DEF PapersHeld
<1> PICK p \in Papers : p = k.on
  BY <1>2 DEF CompletionHeld
<1>4. papers[p].there /\ papers[p] \in Paper
  BY <1>2 DEF CompletionHeld, PapersHeld
<1> PICK r \in Papers \cup {None} : r = papers[p].replaces
  BY <1>4 DEF Paper
<1>5. k.arg \in {r, None} /\ (r # None => k.arg = r \/ papers[r].deleted \/ papers[r].superseded # None)
  BY <1>2 DEF CompletionHeld
<1>6. \A q \in Papers :
        /\ papers'[q] \in Paper /\ papers'[q].there = papers[q].there /\ papers'[q].deleted = papers[q].deleted
        /\ papers'[q].replaces = papers[q].replaces
        /\ (papers'[q].done <=> papers[q].done \/ q = p)
        /\ papers'[q].superseded = IF q = k.arg THEN p ELSE papers[q].superseded
  <2> SUFFICES ASSUME NEW q \in Papers
               PROVE LET new == [papers[q] EXCEPT !.done = @ \/ q = k.on, !.superseded = SupersededBy(k, q)] IN
                     /\ new \in Paper /\ new.there = papers[q].there /\ new.deleted = papers[q].deleted
                     /\ new.replaces = papers[q].replaces
                     /\ (new.done <=> papers[q].done \/ q = p)
                     /\ new.superseded = IF q = k.arg THEN p ELSE papers[q].superseded
    BY Zenon, <1>1
  <2>1. papers[q] \in Paper
    BY DEF PapersHeld
  <2>2. SupersededBy(k, q) \in Papers \cup {None}
    BY <2>1 DEF SupersededBy, Paper
  <2> QED
    BY Zenon, <2>1, <2>2 DEF SupersededBy, Paper
<1>7. papers' \in [Papers -> Paper]
  BY Zenon, <1>1, <1>6
<1>8. \A q, n \in Papers : n \in Newer(q)' <=> n \in Newer(q) \/ (n = p /\ r = q)
  BY <1>4, <1>6 DEF Newer
<1>9. p # None
  BY NullAssumption
<1>10. PapersMade'
  <2> SUFFICES ASSUME NEW q \in Papers
               PROVE /\ ~papers'[q].there => papers'[q] = NoPaper
                     /\ papers'[q].replaces # None => papers'[papers'[q].replaces].there
                     /\ papers'[q].superseded # None => papers'[q].superseded \in Newer(q)'
                     /\ Newer(q)' # {} /\ ~papers'[q].deleted => papers'[q].superseded # None
    BY DEF PapersMade
  <2>1. ~papers'[q].there => papers'[q] = NoPaper
    <3> SUFFICES ASSUME ~papers[q].there PROVE papers'[q] = NoPaper
      BY <1>6
    <3>1. papers[q] = NoPaper /\ q # p
      BY <1>4 DEF PapersHeld, PapersMade
    <3>2. q # k.arg
      BY <1>4, <1>5, <1>9, NullAssumption DEF PapersHeld, PapersMade
    <3>3. ~papers'[q].done /\ papers'[q].superseded = None /\ papers'[q].replaces = None
          /\ ~papers'[q].there /\ ~papers'[q].deleted /\ papers'[q] \in Paper
      BY <1>6, <3>1, <3>2 DEF NoPaper
    <3> QED
      BY Zenon, <3>3 DEF NoPaper, Paper
  <2>2. papers'[q].replaces # None => papers'[papers'[q].replaces].there
    BY <1>6 DEF PapersHeld, PapersMade, Paper
  <2>3. papers'[q].superseded # None => papers'[q].superseded \in Newer(q)'
    <3>1. CASE q = k.arg
      <4>1. r = q /\ papers'[q].superseded = p
        BY <3>1, <1>5, <1>6, NullAssumption
      <4> QED
        BY <4>1, <1>8
    <3>2. CASE q # k.arg
      <4>1. papers'[q].superseded = papers[q].superseded
        BY <3>2, <1>6
      <4>2. papers[q].superseded # None => papers[q].superseded \in Newer(q) /\ papers[q].superseded \in Papers
        BY DEF PapersHeld, PapersMade, Newer
      <4> QED
        BY <4>1, <4>2, <1>8
    <3> QED
      BY <3>1, <3>2
  <2>4. Newer(q)' # {} /\ ~papers'[q].deleted => papers'[q].superseded # None
    <3> SUFFICES ASSUME NEW n \in Newer(q)', ~papers'[q].deleted PROVE papers'[q].superseded # None
      OBVIOUS
    <3>1. n \in Papers
      BY DEF Newer
    <3>2. ~papers[q].deleted
      BY <1>6
    <3>3. CASE n \in Newer(q)
      <4>1. papers[q].superseded # None
        BY <3>2, <3>3 DEF PapersHeld, PapersMade
      <4> QED
        BY <4>1, <1>6, <1>9
    <3>4. CASE n = p /\ r = q
      <4>1. r # None
        BY <3>4, NullAssumption
      <4>2. k.arg = r \/ papers[r].superseded # None
        BY <4>1, <3>2, <3>4, <1>5
      <4> QED
        BY <4>2, <3>4, <1>6, <1>9
    <3> QED
      BY <3>1, <3>3, <3>4, <1>8
  <2> QED
    BY <2>1, <2>2, <2>3, <2>4
<1>11. PaperCalls'
  <2> SUFFICES ASSUME NEW d \in Calls, d # c PROVE PaperCalls!(d)'
    BY <1>3 DEF PaperCalls
  <2>1. call'[d] = call[d]
    BY <1>3
  <2>2. CASE call[d].pc = "paper"
    <3>1. CompletionHeld(call[d])
      BY <2>2 DEF PapersHeld, PaperCalls
    <3> PICK q \in Papers : q = call[d].on
      BY <3>1 DEF CompletionHeld
    <3>2. papers'[q].there /\ papers'[q].replaces = papers[q].replaces /\ papers[q].replaces \in Papers \cup {None}
      BY <3>1, <1>6 DEF CompletionHeld, PapersHeld, Paper
    <3>3. papers[q].replaces # None =>
            \/ call[d].arg = papers[q].replaces \/ papers'[papers[q].replaces].deleted
            \/ papers'[papers[q].replaces].superseded # None
      BY <3>1, <3>2, <1>6, <1>9 DEF CompletionHeld
    <3>4. CompletionHeld(call[d])'
      BY <3>1, <3>2, <3>3, <2>1 DEF CompletionHeld
    <3> QED
      BY <3>4, <2>1, <2>2
  <2>3. CASE call[d].pc # "paper"
    BY <2>1, <2>3, <1>6 DEF PapersHeld, PaperCalls
  <2> QED
    BY <2>2, <2>3
<1> QED
  BY <1>3, <1>7, <1>10, <1>11 DEF PapersHeld

LEMMA CommitTearHeld ==
  ASSUME PapersHeld, NEW c \in Calls, CommitTear(c)
  PROVE PapersHeld'
<1>1. PICK p \in Papers : papers' = [papers EXCEPT ![p].deleted = TRUE] /\ p = call[c].on
  BY Zenon DEF CommitTear, PapersHeld, PaperCalls
<1>2. call[c].pc = "tear" /\ Finish(c)
  BY DEF CommitTear, Answered
<1>3. /\ DOMAIN call' = Calls /\ call'[c].pc = "done"
      /\ \A d \in Calls : d # c => call'[d] = call[d]
  BY <1>2, FinishCalls DEF PapersHeld
<1>4. papers[p] \in Paper /\ [papers[p] EXCEPT !.deleted = TRUE] \in Paper
  BY Zenon DEF PapersHeld, Paper
<1>5. papers' \in [Papers -> Paper]
      /\ \A q \in Papers : /\ papers'[q].there = papers[q].there /\ papers'[q].done = papers[q].done
                           /\ papers'[q].replaces = papers[q].replaces
                           /\ papers'[q].superseded = papers[q].superseded
                           /\ papers[q].deleted => papers'[q].deleted
                           /\ papers'[q].deleted => papers[q].deleted \/ q = p
                           /\ q # p => papers'[q] = papers[q]
  BY <1>1, <1>4 DEF PapersHeld, Paper
<1>6. \A q \in Papers : Newer(q)' = Newer(q)
  BY <1>5 DEF Newer
<1>7. papers[p].there
  BY <1>1, <1>2 DEF PapersHeld, PaperCalls
<1>8. PapersMade'
  <2> SUFFICES ASSUME NEW q \in Papers
               PROVE /\ ~papers'[q].there => papers'[q] = NoPaper
                     /\ papers'[q].replaces # None => papers'[papers'[q].replaces].there
                     /\ papers'[q].superseded # None => papers'[q].superseded \in Newer(q)
                     /\ Newer(q) # {} /\ ~papers'[q].deleted => papers'[q].superseded # None
    BY <1>6 DEF PapersMade
  <2>1. papers'[q].replaces # None => papers'[papers'[q].replaces].there
    BY <1>5 DEF PapersHeld, PapersMade, Paper
  <2> QED
    BY <2>1, <1>5, <1>7 DEF PapersHeld, PapersMade
<1>9. PaperCalls'
  BY <1>3, <1>5 DEF PapersHeld, PaperCalls, CompletionHeld, Paper
<1> QED
  BY <1>3, <1>5, <1>8, <1>9 DEF PapersHeld

LEMMA PapersHeldNext ==
  ASSUME PapersHeld, [Next]_vars
  PROVE PapersHeld'
<1>1. CASE UNCHANGED paperVars /\ Steps(Pcs \ {"paper", "tear"})
  BY <1>1, PapersHeldAside
<1>2. CASE PapersNext
  BY <1>2, PaperIntentHeld, PaperAskedHeld, CommitPaperHeld, CommitTearHeld DEF PapersNext
<1> QED
  BY <1>1, <1>2, PapersAside

LEMMA PapersLineage == PapersHeld => Lineage
BY DEF PapersHeld, PapersMade, Lineage

\* Every record, document and answer is what the code can have made of it.
RecordsTyped ==
  /\ entries \in [Entries -> Entry] /\ sheets \in [Sheets -> Sheet]
  /\ confirmations \in [Entries -> Confirmation] /\ said \in [Entries -> [Fields -> Values]]
  /\ fresh \subseteq Sheets /\ twice \subseteq Entries
RecordsMade == \A e \in Entries :
  entries[e].kind = None => entries[e] = NoEntry /\ confirmations[e].response = "pending"
\* An edit under way saw the fields it names as they are, but for what another one may have changed.
EditHeld(k) ==
  /\ k.on \in Entries /\ entries[k.on].kind # None /\ k.view \in Entry
  /\ k.arg \in [fields : SUBSET Fields, value : Values]
  /\ \A f \in k.arg.fields : <<k.on, f>> \notin clashed => k.view[f] = entries[k.on][f]
\* So did an answer under way.
AnswerHeld(k) ==
  /\ k.on \in Entries /\ entries[k.on].kind # None /\ k.view \in Entry /\ k.arg \in Decisions
  /\ k.on \notin twice => confirmations[k.on].response = "pending" /\ entries[k.on].status = k.view.status
RecordCalls == \A c \in Calls :
  /\ call[c].pc = "record" => EditHeld(call[c])
  /\ call[c].pc = "sheet" => call[c].on \in Sheets /\ call[c].view \in Sheet
  /\ call[c].pc = "confirming" => AnswerHeld(call[c])
\* Two edits of a field, and two answers about a record, were seen to overlap.
RecordsApart == \A c, d \in Calls : c # d /\ call[c].on = call[d].on =>
  /\ call[c].pc = "record" /\ call[d].pc = "record" =>
       \A f \in call[c].arg.fields : f \in call[d].arg.fields => <<call[c].on, f>> \in clashed
  /\ call[c].pc = "confirming" /\ call[d].pc = "confirming" => call[c].on \in twice
RecordsHeld ==
  /\ DOMAIN call = Calls
  /\ RecordsTyped /\ RecordsMade /\ RecordCalls /\ RecordsApart /\ EditsKept /\ AnswersAgree

LEMMA RecordsHeldAside ==
  ASSUME RecordsHeld, UNCHANGED recordVars, Steps(Pcs \ {"record", "sheet", "confirming"})
  PROVE RecordsHeld'
<1>1. DOMAIN call' = Calls
  BY AsideCalls DEF RecordsHeld
<1>2. \A c \in Calls : call'[c].pc \in {"record", "sheet", "confirming"} => call'[c] = call[c]
  BY AsideCalls DEF RecordsHeld
<1>3. /\ entries' = entries /\ sheets' = sheets /\ confirmations' = confirmations /\ said' = said
      /\ clashed' = clashed /\ fresh' = fresh /\ twice' = twice
  BY DEF recordVars
<1>4. RecordsTyped' /\ RecordsMade'
  BY <1>3 DEF RecordsHeld, RecordsTyped, RecordsMade
<1>5. EditsKept' /\ AnswersAgree'
  BY <1>3 DEF RecordsHeld, EditsKept, AnswersAgree, SheetsOf
<1>6. RecordCalls'
  BY <1>2, <1>3 DEF RecordsHeld, RecordCalls, EditHeld, AnswerHeld
<1>7. RecordsApart'
  BY <1>2, <1>3 DEF RecordsHeld, RecordsApart
<1> QED
  BY <1>1, <1>4, <1>5, <1>6, <1>7 DEF RecordsHeld

LEMMA AddEntryHeld ==
  ASSUME RecordsHeld, NullAssumption, NEW c \in Calls, NEW kind \in Kinds, NEW filed \in BOOLEAN, AddEntry(c, kind, filed)
  PROVE RecordsHeld'
<1>1. PICK e \in Entries :
        /\ entries[e] = NoEntry
        /\ entries' = [entries EXCEPT ![e] = [NoEntry EXCEPT !.kind = kind, !.filed = filed, !.status = Declared(kind)]]
  BY Zenon DEF AddEntry
<1>2. Finish(c) /\ UNCHANGED <<sheets, confirmations, said, clashed, fresh, twice>>
  BY DEF AddEntry
<1>3. /\ DOMAIN call' = Calls /\ call'[c].pc = "done"
      /\ \A d \in Calls : d # c => call'[d] = call[d]
  BY <1>2, FinishCalls DEF RecordsHeld
<1> DEFINE new == [NoEntry EXCEPT !.kind = kind, !.filed = filed, !.status = Declared(kind)]
<1>4. new \in Entry /\ new.kind # None /\ new.title = 1 /\ new.span = 1
  BY Zenon, NullAssumption DEF NoEntry, Entry, Kinds, Declared, Values
<1>5. entries'[e] = new /\ \A x \in Entries : x # e => entries'[x] = entries[x]
  BY <1>1 DEF RecordsHeld, RecordsTyped
<1>6. entries[e].title = 1 /\ entries[e].span = 1 /\ entries[e].kind = None
  BY <1>1 DEF NoEntry
<1> HIDE DEF new
<1>7. RecordsTyped'
  BY <1>1, <1>2, <1>4 DEF RecordsHeld, RecordsTyped, new
<1>8. RecordsMade'
  BY <1>2, <1>4, <1>5 DEF RecordsHeld, RecordsMade
<1>9. EditsKept'
  <2> SUFFICES ASSUME NEW x \in Entries, NEW f \in Fields, <<x, f>> \notin clashed
               PROVE entries'[x][f] = said[x][f]
    BY <1>2 DEF EditsKept
  <2>1. entries[x][f] = said[x][f]
    BY DEF RecordsHeld, EditsKept
  <2>2. entries'[x][f] = entries[x][f]
    BY <1>4, <1>5, <1>6 DEF Fields
  <2> QED
    BY <2>1, <2>2
<1>10. AnswersAgree'
  BY <1>2, <1>5, <1>6 DEF RecordsHeld, RecordsMade, AnswersAgree, SheetsOf
<1>11. RecordCalls'
  BY <1>2, <1>3, <1>5, <1>6 DEF RecordsHeld, RecordCalls, EditHeld, AnswerHeld
<1>12. RecordsApart'
  BY <1>2, <1>3 DEF RecordsHeld, RecordsApart
<1> QED
  BY <1>3, <1>7, <1>8, <1>9, <1>10, <1>11, <1>12 DEF RecordsHeld

\* A record is deleted, or its file announced or said to be uploaded: what it says and its status stay.
LEMMA FlagsHeld ==
  ASSUME RecordsHeld, NEW c \in Calls, Finish(c), UNCHANGED <<sheets, confirmations, said, clashed, fresh, twice>>,
         entries' \in [Entries -> Entry],
         \A x \in Entries : /\ entries'[x].kind = entries[x].kind /\ entries'[x].status = entries[x].status
                            /\ entries'[x].title = entries[x].title /\ entries'[x].span = entries[x].span
                            /\ entries[x].kind = None => entries'[x] = entries[x]
  PROVE RecordsHeld'
<1>1. /\ DOMAIN call' = Calls /\ call'[c].pc = "done"
      /\ \A d \in Calls : d # c => call'[d] = call[d]
  BY FinishCalls DEF RecordsHeld
<1>2. RecordsTyped' /\ RecordsMade'
  BY DEF RecordsHeld, RecordsTyped, RecordsMade
<1>3. \A x \in Entries, f \in Fields : entries'[x][f] = entries[x][f]
  BY DEF Fields
<1>4. EditsKept'
  BY <1>3 DEF RecordsHeld, EditsKept
<1>5. AnswersAgree'
  BY DEF RecordsHeld, AnswersAgree, SheetsOf
<1>6. RecordCalls'
  <2> SUFFICES ASSUME NEW d \in Calls, d # c PROVE RecordCalls!(d)'
    BY <1>1 DEF RecordCalls
  <2>1. call'[d] = call[d]
    BY <1>1
  <2>2. CASE call[d].pc = "record"
    <3>1. EditHeld(call[d])
      BY <2>2 DEF RecordsHeld, RecordCalls
    <3>2. EditHeld(call[d])'
      BY <3>1, <2>1, <1>3 DEF EditHeld
    <3> QED
      BY <3>2, <2>1, <2>2
  <2>3. CASE call[d].pc = "confirming"
    <3>1. AnswerHeld(call[d])
      BY <2>3 DEF RecordsHeld, RecordCalls
    <3>2. AnswerHeld(call[d])'
      BY <3>1, <2>1 DEF AnswerHeld
    <3> QED
      BY <3>2, <2>1, <2>3
  <2>4. CASE call[d].pc \notin {"record", "confirming"}
    BY <2>1, <2>4 DEF RecordsHeld, RecordCalls
  <2> QED
    BY <2>2, <2>3, <2>4
<1>7. RecordsApart'
  BY <1>1 DEF RecordsHeld, RecordsApart
<1> QED
  BY <1>1, <1>2, <1>4, <1>5, <1>6, <1>7 DEF RecordsHeld

LEMMA DeleteEntryHeld ==
  ASSUME RecordsHeld, NullAssumption, NEW c \in Calls, NEW kind \in Kinds,
         DeleteEntry(c, kind) \/ MarkUploaded(c, kind) \/ AnnounceFile(c)
  PROVE RecordsHeld'
<1>1. Finish(c) /\ UNCHANGED <<sheets, confirmations, said, clashed, fresh, twice>>
  BY DEF DeleteEntry, MarkUploaded, AnnounceFile
<1>2. PICK e \in LiveEntries :
        \/ entries' = [entries EXCEPT ![e].gone = TRUE]
        \/ entries' = [entries EXCEPT ![e].done = TRUE]
        \/ entries' = [entries EXCEPT ![e].filed = TRUE]
  BY DEF DeleteEntry, MarkUploaded, AnnounceFile, EntriesOf
<1>3. e \in Entries /\ entries[e].kind # None /\ entries[e] \in Entry
  BY DEF LiveEntries, RecordsHeld, RecordsTyped
<1> DEFINE row == entries[e]
<1>4. /\ [row EXCEPT !.gone = TRUE] \in Entry /\ [row EXCEPT !.done = TRUE] \in Entry
      /\ [row EXCEPT !.filed = TRUE] \in Entry
  BY Zenon, <1>3 DEF Entry
<1>5. entries' \in [Entries -> Entry]
  BY Zenon, <1>2, <1>3, <1>4 DEF RecordsHeld, RecordsTyped
<1>6. \A x \in Entries : /\ entries'[x].kind = entries[x].kind /\ entries'[x].status = entries[x].status
                         /\ entries'[x].title = entries[x].title /\ entries'[x].span = entries[x].span
                         /\ entries[x].kind = None => entries'[x] = entries[x]
  <2> PICK new \in {[row EXCEPT !.gone = TRUE], [row EXCEPT !.done = TRUE], [row EXCEPT !.filed = TRUE]} :
            entries' = [entries EXCEPT ![e] = new]
    BY Zenon, <1>2
  <2>1. new.kind = row.kind /\ new.status = row.status /\ new.title = row.title /\ new.span = row.span
    BY <1>3 DEF Entry
  <2> QED
    BY Zenon, <1>3, <2>1 DEF RecordsHeld, RecordsTyped
<1> QED
  BY <1>1, <1>5, <1>6, FlagsHeld

LEMMA EditEntryHeld ==
  ASSUME RecordsHeld, NEW c \in Calls, Turn(c), NEW kind \in Kinds, EditEntry(c, kind)
  PROVE RecordsHeld'
<1>1. PICK e \in EntriesOf(kind), F \in SUBSET Fields \ {{}}, w \in Values :
        /\ OnRecord(c, "record", e, entries[e], [fields |-> F, value |-> w])
        /\ clashed' = clashed \cup {<<e, f>> : f \in {g \in F : \E d \in Flying :
                     call[d].pc = "record" /\ call[d].on = e /\ g \in call[d].arg.fields}}
        /\ UNCHANGED <<entries, sheets, confirmations, said, fresh, twice>>
  BY Zenon DEF EditEntry
<1> PICK k : k = Call("record", e, e, entries[e], [fields |-> F, value |-> w])
  OBVIOUS
<1>2. /\ DOMAIN call' = Calls /\ call'[c] = k
      /\ \A d \in Calls : d # c => call'[d] = call[d]
  BY <1>1 DEF RecordsHeld, OnRecord
<1>3. k.pc = "record" /\ k.on = e /\ k.view = entries[e] /\ k.arg = [fields |-> F, value |-> w]
  BY DEF Call
<1>4. e \in Entries /\ entries[e].kind # None /\ entries[e] \in Entry
  BY DEF LiveEntries, EntriesOf, RecordsHeld, RecordsTyped
<1>5. RecordsTyped' /\ RecordsMade'
  BY <1>1 DEF RecordsHeld, RecordsTyped, RecordsMade
<1>6. EditsKept' /\ AnswersAgree'
  BY <1>1 DEF RecordsHeld, EditsKept, AnswersAgree, SheetsOf
<1>7. EditHeld(k)'
  <2>1. k.arg \in [fields : SUBSET Fields, value : Values]
    BY <1>3
  <2> QED
    BY <1>1, <1>3, <1>4, <2>1 DEF EditHeld
<1>8. RecordCalls'
  <2> SUFFICES ASSUME NEW d \in Calls PROVE RecordCalls!(d)'
    BY DEF RecordCalls
  <2>1. CASE d = c
    BY <2>1, <1>2, <1>3, <1>7
  <2>2. CASE d # c /\ call[d].pc = "record"
    <3>1. EditHeld(call[d])
      BY <2>2 DEF RecordsHeld, RecordCalls
    <3>2. EditHeld(call[d])'
      BY <3>1, <2>2, <1>1, <1>2 DEF EditHeld
    <3> QED
      BY <3>2, <2>2, <1>2
  <2>3. CASE d # c /\ call[d].pc # "record"
    BY <2>3, <1>1, <1>2 DEF RecordsHeld, RecordCalls, AnswerHeld
  <2> QED
    BY <2>1, <2>2, <2>3
<1>9. \A d \in Calls : d # c /\ call[d].pc = "record" /\ call[d].on = e =>
         \A f \in F : f \in call[d].arg.fields => <<e, f>> \in clashed'
  BY <1>1 DEF Flying
<1>10. RecordsApart'
  <2> SUFFICES ASSUME NEW a \in Calls, NEW b \in Calls, a # b, call'[a].on = call'[b].on
               PROVE /\ call'[a].pc = "record" /\ call'[b].pc = "record" =>
                          \A f \in call'[a].arg.fields : f \in call'[b].arg.fields => <<call'[a].on, f>> \in clashed'
                     /\ call'[a].pc = "confirming" /\ call'[b].pc = "confirming" => call'[a].on \in twice'
    BY DEF RecordsApart
  <2>1. CASE a # c /\ b # c
    BY <2>1, <1>1, <1>2 DEF RecordsHeld, RecordsApart
  <2>2. CASE a = c
    BY <2>2, <1>2, <1>3, <1>9
  <2>3. CASE b = c
    BY <2>3, <1>2, <1>3, <1>9
  <2> QED
    BY <2>1, <2>2, <2>3
<1> QED
  BY <1>2, <1>5, <1>6, <1>8, <1>10 DEF RecordsHeld

LEMMA ConfirmRecordHeld ==
  ASSUME RecordsHeld, NEW c \in Calls, Turn(c), ConfirmRecord(c)
  PROVE RecordsHeld'
<1>1. PICK e \in LiveEntries, ans \in Decisions :
        /\ confirmations[e].response = "pending"
        /\ OnRecord(c, "confirming", e, entries[e], ans)
        /\ twice' = twice \cup {x \in {e} : \E o \in Flying : call[o].pc = "confirming" /\ call[o].on = x}
        /\ UNCHANGED <<entries, sheets, confirmations, said, clashed, fresh>>
  BY DEF ConfirmRecord
<1> PICK k : k = Call("confirming", e, e, entries[e], ans)
  OBVIOUS
<1>2. /\ DOMAIN call' = Calls /\ call'[c] = k
      /\ \A d \in Calls : d # c => call'[d] = call[d]
  BY <1>1 DEF RecordsHeld, OnRecord
<1>3. k.pc = "confirming" /\ k.on = e /\ k.view = entries[e] /\ k.arg = ans
  BY DEF Call
<1>4. e \in Entries /\ entries[e].kind # None /\ entries[e] \in Entry
  BY DEF LiveEntries, RecordsHeld, RecordsTyped
<1>5. RecordsTyped' /\ RecordsMade'
  BY <1>1, <1>4 DEF RecordsHeld, RecordsTyped, RecordsMade
<1>6. EditsKept' /\ AnswersAgree'
  BY <1>1 DEF RecordsHeld, EditsKept, AnswersAgree, SheetsOf
<1>7. AnswerHeld(k)'
  BY <1>1, <1>3, <1>4 DEF AnswerHeld
<1>8. RecordCalls'
  <2> SUFFICES ASSUME NEW d \in Calls PROVE RecordCalls!(d)'
    BY DEF RecordCalls
  <2>1. CASE d = c
    BY <2>1, <1>2, <1>3, <1>7
  <2>2. CASE d # c /\ call[d].pc = "confirming"
    <3>1. AnswerHeld(call[d])
      BY <2>2 DEF RecordsHeld, RecordCalls
    <3>2. AnswerHeld(call[d])'
      BY <3>1, <2>2, <1>1, <1>2 DEF AnswerHeld
    <3> QED
      BY <3>2, <2>2, <1>2
  <2>3. CASE d # c /\ call[d].pc # "confirming"
    BY <2>3, <1>1, <1>2 DEF RecordsHeld, RecordCalls, EditHeld
  <2> QED
    BY <2>1, <2>2, <2>3
<1>9. \A d \in Calls : d # c /\ call[d].pc = "confirming" /\ call[d].on = e => e \in twice'
  BY <1>1 DEF Flying
<1>10. RecordsApart'
  <2> SUFFICES ASSUME NEW a \in Calls, NEW b \in Calls, a # b, call'[a].on = call'[b].on
               PROVE /\ call'[a].pc = "record" /\ call'[b].pc = "record" =>
                          \A f \in call'[a].arg.fields : f \in call'[b].arg.fields => <<call'[a].on, f>> \in clashed'
                     /\ call'[a].pc = "confirming" /\ call'[b].pc = "confirming" => call'[a].on \in twice'
    BY DEF RecordsApart
  <2>1. CASE a # c /\ b # c
    BY <2>1, <1>1, <1>2 DEF RecordsHeld, RecordsApart
  <2>2. CASE a = c
    BY <2>2, <1>2, <1>3, <1>9
  <2>3. CASE b = c
    BY <2>3, <1>2, <1>3, <1>9
  <2> QED
    BY <2>1, <2>2, <2>3
<1> QED
  BY <1>2, <1>5, <1>6, <1>8, <1>10 DEF RecordsHeld

\* The documents of a record change by other calls than its answer: by then they are new ones.
LEMMA SheetsHeld ==
  ASSUME RecordsHeld, UNCHANGED <<entries, confirmations, said, clashed, twice>>, DOMAIN call' = Calls,
         NEW c \in Calls, \A d \in Calls : d # c => call'[d] = call[d],
         call'[c].pc \notin {"record", "confirming"},
         call'[c].pc = "sheet" => call'[c].on \in Sheets /\ call'[c].view \in Sheet,
         sheets' \in [Sheets -> Sheet], fresh' \subseteq Sheets, fresh \subseteq fresh',
         \A s \in Sheets : s \in fresh' \/ (sheets'[s].of = sheets[s].of /\ sheets'[s].status = sheets[s].status)
  PROVE RecordsHeld'
<1>1. RecordsTyped' /\ RecordsMade'
  BY DEF RecordsHeld, RecordsTyped, RecordsMade
<1>2. EditsKept'
  BY DEF RecordsHeld, EditsKept
<1>3. AnswersAgree'
  BY DEF RecordsHeld, AnswersAgree, SheetsOf
<1>4. RecordCalls'
  BY DEF RecordsHeld, RecordCalls, EditHeld, AnswerHeld
<1>5. RecordsApart'
  BY DEF RecordsHeld, RecordsApart
<1> QED
  BY <1>1, <1>2, <1>3, <1>4, <1>5 DEF RecordsHeld

LEMMA SheetStepsHeld ==
  ASSUME RecordsHeld, NEW c \in Calls, NEW kind \in Kinds,
         SheetIntent(c, kind) \/ SheetComplete(c, kind) \/ SheetDelete(c, kind) \/ CommitSheet(c)
  PROVE RecordsHeld'
<1>1. CASE SheetIntent(c, kind)
  <2>1. PICK e \in EntriesOf(kind), s \in Sheets :
          /\ sheets[s] = NoSheet /\ sheets' = [sheets EXCEPT ![s].of = e] /\ fresh' = fresh \cup {s}
    BY Zenon, <1>1 DEF SheetIntent
  <2>2. Finish(c) /\ UNCHANGED <<entries, confirmations, said, clashed, twice>>
    BY <1>1 DEF SheetIntent
  <2>3. e \in Entries
    BY DEF EntriesOf, LiveEntries
  <2>4. [sheets[s] EXCEPT !.of = e] \in Sheet
    BY <2>3 DEF RecordsHeld, RecordsTyped, Sheet
  <2>5. sheets' \in [Sheets -> Sheet] /\ \A x \in Sheets : x # s => sheets'[x] = sheets[x]
    BY <2>1, <2>4 DEF RecordsHeld, RecordsTyped
  <2> QED
    BY Zenon, <2>1, <2>2, <2>5, FinishCalls, SheetsHeld DEF RecordsHeld, RecordsTyped
<1>2. CASE SheetComplete(c, kind)
  <2>1. PICK s \in Sheets : \E e : call' = [call EXCEPT ![c] = Call("sheet", e, s, sheets[s], None)]
    BY Zenon, <1>2 DEF SheetComplete, SheetsOf
  <2>2. UNCHANGED recordVars
    BY <1>2 DEF SheetComplete
  <2>3. /\ DOMAIN call' = Calls /\ \A d \in Calls : d # c => call'[d] = call[d]
        /\ call'[c].pc = "sheet" /\ call'[c].on \in Sheets /\ call'[c].view \in Sheet
    BY <2>1 DEF RecordsHeld, RecordsTyped, Call
  <2> QED
    BY <2>2, <2>3, SheetsHeld DEF recordVars, RecordsHeld, RecordsTyped
<1>3. CASE SheetDelete(c, kind)
  <2>1. PICK s \in Sheets : sheets' = [sheets EXCEPT ![s].gone = TRUE]
    BY Zenon, <1>3 DEF SheetDelete, SheetsOf
  <2>2. Finish(c) /\ UNCHANGED <<entries, confirmations, said, clashed, fresh, twice>>
    BY <1>3 DEF SheetDelete
  <2>3. [sheets[s] EXCEPT !.gone = TRUE] \in Sheet
    BY Zenon DEF RecordsHeld, RecordsTyped, Sheet
  <2>4. sheets' \in [Sheets -> Sheet]
        /\ \A x \in Sheets : sheets'[x].of = sheets[x].of /\ sheets'[x].status = sheets[x].status
    BY <2>1, <2>3 DEF RecordsHeld, RecordsTyped, Sheet
  <2> QED
    BY <2>2, <2>4, FinishCalls, SheetsHeld DEF RecordsHeld, RecordsTyped
<1>4. CASE CommitSheet(c)
  <2>1. PICK s \in Sheets : /\ s = call[c].on /\ sheets' = [sheets EXCEPT ![s] = Handed(call[c], sheets[s])]
                            /\ fresh' = fresh \cup {s}
    BY Zenon, <1>4 DEF CommitSheet, RecordsHeld, RecordCalls
  <2>2. Finish(c) /\ UNCHANGED <<entries, confirmations, said, clashed, twice>>
    BY <1>4 DEF CommitSheet
  <2>3. Handed(call[c], sheets[s]) \in Sheet
    BY Zenon DEF RecordsHeld, RecordsTyped, Sheet, Handed
  <2>4. sheets' \in [Sheets -> Sheet] /\ \A x \in Sheets : x # s => sheets'[x] = sheets[x]
    BY <2>1, <2>3 DEF RecordsHeld, RecordsTyped
  <2> QED
    BY <2>1, <2>2, <2>4, FinishCalls, SheetsHeld DEF RecordsHeld, RecordsTyped
<1> QED
  BY <1>1, <1>2, <1>3, <1>4

LEMMA CommitRecordHeld ==
  ASSUME RecordsHeld, NEW c \in Calls, CommitRecord(c)
  PROVE RecordsHeld'
<1> PICK k : k = call[c]
  OBVIOUS
<1>1. /\ k.pc = "record" /\ entries' = [entries EXCEPT ![k.on] = Edited(k, entries[k.on])]
      /\ said' = [said EXCEPT ![k.on] = [f \in Fields |-> IF Named(k, f) THEN k.arg.value ELSE said[k.on][f]]]
      /\ Finish(c) /\ UNCHANGED <<sheets, confirmations, clashed, fresh, twice>>
  BY DEF CommitRecord
<1>2. EditHeld(k)
  BY <1>1 DEF RecordsHeld, RecordCalls
<1> PICK e \in Entries : e = k.on
  BY <1>2 DEF EditHeld
<1>3. /\ entries[e] \in Entry /\ entries[e].kind # None /\ k.view \in Entry /\ k.arg.value \in Values
      /\ \A f \in Fields : f \in k.arg.fields /\ <<e, f>> \notin clashed => k.view[f] = entries[e][f]
  BY <1>2 DEF EditHeld, RecordsHeld, RecordsTyped
<1>4. /\ DOMAIN call' = Calls /\ call'[c].pc = "done"
      /\ \A d \in Calls : d # c => call'[d] = call[d]
  BY <1>1, FinishCalls DEF RecordsHeld
<1> PICK row : row = Edited(k, entries[e])
  OBVIOUS
<1>5. /\ row \in Entry /\ row.kind = entries[e].kind /\ row.status = entries[e].status
      /\ row.title = AsEdited(k, "title", entries[e].title) /\ row.span = AsEdited(k, "span", entries[e].span)
  <2>1. AsEdited(k, "title", entries[e].title) \in Values /\ AsEdited(k, "span", entries[e].span) \in Values
    BY <1>3 DEF AsEdited, Entry
  <2> QED
    BY Zenon, <1>3, <2>1 DEF Edited, Entry
<1>6. entries'[e] = row /\ \A x \in Entries : x # e => entries'[x] = entries[x]
  BY <1>1 DEF RecordsHeld, RecordsTyped
<1>7. \A f \in Fields : entries'[e][f] = AsEdited(k, f, entries[e][f])
  BY <1>5, <1>6 DEF Fields
<1>8. entries' \in [Entries -> Entry]
  BY <1>1, <1>5 DEF RecordsHeld, RecordsTyped
<1>9. /\ \A f \in Fields : said'[e][f] = IF Named(k, f) THEN k.arg.value ELSE said[e][f]
      /\ \A x \in Entries : x # e => said'[x] = said[x]
      /\ said' \in [Entries -> [Fields -> Values]]
  BY <1>1, <1>3 DEF RecordsHeld, RecordsTyped
<1>10. RecordsTyped' /\ RecordsMade'
  BY <1>1, <1>3, <1>5, <1>6, <1>8, <1>9 DEF RecordsHeld, RecordsTyped, RecordsMade
<1>11. EditsKept'
  <2> SUFFICES ASSUME NEW x \in Entries, NEW f \in Fields, <<x, f>> \notin clashed
               PROVE entries'[x][f] = said'[x][f]
    BY <1>1 DEF EditsKept
  <2>1. entries[x][f] = said[x][f]
    BY DEF RecordsHeld, EditsKept
  <2>2. CASE x = e
    BY <2>1, <2>2, <1>3, <1>7, <1>9 DEF AsEdited, Named
  <2>3. CASE x # e
    BY <2>1, <2>3, <1>6, <1>9
  <2> QED
    BY <2>2, <2>3
<1>12. AnswersAgree'
  BY <1>1, <1>5, <1>6 DEF RecordsHeld, AnswersAgree, SheetsOf
<1>13. RecordCalls'
  <2> SUFFICES ASSUME NEW d \in Calls, d # c PROVE RecordCalls!(d)'
    BY <1>4 DEF RecordCalls
  <2>1. call'[d] = call[d]
    BY <1>4
  <2>2. CASE call[d].pc = "record"
    <3>1. EditHeld(call[d])
      BY <2>2 DEF RecordsHeld, RecordCalls
    <3>2. \A f \in call[d].arg.fields : <<call[d].on, f>> \notin clashed =>
            entries'[call[d].on][f] = entries[call[d].on][f]
      <4> SUFFICES ASSUME NEW f \in call[d].arg.fields, <<call[d].on, f>> \notin clashed
                   PROVE entries'[call[d].on][f] = entries[call[d].on][f]
        OBVIOUS
      <4>1. f \in Fields
        BY <3>1 DEF EditHeld
      <4>2. CASE call[d].on = e
        <5>1. ~Named(k, f)
          BY <2>2, <4>2, <1>1 DEF RecordsHeld, RecordsApart, Named
        <5> QED
          BY <4>1, <4>2, <5>1, <1>7 DEF AsEdited
      <4>3. CASE call[d].on # e
        BY <4>3, <3>1, <1>6 DEF EditHeld
      <4> QED
        BY <4>2, <4>3
    <3>3. EditHeld(call[d])'
      BY <3>1, <3>2, <2>1, <1>1, <1>5, <1>6 DEF EditHeld
    <3> QED
      BY <3>3, <2>1, <2>2
  <2>3. CASE call[d].pc = "confirming"
    <3>1. AnswerHeld(call[d])
      BY <2>3 DEF RecordsHeld, RecordCalls
    <3>2. AnswerHeld(call[d])'
      BY <3>1, <2>1, <1>1, <1>5, <1>6 DEF AnswerHeld
    <3> QED
      BY <3>2, <2>1, <2>3
  <2>4. CASE call[d].pc \notin {"record", "confirming"}
    BY <2>1, <2>4 DEF RecordsHeld, RecordCalls
  <2> QED
    BY <2>2, <2>3, <2>4
<1>14. RecordsApart'
  BY <1>1, <1>4 DEF RecordsHeld, RecordsApart
<1> QED
  BY <1>4, <1>10, <1>11, <1>12, <1>13, <1>14 DEF RecordsHeld

LEMMA CommitDecisionHeld ==
  ASSUME RecordsHeld, NEW c \in Calls, CommitDecision(c)
  PROVE RecordsHeld'
<1> PICK k : k = call[c]
  OBVIOUS
<1>1. /\ k.pc = "confirming" /\ confirmations' = [confirmations EXCEPT ![k.on].response = k.arg]
      /\ entries' = [entries EXCEPT ![k.on].status = IF Subject(k.arg) # k.view.status THEN Subject(k.arg)
                                                     ELSE entries[k.on].status]
      /\ sheets' = [s \in Sheets |-> Judged(k.on, k.arg, s)] /\ fresh' = fresh \ SheetsOf(k.on)
      /\ Finish(c) /\ UNCHANGED <<said, clashed, twice>>
  BY DEF CommitDecision
<1>2. AnswerHeld(k)
  BY <1>1 DEF RecordsHeld, RecordCalls
<1> PICK e \in Entries : e = k.on
  BY <1>2 DEF AnswerHeld
<1> PICK ans \in Decisions : ans = k.arg
  BY <1>2 DEF AnswerHeld
<1> PICK st : st = IF Subject(ans) # k.view.status THEN Subject(ans) ELSE entries[e].status
  OBVIOUS
<1>3. entries[e] \in Entry /\ entries[e].kind # None /\ confirmations[e] \in Confirmation
  BY <1>2 DEF AnswerHeld, RecordsHeld, RecordsTyped
<1>4. /\ DOMAIN call' = Calls /\ call'[c].pc = "done"
      /\ \A d \in Calls : d # c => call'[d] = call[d]
  BY <1>1, FinishCalls DEF RecordsHeld
<1>5. Subject(ans) \in {"verified", "rejected", "on_hold"} /\ Papered(ans) \in {"approved", "rejected", "on_hold"}
  BY DEF Subject, Papered, Decisions
<1>6. st \in {"pending", "self_declared", "verified", "rejected", "on_hold"}
  BY <1>3, <1>5 DEF Entry
<1> PICK row : row = [entries[e] EXCEPT !.status = st]
  BY Zenon
<1>7. /\ row \in Entry /\ row.kind = entries[e].kind /\ row.status = st
      /\ row.title = entries[e].title /\ row.span = entries[e].span
  BY <1>3, <1>6 DEF Entry
<1>8. entries'[e] = row /\ (\A x \in Entries : x # e => entries'[x] = entries[x]) /\ entries' \in [Entries -> Entry]
  BY <1>1, <1>7 DEF RecordsHeld, RecordsTyped
<1>9. \A x \in Entries, f \in Fields : entries'[x][f] = entries[x][f]
  BY Zenon, <1>7, <1>8 DEF Fields
<1>10. /\ confirmations'[e].response = ans /\ confirmations' \in [Entries -> Confirmation]
       /\ \A x \in Entries : x # e => confirmations'[x] = confirmations[x]
  <2>1. [confirmations[e] EXCEPT !.response = ans] \in Confirmation
        /\ [confirmations[e] EXCEPT !.response = ans].response = ans
    BY <1>3 DEF Confirmation
  <2> QED
    BY <1>1, <2>1 DEF RecordsHeld, RecordsTyped
<1>11. /\ sheets' \in [Sheets -> Sheet]
       /\ \A s \in Sheets : /\ sheets'[s].of = sheets[s].of
                            /\ sheets[s].of = e => sheets'[s].status = Papered(ans)
                            /\ sheets[s].of # e => sheets'[s] = sheets[s]
  <2> SUFFICES ASSUME NEW s \in Sheets
               PROVE /\ Judged(e, ans, s) \in Sheet /\ Judged(e, ans, s).of = sheets[s].of
                     /\ sheets[s].of = e => Judged(e, ans, s).status = Papered(ans)
                     /\ sheets[s].of # e => Judged(e, ans, s) = sheets[s]
    BY <1>1
  <2>1. sheets[s] \in Sheet
    BY DEF RecordsHeld, RecordsTyped
  <2> QED
    BY <2>1, <1>5 DEF Judged, Sheet
<1>12. RecordsTyped' /\ RecordsMade'
  <2>1. RecordsTyped'
    BY <1>1, <1>8, <1>10, <1>11 DEF RecordsHeld, RecordsTyped
  <2>2. RecordsMade'
    <3> SUFFICES ASSUME NEW x \in Entries, entries'[x].kind = None
                 PROVE entries'[x] = NoEntry /\ confirmations'[x].response = "pending"
      BY DEF RecordsMade
    <3>1. x # e
      BY Zenon, <1>3, <1>7, <1>8
    <3> QED
      BY <3>1, <1>8, <1>10 DEF RecordsHeld, RecordsMade
  <2> QED
    BY <2>1, <2>2
<1>13. EditsKept'
  BY <1>1, <1>9 DEF RecordsHeld, EditsKept
<1>14. AnswersAgree'
  <2> SUFFICES ASSUME NEW x \in Entries, confirmations'[x].response # "pending"
               PROVE /\ \A s \in SheetsOf(x)' : s \notin fresh' => sheets'[s].status = Papered(confirmations'[x].response)
                     /\ x \notin twice => entries'[x].status = Subject(confirmations'[x].response)
    BY <1>1 DEF AnswersAgree
  <2>1. CASE x = e
    <3>1. \A s \in SheetsOf(x)' : sheets'[s].status = Papered(ans)
      BY <2>1, <1>11 DEF SheetsOf
    <3>2. e \notin twice => st = Subject(ans)
      BY <1>2 DEF AnswerHeld
    <3> QED
      BY <2>1, <3>1, <3>2, <1>7, <1>8, <1>10
  <2>2. CASE x # e
    BY <2>2, <1>1, <1>8, <1>10, <1>11 DEF RecordsHeld, AnswersAgree, SheetsOf
  <2> QED
    BY <2>1, <2>2
<1>15. RecordCalls'
  <2> SUFFICES ASSUME NEW d \in Calls, d # c PROVE RecordCalls!(d)'
    BY <1>4 DEF RecordCalls
  <2>1. call'[d] = call[d]
    BY <1>4
  <2>2. CASE call[d].pc = "record"
    <3>1. EditHeld(call[d])
      BY <2>2 DEF RecordsHeld, RecordCalls
    <3>2. EditHeld(call[d])'
      BY <3>1, <2>1, <1>1, <1>7, <1>8, <1>9 DEF EditHeld
    <3> QED
      BY <3>2, <2>1, <2>2
  <2>3. CASE call[d].pc = "confirming"
    <3>1. AnswerHeld(call[d])
      BY <2>3 DEF RecordsHeld, RecordCalls
    <3>2. call[d].on = e => e \in twice
      BY <2>3, <1>1 DEF RecordsHeld, RecordsApart
    <3>3. AnswerHeld(call[d])'
      BY <3>1, <3>2, <2>1, <1>1, <1>7, <1>8, <1>10 DEF AnswerHeld
    <3> QED
      BY <3>3, <2>1, <2>3
  <2>4. CASE call[d].pc \notin {"record", "confirming"}
    BY <2>1, <2>4 DEF RecordsHeld, RecordCalls
  <2> QED
    BY <2>2, <2>3, <2>4
<1>16. RecordsApart'
  BY <1>1, <1>4 DEF RecordsHeld, RecordsApart
<1> QED
  BY <1>4, <1>12, <1>13, <1>14, <1>15, <1>16 DEF RecordsHeld

LEMMA LapseHeld ==
  ASSUME RecordsHeld, ConfirmationLapses
  PROVE RecordsHeld'
<1>1. PICK e \in Entries : confirmations' = [confirmations EXCEPT ![e].lapsed = TRUE]
  BY Zenon DEF ConfirmationLapses
<1>2. UNCHANGED <<entries, sheets, said, clashed, fresh, twice, call>>
  BY DEF ConfirmationLapses
<1>3. [confirmations[e] EXCEPT !.lapsed = TRUE] \in Confirmation
  BY Zenon DEF RecordsHeld, RecordsTyped, Confirmation
<1>4. /\ confirmations' \in [Entries -> Confirmation]
      /\ \A x \in Entries : confirmations'[x].response = confirmations[x].response
  BY <1>1, <1>3 DEF RecordsHeld, RecordsTyped, Confirmation
<1>5. RecordsTyped' /\ RecordsMade'
  BY <1>2, <1>4 DEF RecordsHeld, RecordsTyped, RecordsMade
<1>6. EditsKept' /\ AnswersAgree'
  BY <1>2, <1>4 DEF RecordsHeld, EditsKept, AnswersAgree, SheetsOf
<1>7. RecordCalls' /\ RecordsApart'
  BY <1>2, <1>4 DEF RecordsHeld, RecordCalls, RecordsApart, EditHeld, AnswerHeld
<1> QED
  BY <1>2, <1>5, <1>6, <1>7 DEF RecordsHeld

LEMMA RecordsHeldNext ==
  ASSUME RecordsHeld, [Next]_vars
  PROVE RecordsHeld'
<1>1. CASE UNCHANGED recordVars /\ Steps(Pcs \ {"record", "sheet", "confirming"})
  BY <1>1, RecordsHeldAside
<1>2. CASE RecordsNext
  <2>1. CASE ConfirmationLapses
    BY <2>1, LapseHeld
  <2>2. ASSUME NEW c \in Calls, Turn(c), RecordStart(c) PROVE RecordsHeld'
    <3>1. "portfolio" \in Kinds
      BY DEF Kinds
    <3> QED
      BY <2>2, <3>1, AddEntryHeld, EditEntryHeld, DeleteEntryHeld, SheetStepsHeld, ConfirmRecordHeld, NullAssumption
      DEF RecordStart
  <2>3. ASSUME NEW c \in Calls, RecordCommit(c) PROVE RecordsHeld'
    <3>1. "portfolio" \in Kinds
      BY DEF Kinds
    <3> QED
      BY <2>3, <3>1, CommitRecordHeld, CommitDecisionHeld, SheetStepsHeld DEF RecordCommit
  <2> QED
    BY <1>2, <2>1, <2>2, <2>3, RecordActs
<1> QED
  BY <1>1, <1>2, RecordsAside

(* ---- visits of the profile ---- *)
\* The passport leaves the visits alone.
LEMMA PassportNoVisits ==
  ASSUME PassportNext
  PROVE UNCHANGED <<visits, hustled>>
BY Zenon DEF PassportNext, passportVars, RecordConsent, WithdrawConsent, Calculate, Weigh, Persist

LEMMA VisitsAside ==
  ASSUME [Next]_vars
  PROVE VisitsNext \/ (UNCHANGED <<visits, hustled>> /\ Steps(Pcs \ {"visit"}))
<1> DEFINE H == Pcs \ {"visit"}
<1>1. /\ PipelinePcs \subseteq H /\ ResumePcs \subseteq H /\ ReviewPcs \subseteq H /\ PaperPcs \subseteq H /\ StudyPcs \subseteq H
      /\ FilePcs \subseteq H /\ RecordPcs \subseteq H /\ PassportPcs \subseteq H /\ ConnectorPcs \subseteq H /\ {"done"} \subseteq H
  BY DEF Pcs, PipelinePcs, ResumePcs, ReviewPcs, PaperPcs, StudyPcs, FilePcs, RecordPcs, PassportPcs, VisitPcs, ConnectorPcs
<1> HIDE DEF H
<1>2. CASE PipelineNext /\ UNCHANGED passportVars
  BY <1>1, <1>2, PipelinePuts, StepsMore DEF H, passportVars
<1>3. CASE ProcessingNext /\ UNCHANGED passportVars
  BY <1>1, <1>3, ResumePuts, StepsMore DEF H, passportVars
<1>4. CASE ReviewNext /\ UNCHANGED passportVars
  BY <1>1, <1>4, ReviewPuts, StepsMore DEF H, passportVars
<1>5. CASE PapersNext /\ UNCHANGED passportVars
  BY <1>1, <1>5, PaperPuts, StepsMore DEF H, passportVars
<1>6. CASE StudyNext /\ UNCHANGED passportVars
  BY <1>1, <1>6, StudyPuts, StepsMore DEF H, passportVars
<1>7. CASE (\E c \in Calls : Crash(c)) /\ UNCHANGED passportVars
  BY <1>1, <1>7, CrashPuts, StepsMore DEF H, passportVars
<1>8. CASE FileNext /\ UNCHANGED passportVars
  BY <1>1, <1>8, FilePuts, StepsMore DEF H, passportVars
<1>9. CASE RecordsNext /\ UNCHANGED passportVars
  BY <1>1, <1>9, RecordPuts, StepsMore DEF H, passportVars
<1>10. CASE ConnectorsNext /\ UNCHANGED passportVars
  BY <1>1, <1>10, ConnectorPuts, StepsMore DEF H, passportVars
<1>11. CASE PassportNext
  BY <1>1, <1>11, PassportPuts, PassportNoVisits, StepsMore DEF H
<1>12. CASE UNCHANGED vars
  BY <1>12 DEF vars, pipelineVars, passportVars, Steps
<1> QED
  BY <1>2, <1>3, <1>4, <1>5, <1>6, <1>7, <1>8, <1>9, <1>10, <1>11, <1>12, NextParts, Zenon

\* A visit under way knows the rows of the day, unless another one from there overlapped.
VisitHeld(k) ==
  /\ k.on \in Addresses /\ k.view \subseteq Visits /\ k.arg \in Accounts \cup {None}
  /\ \A n \in k.view : visits[n].from = k.on
  /\ k.on \notin hustled => /\ \A n \in k.view : visits[n].who = None
                            /\ k.view = {} => \A n \in Visits : visits[n].from = k.on => ~visits[n].recent
VisitCalls == \A c \in Calls : call[c].pc = "visit" => VisitHeld(call[c])
VisitsApart == \A c, d \in Calls :
  c # d /\ call[c].pc = "visit" /\ call[d].pc = "visit" /\ call[c].on = call[d].on => call[c].on \in hustled
VisitsHeld ==
  DOMAIN call = Calls /\ visits \in [Visits -> VisitRow] /\ ViewedOnce /\ VisitCalls /\ VisitsApart

LEMMA VisitsHeldAside ==
  ASSUME VisitsHeld, UNCHANGED <<visits, hustled>>, Steps(Pcs \ {"visit"})
  PROVE VisitsHeld'
<1>1. DOMAIN call' = Calls /\ \A c \in Calls : call'[c].pc = "visit" => call'[c] = call[c]
  BY AsideCalls DEF VisitsHeld
<1> QED
  BY <1>1 DEF VisitsHeld, VisitCalls, VisitsApart, ViewedOnce, VisitHeld

LEMMA RecordViewHeld ==
  ASSUME VisitsHeld, NEW c \in Calls, RecordView(c)
  PROVE VisitsHeld'
<1>1. PICK a \in Addresses, w \in Accounts \cup {None} :
        /\ \A n \in RecentVisits(a) : w # None /\ visits[n].who = None
        /\ call' = [call EXCEPT ![c] = Call("visit", None, a, RecentVisits(a), w)]
        /\ hustled' = hustled \cup {b \in {a} : \E d \in Flying : call[d].pc = "visit" /\ call[d].on = b}
        /\ UNCHANGED <<consent, consents, snapshots, visits, late, alongside>>
  BY Zenon DEF RecordView
<1> PICK k : k = Call("visit", None, a, RecentVisits(a), w)
  OBVIOUS
<1>2. /\ DOMAIN call' = Calls /\ call'[c] = k
      /\ \A d \in Calls : d # c => call'[d] = call[d]
  BY <1>1 DEF VisitsHeld
<1>3. k.pc = "visit" /\ k.on = a /\ k.view = RecentVisits(a) /\ k.arg = w
  BY DEF Call
<1>4. ViewedOnce'
  BY <1>1 DEF VisitsHeld, ViewedOnce
<1>5. VisitHeld(k)'
  BY Zenon, <1>1, <1>3 DEF VisitHeld, RecentVisits
<1>6. VisitCalls'
  <2> SUFFICES ASSUME NEW d \in Calls, call'[d].pc = "visit" PROVE VisitHeld(call[d])'
    BY DEF VisitCalls
  <2>1. CASE d = c
    BY <2>1, <1>2, <1>5
  <2>2. CASE d # c
    <3>1. VisitHeld(call[d])
      BY <2>2, <1>2 DEF VisitsHeld, VisitCalls
    <3> QED
      BY <3>1, <2>2, <1>1, <1>2 DEF VisitHeld
  <2> QED
    BY <2>1, <2>2
<1>7. \A d \in Calls : d # c /\ call[d].pc = "visit" /\ call[d].on = a => a \in hustled'
  BY <1>1 DEF Flying
<1>8. VisitsApart'
  <2> SUFFICES ASSUME NEW x \in Calls, NEW y \in Calls, x # y, call'[x].pc = "visit", call'[y].pc = "visit",
                      call'[x].on = call'[y].on
               PROVE call'[x].on \in hustled'
    BY DEF VisitsApart
  <2>1. CASE x # c /\ y # c
    BY <2>1, <1>1, <1>2 DEF VisitsHeld, VisitsApart
  <2>2. CASE x = c
    BY <2>2, <1>2, <1>3, <1>7
  <2>3. CASE y = c
    BY <2>3, <1>2, <1>3, <1>7
  <2> QED
    BY <2>1, <2>2, <2>3
<1> QED
  BY <1>1, <1>2, <1>4, <1>6, <1>8 DEF VisitsHeld

LEMMA CommitViewHeld ==
  ASSUME VisitsHeld, NEW c \in Calls, CommitView(c)
  PROVE /\ VisitsHeld'
        /\ \A n \in Visits : visits[n].who # None /\ visits[n].from \notin hustled => visits'[n].who = visits[n].who
<1> PICK k : k = call[c]
  OBVIOUS
<1>1. /\ k.pc = "visit" /\ Finish(c) /\ UNCHANGED <<consent, consents, snapshots, late, alongside, hustled>>
  BY DEF CommitView
<1>2. VisitHeld(k)
  BY <1>1 DEF VisitsHeld, VisitCalls
<1>3. /\ DOMAIN call' = Calls /\ call'[c].pc = "done"
      /\ \A d \in Calls : d # c => call'[d] = call[d]
  BY <1>1, FinishCalls DEF VisitsHeld
<1>4. VisitsApart'
  BY <1>1, <1>3 DEF VisitsHeld, VisitsApart
<1>5. \A d \in Calls : d # c /\ call[d].pc = "visit" /\ call[d].on = k.on => k.on \in hustled
  BY <1>1 DEF VisitsHeld, VisitsApart
<1>6. CASE k.view # {}
  <2>1. visits' = [n \in Visits |-> IF n \in k.view THEN [visits[n] EXCEPT !.who = k.arg] ELSE visits[n]]
    BY <1>6 DEF CommitView
  <2>2. \A n \in Visits : /\ visits'[n] \in VisitRow /\ visits'[n].from = visits[n].from
                          /\ visits'[n].recent = visits[n].recent
                          /\ n \notin k.view => visits'[n] = visits[n]
    <3> SUFFICES ASSUME NEW n \in Visits
                 PROVE LET new == IF n \in k.view THEN [visits[n] EXCEPT !.who = k.arg] ELSE visits[n] IN
                       new \in VisitRow /\ new.from = visits[n].from /\ new.recent = visits[n].recent
                       /\ (n \notin k.view => new = visits[n])
      BY <2>1
    <3>1. visits[n] \in VisitRow
      BY DEF VisitsHeld
    <3> QED
      BY <1>2, <3>1 DEF VisitHeld, VisitRow
  <2>3. visits' \in [Visits -> VisitRow]
    BY <2>1, <2>2
  <2>4. ViewedOnce'
    BY <1>1, <2>2 DEF VisitsHeld, ViewedOnce
  <2>5. VisitCalls'
    <3> SUFFICES ASSUME NEW d \in Calls, d # c, call[d].pc = "visit" PROVE VisitHeld(call[d])'
      BY <1>3 DEF VisitCalls
    <3>1. VisitHeld(call[d]) /\ call'[d] = call[d]
      BY <1>3 DEF VisitsHeld, VisitCalls
    <3>2. call[d].on \notin hustled => \A n \in call[d].view : visits'[n] = visits[n]
      BY <1>2, <1>5, <2>2, <3>1 DEF VisitHeld
    <3> QED
      BY <1>1, <2>2, <3>1, <3>2 DEF VisitHeld
  <2>6. \A n \in Visits : visits[n].who # None /\ visits[n].from \notin hustled => visits'[n].who = visits[n].who
    BY <1>2, <2>2 DEF VisitHeld
  <2> QED
    BY <1>3, <1>4, <2>3, <2>4, <2>5, <2>6 DEF VisitsHeld
<1>7. CASE k.view = {}
  <2>1. PICK n \in Visits : visits[n] = NoVisit /\ visits' = [visits EXCEPT ![n] = [from |-> k.on, who |-> k.arg, recent |-> TRUE]]
    BY <1>7 DEF CommitView
  <2> PICK row : row = [from |-> k.on, who |-> k.arg, recent |-> TRUE]
    BY Zenon
  <2>2. row \in VisitRow /\ row.from = k.on /\ k.on # None
    BY <1>2, NullAssumption DEF VisitHeld, VisitRow
  <2>3. visits' \in [Visits -> VisitRow] /\ visits'[n] = row /\ \A m \in Visits : m # n => visits'[m] = visits[m]
    BY <2>1, <2>2 DEF VisitsHeld
  <2>4. visits[n].from = None /\ visits[n].who = None
    BY <2>1 DEF NoVisit
  <2>5. ViewedOnce'
    BY <1>1, <1>2, <1>7, <2>2, <2>3 DEF VisitsHeld, ViewedOnce, VisitHeld
  <2>6. VisitCalls'
    <3> SUFFICES ASSUME NEW d \in Calls, d # c, call[d].pc = "visit" PROVE VisitHeld(call[d])'
      BY <1>3 DEF VisitCalls
    <3>1. VisitHeld(call[d]) /\ call'[d] = call[d]
      BY <1>3 DEF VisitsHeld, VisitCalls
    <3>2. \A m \in call[d].view : m # n
      BY <3>1, <2>4, NullAssumption DEF VisitHeld
    <3> QED
      BY <1>1, <1>5, <2>2, <2>3, <3>1, <3>2 DEF VisitHeld
  <2>7. \A m \in Visits : visits[m].who # None => visits'[m].who = visits[m].who
    BY <2>3, <2>4
  <2> QED
    BY <1>3, <1>4, <2>3, <2>5, <2>6, <2>7 DEF VisitsHeld
<1> QED
  BY <1>6, <1>7

LEMMA DayPassesHeld ==
  ASSUME VisitsHeld, DayPasses
  PROVE /\ VisitsHeld'
        /\ \A n \in Visits : visits'[n].who = visits[n].who
<1>1. PICK n \in Visits : visits' = [visits EXCEPT ![n].recent = FALSE]
  BY Zenon DEF DayPasses
<1>2. UNCHANGED <<hustled, call>>
  BY DEF DayPasses
<1>3. visits[n] \in VisitRow /\ [visits[n] EXCEPT !.recent = FALSE] \in VisitRow
  BY Zenon DEF VisitsHeld, VisitRow
<1>4. visits' \in [Visits -> VisitRow]
      /\ \A m \in Visits : visits'[m].from = visits[m].from /\ visits'[m].who = visits[m].who
                           /\ (visits'[m].recent => visits[m].recent)
  BY <1>1, <1>3 DEF VisitsHeld, VisitRow
<1>5. ViewedOnce'
  BY <1>2, <1>4 DEF VisitsHeld, ViewedOnce
<1>6. VisitCalls' /\ VisitsApart'
  BY <1>2, <1>4 DEF VisitsHeld, VisitCalls, VisitsApart, VisitHeld
<1> QED
  BY <1>2, <1>4, <1>5, <1>6 DEF VisitsHeld

LEMMA VisitsHeldNext ==
  ASSUME VisitsHeld, [Next]_vars
  PROVE /\ VisitsHeld'
        /\ \A n \in Visits : visits[n].who # None /\ visits[n].from \notin hustled => visits'[n].who = visits[n].who
<1>1. CASE UNCHANGED <<visits, hustled>> /\ Steps(Pcs \ {"visit"})
  BY <1>1, VisitsHeldAside
<1>2. CASE VisitsNext
  <2>1. ASSUME NEW c \in Calls, RecordView(c)
        PROVE visits' = visits
    BY <2>1 DEF RecordView
  <2> QED
    BY <1>2, <2>1, RecordViewHeld, CommitViewHeld, DayPassesHeld DEF VisitsNext
<1> QED
  BY <1>1, <1>2, VisitsAside

(* ---- the score ---- *)
scoreVars == <<consent, consents, snapshots, late, alongside>>

\* The visits, and what becomes of the claims, leave the score alone.
LEMMA VisitsNoScore ==
  ASSUME VisitsNext
  PROVE UNCHANGED scoreVars
BY DEF VisitsNext, scoreVars, RecordView, CommitView, DayPasses

ScoreNext ==
  \/ \E c \in Calls : Turn(c) /\ (RecordConsent(c) \/ WithdrawConsent(c) \/ Calculate(c))
  \/ \E c \in Calls : Weigh(c) \/ Persist(c)

LEMMA ClaimsPuts ==
  ASSUME PassportNext
  PROVE ScoreNext \/ (UNCHANGED passportVars /\ Steps({"delete", "status", "done"}))
<1>1. CASE \E c \in Calls : Turn(c) /\ (RecordConsent(c) \/ WithdrawConsent(c) \/ Calculate(c))
  BY <1>1 DEF ScoreNext
<1>2. CASE \E c \in Calls : Weigh(c) \/ Persist(c)
  BY <1>2 DEF ScoreNext
<1>3. CASE \E c \in Calls : Turn(c) /\ ClaimsMove(c) /\ UNCHANGED passportVars
  <2>1. PICK c \in Calls : Turn(c) /\ ClaimsMove(c) /\ UNCHANGED passportVars
    BY <1>3
  <2>2. \/ \E k : k.pc = "delete" /\ call' = [call EXCEPT ![c] = k]
        \/ \E k : k.pc = "status" /\ call' = [call EXCEPT ![c] = k]
        \/ \E k : k.pc = "done" /\ call' = [call EXCEPT ![c] = k]
    BY Zenon, <2>1 DEF ClaimsMove, AddCase, DeleteCase, Transition, DeleteStudy, Begin, AtOnce, Finish, Over, Call
  <2> QED
    BY <2>1, <2>2, SomePuts
<1>4. CASE \E c \in Calls : ClaimMoved(c) /\ UNCHANGED passportVars
  <2>1. PICK c \in Calls : ClaimMoved(c) /\ UNCHANGED passportVars
    BY <1>4
  <2>2. c \in Flying /\ Finish(c)
    BY <2>1 DEF ClaimMoved, CommitStatus, CommitDelete, Flying
  <2> QED
    BY <2>1, <2>2, FinishPuts
<1> QED
  BY <1>1, <1>2, <1>3, <1>4 DEF PassportNext

LEMMA ScoreAside ==
  ASSUME [Next]_vars
  PROVE ScoreNext \/ (UNCHANGED scoreVars /\ Steps(Pcs \ {"scored", "persist"}))
<1> DEFINE H == Pcs \ {"scored", "persist"}
<1>1. /\ PipelinePcs \subseteq H /\ ResumePcs \subseteq H /\ ReviewPcs \subseteq H /\ PaperPcs \subseteq H /\ StudyPcs \subseteq H
      /\ FilePcs \subseteq H /\ RecordPcs \subseteq H /\ VisitPcs \subseteq H /\ ConnectorPcs \subseteq H
      /\ {"done"} \subseteq H /\ {"delete", "status", "done"} \subseteq H
  BY DEF Pcs, PipelinePcs, ResumePcs, ReviewPcs, PaperPcs, StudyPcs, FilePcs, RecordPcs, PassportPcs, VisitPcs, ConnectorPcs
<1> HIDE DEF H
<1>2. CASE PipelineNext /\ UNCHANGED passportVars
  BY <1>1, <1>2, PipelinePuts, StepsMore DEF H, passportVars, scoreVars
<1>3. CASE ProcessingNext /\ UNCHANGED passportVars
  BY <1>1, <1>3, ResumePuts, StepsMore DEF H, passportVars, scoreVars
<1>4. CASE ReviewNext /\ UNCHANGED passportVars
  BY <1>1, <1>4, ReviewPuts, StepsMore DEF H, passportVars, scoreVars
<1>5. CASE PapersNext /\ UNCHANGED passportVars
  BY <1>1, <1>5, PaperPuts, StepsMore DEF H, passportVars, scoreVars
<1>6. CASE StudyNext /\ UNCHANGED passportVars
  BY <1>1, <1>6, StudyPuts, StepsMore DEF H, passportVars, scoreVars
<1>7. CASE (\E c \in Calls : Crash(c)) /\ UNCHANGED passportVars
  BY <1>1, <1>7, CrashPuts, StepsMore DEF H, passportVars, scoreVars
<1>8. CASE FileNext /\ UNCHANGED passportVars
  BY <1>1, <1>8, FilePuts, StepsMore DEF H, passportVars, scoreVars
<1>9. CASE RecordsNext /\ UNCHANGED passportVars
  BY <1>1, <1>9, RecordPuts, StepsMore DEF H, passportVars, scoreVars
<1>10. CASE ConnectorsNext /\ UNCHANGED passportVars
  BY <1>1, <1>10, ConnectorPuts, StepsMore DEF H, passportVars, scoreVars
<1>11. CASE VisitsNext
  BY <1>1, <1>11, VisitPuts, VisitsNoScore, StepsMore DEF H
<1>12. CASE PassportNext
  BY <1>1, <1>12, ClaimsPuts, StepsMore DEF H, passportVars, scoreVars
<1>13. CASE UNCHANGED vars
  BY <1>13 DEF vars, pipelineVars, passportVars, scoreVars, Steps
<1> QED
  BY <1>2, <1>3, <1>4, <1>5, <1>6, <1>7, <1>8, <1>9, <1>10, <1>11, <1>12, <1>13, NextParts, Zenon

\* A row that may be kept: with consent for what is more than the lack of it, calculated only from what is verified.
ScoreHeld(r) ==
  /\ r.at \in Calls
  /\ r.result.status # "consent_required" => r.consent > 0
  /\ r.result.status = "calculated" /\ ~r.odd => \A k \in r.result.facts.claims : k[2] = "verified"
RowsHeld == \A n \in Snapshots : snapshots[n] = NoSnapshot \/ ScoreHeld(snapshots[n])
\* What was read before: each claim once, with a consent that only a withdrawal meanwhile takes back.
ScoredCalls == \A c \in Calls : call[c].pc = "scored" =>
  /\ call[c].arg \in Nat /\ call[c].arg > 0
  /\ \A k, l \in call[c].view.claims : k[1] = l[1] => k = l
  /\ c \in late \/ consent # 0
PersistCalls == \A c \in Calls : call[c].pc = "persist" =>
  /\ call[c].arg.at = c /\ ScoreHeld(call[c].arg)
  /\ call[c].arg.result.status # "consent_required" => c \in late \/ consent # 0
Scoring(c) == call[c].pc \in {"scored", "persist"}
\* Two calculations that overlap are both noted, and the calls still to come are later ones.
Overlaps == \A c, d \in Calls : c # d /\ Scoring(c) /\ Scoring(d) => c \in alongside
IdleLater == \A c, d \in Calls : Scoring(c) /\ call[d].pc = "idle" => c < d
TakenBefore == \A n \in Taken, c \in Calls :
  call[c].pc = "idle" \/ (Scoring(c) /\ c \notin alongside) => snapshots[n].at < c
ScoresHeld ==
  /\ DOMAIN call = Calls /\ DOMAIN snapshots = Snapshots
  /\ consent \in Nat /\ consents \in Nat
  /\ RowsHeld /\ ScoredCalls /\ PersistCalls /\ Overlaps /\ IdleLater /\ TakenBefore /\ NoRepeats

\* What the next step scores is scored with consent, or was under way at a withdrawal.
ScoredWith == \A n \in Snapshots :
  snapshots'[n] # snapshots[n] /\ snapshots'[n].result.status # "consent_required" =>
    consent # 0 \/ snapshots'[n].at \in late

LEMMA ScoresHeldAside ==
  ASSUME ScoresHeld, UNCHANGED scoreVars, Steps(Pcs \ {"scored", "persist"})
  PROVE ScoresHeld' /\ ScoredWith
<1>1. /\ DOMAIN call' = Calls
      /\ \A c \in Calls : call'[c] = call[c] \/ call'[c].pc \in Pcs \ {"scored", "persist"}
  BY AsideCalls DEF ScoresHeld
<1>2. "idle" \notin Pcs
  BY DEF Pcs, PipelinePcs, ResumePcs, ReviewPcs, PaperPcs, StudyPcs, FilePcs, RecordPcs, PassportPcs, VisitPcs, ConnectorPcs
<1>3. \A c \in Calls : call'[c].pc \in {"idle", "scored", "persist"} => call'[c] = call[c]
  BY <1>1, <1>2
<1>4. RowsHeld' /\ NoRepeats' /\ Taken' = Taken
  BY DEF ScoresHeld, scoreVars, RowsHeld, ScoreHeld, NoRepeats, Taken, SnapshotMatches
<1>5. ScoredCalls' /\ PersistCalls'
  BY <1>3 DEF ScoresHeld, scoreVars, ScoredCalls, PersistCalls, ScoreHeld
<1>6. Overlaps' /\ IdleLater' /\ TakenBefore'
  BY <1>3, <1>4 DEF ScoresHeld, scoreVars, Overlaps, IdleLater, TakenBefore, Scoring
<1> QED
  BY <1>1, <1>4, <1>5, <1>6 DEF ScoresHeld, scoreVars, ScoredWith

\* A call that takes its turn, and the calculations under way.
LEMMA TurnFirst ==
  ASSUME ScoresHeld, NEW c \in Calls, Turn(c)
  PROVE call[c].pc = "idle" /\ \A d \in Calls : d # c /\ call[d].pc = "idle" => c < d
BY CallsAssumption DEF Turn

LEMMA ConsentHeld ==
  ASSUME ScoresHeld, NEW c \in Calls, Turn(c), RecordConsent(c) \/ WithdrawConsent(c)
  PROVE ScoresHeld' /\ ScoredWith
<1>1. /\ Finish(c) /\ UNCHANGED <<snapshots, alongside>> /\ late \subseteq late'
      /\ consent' \in Nat /\ consents' \in Nat
  BY DEF ScoresHeld, RecordConsent, WithdrawConsent
<1>2. /\ DOMAIN call' = Calls /\ call'[c].pc = "done"
      /\ \A d \in Calls : d # c => call'[d] = call[d]
  BY <1>1, FinishCalls DEF ScoresHeld
<1>3. \A d \in Calls : Scoring(d) => d \in late' \/ consent' # 0
  <2>1. CASE RecordConsent(c)
    BY <2>1 DEF RecordConsent, ScoresHeld
  <2>2. CASE WithdrawConsent(c)
    BY <2>2 DEF WithdrawConsent, Calculating, Scoring, Flying
  <2> QED
    BY <2>1, <2>2
<1>4. RowsHeld' /\ NoRepeats' /\ Taken' = Taken
  BY <1>1 DEF ScoresHeld, RowsHeld, ScoreHeld, NoRepeats, Taken, SnapshotMatches
<1>5. ScoredCalls' /\ PersistCalls'
  BY <1>2, <1>3 DEF ScoresHeld, ScoredCalls, PersistCalls, ScoreHeld, Scoring
<1>6. Overlaps' /\ IdleLater' /\ TakenBefore'
  BY <1>1, <1>2, <1>4 DEF ScoresHeld, Overlaps, IdleLater, TakenBefore, Scoring
<1> QED
  BY <1>1, <1>2, <1>4, <1>5, <1>6 DEF ScoresHeld, ScoredWith

LEMMA CalculateHeld ==
  ASSUME ScoresHeld, NEW c \in Calls, Turn(c), Calculate(c)
  PROVE ScoresHeld' /\ ScoredWith
<1> PICK k : k = IF consent = 0 THEN Call("persist", None, None, None, Stamp(c, 0, Required, FALSE))
                 ELSE Call("scored", None, None, Facts, consent)
  BY Zenon
<1>1. /\ call' = [call EXCEPT ![c] = k] /\ alongside' = Joined(c)
      /\ UNCHANGED <<consent, consents, snapshots, late>>
  BY DEF Calculate
<1>2. /\ DOMAIN call' = Calls /\ call'[c] = k
      /\ \A d \in Calls : d # c => call'[d] = call[d]
  BY <1>1 DEF ScoresHeld
<1>3. call[c].pc = "idle" /\ \A d \in Calls : d # c /\ call[d].pc = "idle" => c < d
  BY TurnFirst
<1>4. k.pc \in {"scored", "persist"}
  BY DEF Call
<1>5. RowsHeld' /\ Taken' = Taken /\ alongside \subseteq alongside'
  BY <1>1 DEF ScoresHeld, RowsHeld, ScoreHeld, Taken, Joined
<1>6. NoRepeats'
  BY <1>1, <1>5 DEF ScoresHeld, NoRepeats, Taken, SnapshotMatches
<1>7. ScoredCalls'
  <2>1. k.pc = "scored" => /\ k.arg \in Nat /\ k.arg > 0 /\ consent # 0
                           /\ \A x, y \in k.view.claims : x[1] = y[1] => x = y
    <3>1. CASE consent = 0
      BY <3>1 DEF Call
    <3>2. CASE consent # 0
      <4>1. k.arg = consent /\ k.view = Facts
        BY <3>2 DEF Call
      <4>2. \A x \in Facts.claims : \E z \in Claimed : x = <<z, Class(StatusOf(z))>>
        BY DEF Facts
      <4>3. \A x, y \in Facts.claims : x[1] = y[1] => x = y
        BY <4>2
      <4> QED
        BY <3>2, <4>1, <4>3 DEF ScoresHeld
    <3> QED
      BY Zenon, <3>1, <3>2
  <2> QED
    BY Zenon, <1>1, <1>2, <2>1 DEF ScoresHeld, ScoredCalls
<1>8. PersistCalls'
  <2>1. k.pc = "persist" => k.arg.at = c /\ ScoreHeld(k.arg) /\ k.arg.result.status = "consent_required"
    BY DEF Call, Stamp, Required, ScoreHeld
  <2> QED
    BY Zenon, <1>1, <1>2, <2>1 DEF ScoresHeld, PersistCalls, ScoreHeld
<1>9. Overlaps'
  <2> SUFFICES ASSUME NEW x \in Calls, NEW y \in Calls, x # y, Scoring(x)', Scoring(y)' PROVE x \in alongside'
    BY DEF Overlaps
  <2>1. CASE x # c /\ y # c
    BY <2>1, <1>2, <1>5 DEF ScoresHeld, Overlaps, Scoring
  <2>2. CASE x = c \/ y = c
    <3>1. \E d \in {x, y} : d # c /\ d \in Calculating
      BY <2>2, <1>2 DEF Calculating, Flying, Scoring
    <3>2. alongside' = alongside \cup (Calculating \cup {c})
      BY <1>1, <3>1 DEF Joined
    <3> QED
      BY <3>2, <2>2, <1>2 DEF Calculating, Flying, Scoring
  <2> QED
    BY <2>1, <2>2
<1>10. IdleLater'
  BY <1>2, <1>3, <1>4 DEF ScoresHeld, IdleLater, Scoring
<1>11. TakenBefore'
  BY Zenon, <1>1, <1>2, <1>3, <1>4, <1>5 DEF ScoresHeld, TakenBefore, Scoring
<1> QED
  BY <1>1, <1>2, <1>5, <1>6, <1>7, <1>8, <1>9, <1>10, <1>11 DEF ScoresHeld, ScoredWith

LEMMA WeighHeld ==
  ASSUME ScoresHeld, NEW c \in Calls, Weigh(c)
  PROVE ScoresHeld' /\ ScoredWith
<1> PICK k : k = call[c]
  OBVIOUS
<1> PICK status : status = IF Complete(k.view) THEN "calculated" ELSE "incomplete_verification"
  OBVIOUS
<1> PICK odd : odd = (Claimed # {x[1] : x \in k.view.claims})
  OBVIOUS
<1> PICK row : row = Stamp(c, k.arg, [status |-> status, facts |-> k.view], odd)
  OBVIOUS
<1> PICK new : new = Call("persist", None, None, None, row)
  OBVIOUS
<1>1. /\ k.pc = "scored" /\ call' = [call EXCEPT ![c] = new] /\ UNCHANGED scoreVars
  BY DEF Weigh, passportVars, scoreVars
<1>2. /\ DOMAIN call' = Calls /\ call'[c] = new
      /\ \A d \in Calls : d # c => call'[d] = call[d]
  BY <1>1 DEF ScoresHeld
<1>3. /\ k.arg \in Nat /\ k.arg > 0 /\ (c \in late \/ consent # 0)
      /\ \A x, y \in k.view.claims : x[1] = y[1] => x = y
  BY <1>1 DEF ScoresHeld, ScoredCalls
<1>4. status = "calculated" /\ ~odd => \A x \in k.view.claims : x[2] = "verified"
  <2> SUFFICES ASSUME status = "calculated", ~odd, NEW x \in k.view.claims PROVE x[2] = "verified"
    OBVIOUS
  <2>1. Complete(k.view)
    OBVIOUS
  <2>2. x[1] \in Claimed
    BY Zenon
  <2>3. SeenAs(k.view, x[1]) = "verified"
    BY <2>1, <2>2 DEF Complete
  <2>4. SeenAs(k.view, x[1]) = (CHOOSE l \in k.view.claims : l[1] = x[1])[2]
    BY DEF SeenAs
  <2>5. (CHOOSE l \in k.view.claims : l[1] = x[1]) = x
    BY <1>3
  <2> QED
    BY Zenon, <2>3, <2>4, <2>5
<1>5. row.at = c /\ row.consent = k.arg /\ row.odd = odd /\ row.result.status = status /\ row.result.facts = k.view
  BY DEF Stamp
<1>6. ScoreHeld(row)
  BY Zenon, <1>3, <1>4, <1>5 DEF ScoreHeld
<1>7. new.pc = "persist" /\ new.arg = row
  BY DEF Call
<1>8. RowsHeld' /\ NoRepeats' /\ Taken' = Taken
  BY <1>1 DEF ScoresHeld, RowsHeld, ScoreHeld, NoRepeats, Taken, SnapshotMatches, scoreVars
<1>9. ScoredCalls'
  BY <1>1, <1>2, <1>7 DEF ScoresHeld, ScoredCalls, scoreVars
<1>10. PersistCalls'
  <2> SUFFICES ASSUME NEW d \in Calls, call'[d].pc = "persist"
               PROVE /\ call'[d].arg.at = d /\ ScoreHeld(call'[d].arg)
                     /\ call'[d].arg.result.status # "consent_required" => d \in late' \/ consent' # 0
    BY DEF PersistCalls, ScoreHeld
  <2>1. CASE d = c
    BY Zenon, <2>1, <1>1, <1>2, <1>3, <1>5, <1>6, <1>7 DEF scoreVars
  <2>2. CASE d # c
    BY <2>2, <1>1, <1>2 DEF ScoresHeld, PersistCalls, scoreVars
  <2> QED
    BY <2>1, <2>2
<1>11. \A d \in Calls : /\ Scoring(d)' <=> Scoring(d)
                        /\ call'[d].pc = "idle" <=> call[d].pc = "idle"
  BY <1>1, <1>2, <1>7 DEF Scoring
<1>12. Overlaps' /\ IdleLater' /\ TakenBefore'
  BY <1>1, <1>8, <1>11 DEF ScoresHeld, Overlaps, IdleLater, TakenBefore, scoreVars
<1> QED
  BY <1>1, <1>2, <1>8, <1>9, <1>10, <1>12 DEF ScoresHeld, ScoredWith, scoreVars

LEMMA PersistHeld ==
  ASSUME ScoresHeld, NEW c \in Calls, Persist(c)
  PROVE ScoresHeld' /\ ScoredWith
<1> PICK row : row = call[c].arg
  OBVIOUS
<1>1. call[c].pc = "persist" /\ Finish(c) /\ UNCHANGED <<consent, consents, late, alongside>>
  BY DEF Persist
<1>2. /\ DOMAIN call' = Calls /\ call'[c].pc = "done"
      /\ \A d \in Calls : d # c => call'[d] = call[d]
  BY <1>1, FinishCalls DEF ScoresHeld
<1>3. ScoredCalls' /\ PersistCalls'
  BY <1>1, <1>2 DEF ScoresHeld, ScoredCalls, PersistCalls, ScoreHeld
<1>4. Overlaps' /\ IdleLater'
  BY <1>1, <1>2 DEF ScoresHeld, Overlaps, IdleLater, Scoring
<1>5. CASE UNCHANGED snapshots
  <2>1. RowsHeld' /\ NoRepeats' /\ Taken' = Taken
    BY <1>1, <1>5 DEF ScoresHeld, RowsHeld, ScoreHeld, NoRepeats, Taken, SnapshotMatches
  <2>2. TakenBefore'
    BY <1>1, <1>2, <1>5, <2>1 DEF ScoresHeld, TakenBefore, Scoring
  <2> QED
    BY <1>1, <1>2, <1>3, <1>4, <1>5, <2>1, <2>2 DEF ScoresHeld, ScoredWith
<1>6. CASE ~UNCHANGED snapshots
  <2>1. /\ ~\E n \in LastTaken : SnapshotMatches(n, row)
        /\ \E n \in Snapshots \ Taken : snapshots' = [snapshots EXCEPT ![n] = row]
    BY <1>6 DEF Persist
  <2>2. PICK n \in Snapshots : n \notin Taken /\ snapshots' = [snapshots EXCEPT ![n] = row]
    BY Zenon, <2>1
  <2>3. /\ row.at = c /\ ScoreHeld(row)
        /\ row.result.status # "consent_required" => c \in late \/ consent # 0
    BY <1>1 DEF ScoresHeld, PersistCalls
  <2>4. /\ DOMAIN snapshots' = Snapshots /\ snapshots'[n] = row
        /\ \A m \in Snapshots : m # n => snapshots'[m] = snapshots[m]
    BY <2>2 DEF ScoresHeld
  <2>5. row # NoSnapshot
    BY <2>3, CallsAssumption DEF NoSnapshot
  <2>6. Taken' = Taken \cup {n}
    BY <2>4, <2>5 DEF Taken
  <2>7. RowsHeld'
    <3> SUFFICES ASSUME NEW m \in Snapshots PROVE snapshots'[m] = NoSnapshot \/ ScoreHeld(snapshots'[m])
      BY Zenon DEF RowsHeld, ScoreHeld, NoSnapshot
    <3> QED
      BY <2>3, <2>4 DEF ScoresHeld, RowsHeld
  <2>8. ScoredWith
    BY <2>3, <2>4 DEF ScoredWith
  <2>9. TakenBefore'
    <3> SUFFICES ASSUME NEW m \in Taken', NEW d \in Calls,
                        call'[d].pc = "idle" \/ (Scoring(d)' /\ d \notin alongside')
                 PROVE snapshots'[m].at < d
      BY DEF TakenBefore
    <3>1. d # c /\ call'[d] = call[d]
      BY <1>2 DEF Scoring
    <3>2. call[d].pc = "idle" \/ (Scoring(d) /\ d \notin alongside)
      BY <1>1, <3>1 DEF Scoring
    <3>3. CASE m # n
      <4>1. m \in Taken /\ snapshots'[m] = snapshots[m]
        BY <3>3, <2>4, <2>6 DEF Taken
      <4> QED
        BY <4>1, <3>2 DEF ScoresHeld, TakenBefore
    <3>4. CASE m = n
      <4>1. Scoring(c)
        BY <1>1 DEF Scoring
      <4>2. call[d].pc = "idle"
        BY <3>1, <3>2, <4>1 DEF ScoresHeld, Overlaps
      <4> QED
        BY <3>4, <2>3, <2>4, <4>1, <4>2 DEF ScoresHeld, IdleLater
    <3> QED
      BY <3>3, <3>4
  <2>10. c \notin alongside => \A m \in Taken : snapshots[m].at < c
    BY <1>1 DEF ScoresHeld, TakenBefore, Scoring
  <2>11. \A m \in Taken : m \in Snapshots /\ m # n /\ snapshots'[m] = snapshots[m] /\ snapshots[m].at \in Nat
    BY <2>2, <2>4, CallsAssumption DEF Taken, ScoresHeld, RowsHeld, ScoreHeld
  <2>12. NoRepeats'
    <3> SUFFICES ASSUME NEW x \in Taken', NEW y \in Taken', snapshots'[x].at \notin alongside, snapshots'[y].at \notin alongside,
                        snapshots'[y].at < snapshots'[x].at, snapshots'[x].consent = snapshots'[y].consent,
                        snapshots'[x].result = snapshots'[y].result
                 PROVE \E o \in Taken' : snapshots'[y].at < snapshots'[o].at /\ snapshots'[o].at < snapshots'[x].at
      BY <1>1 DEF NoRepeats, SnapshotMatches, Taken
    <3>1. CASE x \in Taken /\ y \in Taken
      <4>1. \E o \in Taken : snapshots[y].at < snapshots[o].at /\ snapshots[o].at < snapshots[x].at
        BY <3>1, <2>11 DEF ScoresHeld, NoRepeats, SnapshotMatches
      <4> QED
        BY <4>1, <3>1, <2>6, <2>11
    <3>2. CASE y = n
      <4>1. c \notin alongside /\ x \in Taken
        BY <3>2, <2>3, <2>4, <2>6, CallsAssumption
      <4> QED
        BY <4>1, <3>2, <2>3, <2>4, <2>10, <2>11, CallsAssumption
    <3>3. CASE x = n /\ y \in Taken
      <4>1. c \notin alongside
        BY <3>3, <2>3, <2>4
      <4>2. y \notin LastTaken
        BY <3>3, <2>1, <2>4, <2>11 DEF SnapshotMatches
      <4>3. PICK o \in Taken : ~(snapshots[o].at <= snapshots[y].at)
        BY <3>3, <4>2 DEF LastTaken
      <4> QED
        BY <3>3, <4>1, <4>3, <2>3, <2>4, <2>6, <2>10, <2>11
    <3> QED
      BY <3>1, <3>2, <3>3, <2>6
  <2> QED
    BY <1>1, <1>2, <1>3, <1>4, <2>4, <2>7, <2>8, <2>9, <2>12 DEF ScoresHeld
<1> QED
  BY <1>5, <1>6

LEMMA ScoresHeldNext ==
  ASSUME ScoresHeld, [Next]_vars
  PROVE ScoresHeld' /\ ScoredWith
BY ScoreAside, ScoresHeldAside, ConsentHeld, CalculateHeld, WeighHeld, PersistHeld, Zenon DEF ScoreNext

\* What is kept is calculated from what is complete.
LEMMA ScoresComplete ==
  ASSUME ScoresHeld
  PROVE CalculatedIsComplete
BY DEF ScoresHeld, RowsHeld, ScoreHeld, CalculatedIsComplete, Taken

(* ---- education records and the requests about them ---- *)
StudyFlight == {"edit", "enter", "attach", "contact", "submitted", "resubmitted", "informed",
                "corrected", "approved", "closed", "moved", "answered", "respond"}
StudyStart(c) ==
  \/ AddStudy(c) \/ EditStudy(c) \/ SubmitStudy(c) \/ DeleteStudy(c) \/ Transcript(c) \/ Apply(c)
  \/ Attach(c) \/ UpdateContact(c) \/ SubmitForReview(c) \/ Resubmit(c) \/ SubmitInformation(c) \/ Withdraw(c)
  \/ RequestCorrections(c) \/ ReviewContact(c) \/ Approve(c) \/ Close(c) \/ ReturnToVerifier(c) \/ AdminCancel(c)
  \/ RecordClarification(c) \/ ResolveOrganization(c) \/ InstitutionActs(c) \/ InstitutionAnswers(c) \/ Respond(c)
StudyCommit(c) ==
  CommitEdit(c) \/ CommitSubmit(c) \/ CommitRequest(c) \/ CommitApproval(c) \/ CommitClosing(c) \/ CommitResponse(c)
StudyStep ==
  \/ \E c \in Calls : Turn(c) /\ StudyStart(c)
  \/ \E c \in Calls : StudyCommit(c)
  \/ ViewLink \/ LinkLapses

LEMMA StudySteps == StudyNext => StudyStep
BY Zenon DEF StudyNext, StudyStep, StudyStart, StudyCommit

\* The file of a request edits a record of its own, and so does the passport delete one.
LEMMA FileStudies ==
  ASSUME FileNext
  PROVE StudyStep \/ (UNCHANGED studyVars /\ Steps({"done", "exhibit", "amend", "consent", "update"}))
<1> DEFINE H == {"done", "exhibit", "amend", "consent", "update"}
<1>1. ASSUME NEW c \in Calls, Turn(c), EditClaim(c)
      PROVE StudyStep \/ (UNCHANGED studyVars /\ Steps(H))
  <2>1. CASE EditStudy(c)
    BY <1>1, <2>1 DEF StudyStep, StudyStart
  <2>2. CASE UpdateCase(c) /\ UNCHANGED studyVars
    <3>1. \E k : k.pc = "update" /\ call' = [call EXCEPT ![c] = k]
      BY Zenon, <2>2 DEF UpdateCase, Begin, Call
    <3> QED
      BY Zenon, <1>1, <2>2, <3>1, SomePuts
  <2> QED
    BY <1>1, <2>1, <2>2 DEF EditClaim
<1>2. ASSUME NEW c \in Calls, CommitClaim(c)
      PROVE StudyStep \/ (UNCHANGED studyVars /\ Steps(H))
  <2>1. CASE CommitEdit(c)
    BY <2>1 DEF StudyStep, StudyCommit
  <2>2. CASE CommitUpdate(c) /\ UNCHANGED studyVars
    <3>1. c \in Flying /\ Finish(c)
      BY <2>2 DEF CommitUpdate, Flying
    <3> QED
      BY <2>2, <3>1, FinishPuts
  <2> QED
    BY <1>2, <2>1, <2>2 DEF CommitClaim
<1>3. ASSUME NEW c \in Calls, Turn(c),
             AddEvidence(c) \/ UpdateEvidence(c) \/ SendForReview(c) \/ Moves(c) \/ AssignReviewer(c)
             \/ UpdateInternalNote(c) \/ ChangePriority(c) \/ AdminRemark(c)
      PROVE Steps(H)
  <2>1. \/ \E k : k.pc = "exhibit" /\ call' = [call EXCEPT ![c] = k]
        \/ \E k : k.pc = "amend" /\ call' = [call EXCEPT ![c] = k]
        \/ \E k : k.pc = "consent" /\ call' = [call EXCEPT ![c] = k]
        \/ Finish(c)
    <3>1. CASE AddEvidence(c)
      BY Zenon, <3>1 DEF AddEvidence, OnFile, Call
    <3>2. CASE UpdateEvidence(c)
      BY Zenon, <3>2 DEF UpdateEvidence, OnFile, Call
    <3>3. CASE SendForReview(c)
      BY Zenon, <3>3 DEF SendForReview, OnFile, Call
    <3>4. CASE Moves(c) \/ AssignReviewer(c) \/ UpdateInternalNote(c) \/ ChangePriority(c) \/ AdminRemark(c)
      BY Zenon, <3>4 DEF Moves, AssignReviewer, UpdateInternalNote, ChangePriority, AdminRemark, Put
    <3> QED
      BY <1>3, <3>1, <3>2, <3>3, <3>4
  <2> QED
    BY <1>3, <2>1, SomePuts, FinishPuts
<1>4. ASSUME NEW c \in Calls, CommitEvidence(c) \/ CommitAmendment(c) \/ CommitConsent(c)
      PROVE Steps(H)
  <2>1. c \in Flying /\ Finish(c)
    BY Zenon, <1>4 DEF CommitEvidence, CommitAmendment, CommitConsent, Flying
  <2> QED
    BY <2>1, FinishPuts
<1>5. CASE OpenPortal /\ UNCHANGED studyVars
  BY <1>5 DEF OpenPortal, Steps
<1> QED
  BY <1>1, <1>2, <1>3, <1>4, <1>5, Zenon DEF FileNext

LEMMA PassportStudies ==
  ASSUME PassportNext
  PROVE StudyStep \/ (UNCHANGED studyVars /\ Steps({"scored", "persist", "delete", "status", "done"}))
<1> DEFINE H == {"scored", "persist", "delete", "status", "done"}
<1>1. ASSUME NEW c \in Calls, Turn(c), ClaimsMove(c)
      PROVE StudyStep \/ (UNCHANGED studyVars /\ Steps(H))
  <2>1. CASE DeleteStudy(c)
    BY <1>1, <2>1 DEF StudyStep, StudyStart
  <2>2. CASE (AddCase(c) \/ DeleteCase(c) \/ Transition(c)) /\ UNCHANGED studyVars
    <3>1. \/ \E k : k.pc = "delete" /\ call' = [call EXCEPT ![c] = k]
          \/ \E k : k.pc = "status" /\ call' = [call EXCEPT ![c] = k]
          \/ Finish(c)
      BY Zenon, <2>2 DEF AddCase, DeleteCase, Transition, Begin, Call
    <3> QED
      BY <1>1, <2>2, <3>1, SomePuts, FinishPuts
  <2> QED
    BY <1>1, <2>1, <2>2 DEF ClaimsMove
<1>2. ASSUME NEW c \in Calls, ClaimMoved(c)
      PROVE UNCHANGED studyVars /\ Steps(H)
  <2>1. c \in Flying /\ Finish(c) /\ UNCHANGED studyVars
    BY <1>2 DEF ClaimMoved, CommitStatus, CommitDelete, Flying
  <2> QED
    BY <2>1, FinishPuts
<1>3. ASSUME NEW c \in Calls, UNCHANGED studyVars,
             (Turn(c) /\ (RecordConsent(c) \/ WithdrawConsent(c) \/ Calculate(c))) \/ Weigh(c) \/ Persist(c)
      PROVE UNCHANGED studyVars /\ Steps(H)
  <2>1. Turn(c) \/ c \in Flying
    BY <1>3 DEF Weigh, Persist, Flying
  <2>2. \/ \E k : k.pc = "scored" /\ call' = [call EXCEPT ![c] = k]
        \/ \E k : k.pc = "persist" /\ call' = [call EXCEPT ![c] = k]
        \/ Finish(c)
    <3>1. CASE RecordConsent(c) \/ WithdrawConsent(c) \/ Persist(c)
      BY <3>1 DEF RecordConsent, WithdrawConsent, Persist
    <3>2. CASE Calculate(c)
      <4>1. CASE consent = 0
        <5>1. call' = [call EXCEPT ![c] = Call("persist", None, None, None, Stamp(c, 0, Required, FALSE))]
          BY <3>2, <4>1 DEF Calculate
        <5> QED
          BY Zenon, <5>1 DEF Call
      <4>2. CASE consent # 0
        <5>1. call' = [call EXCEPT ![c] = Call("scored", None, None, Facts, consent)]
          BY <3>2, <4>2 DEF Calculate
        <5> QED
          BY Zenon, <5>1 DEF Call
      <4> QED
        BY <4>1, <4>2
    <3>3. CASE Weigh(c)
      <4>1. \E arg : call' = [call EXCEPT ![c] = Call("persist", None, None, None, arg)]
        BY <3>3, Zenon DEF Weigh
      <4> QED
        BY Zenon, <4>1 DEF Call
    <3> QED
      BY <1>3, <3>1, <3>2, <3>3
  <2> QED
    BY <1>3, <2>1, <2>2, SomePuts, FinishPuts
<1> HIDE DEF H
<1>4. CASE \E c \in Calls :
                /\ (Turn(c) /\ (RecordConsent(c) \/ WithdrawConsent(c) \/ Calculate(c))) \/ Weigh(c) \/ Persist(c)
                /\ UNCHANGED studyVars
  BY <1>3, <1>4 DEF H
<1>5. CASE \E c \in Calls : Turn(c) /\ ClaimsMove(c)
  BY <1>1, <1>5 DEF H
<1>6. CASE \E c \in Calls : ClaimMoved(c)
  BY <1>2, <1>6 DEF H
<1> QED
  BY <1>4, <1>5, <1>6, Zenon DEF PassportNext

LEMMA StudiesAside ==
  ASSUME [Next]_vars
  PROVE StudyStep \/ (UNCHANGED studyVars /\ Steps(Pcs \ StudyFlight))
<1> DEFINE H == Pcs \ StudyFlight
<1>1. /\ PipelinePcs \subseteq H /\ ResumePcs \subseteq H /\ ReviewPcs \subseteq H /\ PaperPcs \subseteq H
      /\ RecordPcs \subseteq H /\ VisitPcs \subseteq H /\ {"done"} \subseteq H
      /\ ConnectorPcs \subseteq H /\ {"scored", "persist", "delete", "status", "done"} \subseteq H
      /\ {"done", "exhibit", "amend", "consent", "update"} \subseteq H
  BY DEF Pcs, PipelinePcs, ResumePcs, ReviewPcs, PaperPcs, StudyPcs, FilePcs, RecordPcs, PassportPcs, VisitPcs, ConnectorPcs, StudyFlight
<1> HIDE DEF H
<1>2. CASE PipelineNext /\ UNCHANGED studyVars
  BY <1>1, <1>2, PipelinePuts, StepsMore DEF H
<1>3. CASE ProcessingNext /\ UNCHANGED studyVars
  BY <1>1, <1>3, ResumePuts, StepsMore DEF H
<1>4. CASE ReviewNext /\ UNCHANGED studyVars
  BY <1>1, <1>4, ReviewPuts, StepsMore DEF H
<1>5. CASE PapersNext /\ UNCHANGED studyVars
  BY <1>1, <1>5, PaperPuts, StepsMore DEF H
<1>6. CASE (\E c \in Calls : Crash(c)) /\ UNCHANGED studyVars
  BY <1>1, <1>6, CrashPuts, StepsMore DEF H
<1>7. CASE RecordsNext /\ UNCHANGED studyVars
  BY <1>1, <1>7, RecordPuts, StepsMore DEF H
<1>8. CASE VisitsNext /\ UNCHANGED studyVars
  BY <1>1, <1>8, VisitPuts, StepsMore DEF H
<1>9. CASE ConnectorsNext /\ UNCHANGED studyVars
  BY <1>1, <1>9, ConnectorPuts, StepsMore DEF H
<1>10. CASE StudyNext
  BY <1>1, <1>10, StudySteps, StepsMore DEF H
<1>11. CASE FileNext
  BY <1>1, <1>11, FileStudies, StepsMore DEF H
<1>12. CASE PassportNext
  BY <1>1, <1>12, PassportStudies, StepsMore DEF H
<1>13. CASE UNCHANGED vars
  BY <1>13 DEF vars, pipelineVars, studyVars, Steps
<1> QED
  BY <1>2, <1>3, <1>4, <1>5, <1>6, <1>7, <1>8, <1>9, <1>10, <1>11, <1>12, <1>13, NextParts, Zenon

\* The statuses that tell what came before them.
WithInstitution == Workflow!OrganizationVisible \cup {"PENDING_ADMIN_QUALITY_REVIEW", "VERIFIED"}
Out(v) == asks[v].approved /\ asks[v].snapshot > 0 /\ asks[v].org /\ links[v].token > 0
Told(v) ==
  /\ asks[v].status \in Workflow!PostApproval => asks[v].approved /\ asks[v].snapshot > 0
  /\ asks[v].status \in WithInstitution => Out(v)
  /\ asks[v].status \in {"PENDING_ADMIN_QUALITY_REVIEW", "VERIFIED"} => v \in heard
  /\ asks[v].outreach => asks[v].org
  /\ links[v].token > 0 <=> v \in Asked /\ asks[v].outreach
  /\ links[v].token = 0 => links[v].answer = "none"
LastAsk(s) == {v \in RequestsOf(s) : \A w \in RequestsOf(s) : w <= v}
\* Where no two calls met, the record shows what became of the newest request, and only that one may be under way.
Follows(s) ==
  /\ studies[s].status = "verified" <=> \E v \in LastAsk(s) : asks[v].status = "VERIFIED"
  /\ s \in Records /\ studies[s].status = "pending" => \E v \in LastAsk(s) : asks[v].status # "WITHDRAWN_BY_CANDIDATE"
  /\ \A v \in Unsettled(s) : v \in LastAsk(s)
\* Requests are made in their order.
Numbered ==
  /\ \A v \in Asked, w \in Requests : w < v => w \in Asked
  /\ \A s \in Studies : RequestsOf(s) = {} \/ LastAsk(s) # {}
\* A call about a record, and one about a request: what it read still is so where no two calls met, and what it will write is due.
OfRecord(k) ==
  /\ k.view \in Study /\ (k.pc = "edit" => k.arg \in BOOLEAN)
  /\ k.case \notin muddled /\ (k.pc = "enter" \/ k.arg = TRUE) => studies[k.case].status # "verified"
Due(k) ==
  /\ k.pc = "contact" => k.arg \in {"pending", "approved", "changes"}
  /\ k.pc \in {"submitted", "resubmitted", "corrected"} =>
       k.arg \in {"PENDING_ADMIN_REVIEW", "PENDING_ADMIN_RE_REVIEW", "AWAITING_SUBJECT_CORRECTIONS"}
  /\ k.pc \in {"informed", "moved"} =>
       k.arg \in {"IN_PROGRESS", "AWAITING_INFORMATION", "CANCELLED"} /\ (k.arg # "CANCELLED" => Out(k.on))
  /\ k.pc = "answered" => k.arg = "PENDING_ADMIN_QUALITY_REVIEW" /\ Out(k.on)
  /\ k.pc = "approved" => k.arg = "APPROVED_FOR_ORGANIZATION_VERIFICATION" /\ asks[k.on].snapshot > 0
  /\ k.pc = "closed" => k.arg \in {"VERIFIED", "REJECTED", "UNABLE_TO_VERIFY"}
                        /\ (k.arg = "VERIFIED" => Out(k.on) /\ k.on \in heard)
  /\ k.pc = "respond" => k.arg \in Answers /\ Out(k.on) /\ (k.case \notin muddled => links[k.on].answer = "none")
OfRequest(k) ==
  /\ k.on \in Asked /\ asks[k.on].study = k.case /\ k.view \in AskRow /\ k.view.study = k.case
  /\ k.view.org => asks[k.on].org
  /\ k.view.outreach => asks[k.on].outreach
  /\ k.case \notin muddled => k.view = asks[k.on] /\ asks[k.on].status \notin Workflow!Terminal
  /\ Due(k)
StudyCall(k) ==
  k.case \in Studies /\ (IF k.pc \in {"edit", "enter"} THEN OfRecord(k) ELSE OfRequest(k))
StudyCalls == \A c \in Calls : call[c].pc \in StudyFlight => StudyCall(call[c])
StudiesApart == \A c, d \in Calls :
  c # d /\ call[c].pc \in StudyFlight /\ call[d].pc \in StudyFlight /\ call[c].case = call[d].case =>
    call[c].case \in muddled
StudiesTyped ==
  /\ studies \in [Studies -> Study] /\ asks \in [Requests -> AskRow] /\ links \in [Requests -> Link]
  /\ heard \subseteq Requests /\ muddled \subseteq Studies
StudiesHeld ==
  /\ DOMAIN call = Calls /\ StudiesTyped /\ Numbered /\ StudyCalls /\ StudiesApart
  /\ \A v \in Requests : Told(v)
  /\ \A s \in Studies \ muddled : Follows(s)

\* What the links of a step stand by.
LinksStand ==
  \A v \in Asked : asks[v].study \notin muddled' =>
    /\ links[v].token > 0 => links'[v].token = links[v].token
    /\ links[v].answer # "none" => links'[v].answer = links[v].answer

LEMMA StudiesHeldAside ==
  ASSUME StudiesHeld, UNCHANGED studyVars, Steps(Pcs \ StudyFlight)
  PROVE StudiesHeld' /\ LinksStand
<1>1. /\ DOMAIN call' = Calls
      /\ \A c \in Calls : call'[c] = call[c] \/ call'[c].pc \in Pcs \ StudyFlight
  BY AsideCalls DEF StudiesHeld
<1>2. \A c \in Calls : call'[c].pc \in StudyFlight => call'[c] = call[c]
  BY <1>1
<1>3. studies' = studies /\ asks' = asks /\ links' = links /\ heard' = heard /\ muddled' = muddled
  BY DEF studyVars
<1>4. StudiesTyped' /\ Numbered'
  BY <1>3 DEF StudiesHeld, StudiesTyped, Numbered, Asked, RequestsOf, LastAsk
<1>5. \A v \in Requests : Told(v)'
  BY <1>3 DEF StudiesHeld, Told, Out, Asked
<1>6. \A s \in Studies \ muddled : Follows(s)'
  BY <1>3 DEF StudiesHeld, Follows, LastAsk, RequestsOf, Asked, Records, Unsettled
<1>7. StudyCalls'
  <2> SUFFICES ASSUME NEW c \in Calls, call'[c].pc \in StudyFlight PROVE StudyCall(call[c])'
    BY DEF StudyCalls
  <2>1. StudyCall(call[c]) /\ call'[c] = call[c]
    BY <1>2 DEF StudiesHeld, StudyCalls
  <2> QED
    BY <1>3, <2>1 DEF StudyCall, OfRecord, OfRequest, Due, Out, Asked
<1>8. StudiesApart'
  BY <1>2, <1>3 DEF StudiesHeld, StudiesApart
<1>9. LinksStand
  BY <1>3 DEF LinksStand
<1> QED
  BY <1>1, <1>3, <1>4, <1>5, <1>6, <1>7, <1>8, <1>9 DEF StudiesHeld

\* A call that begins about a record marks it if another one is about it.
LEMMA MeetingMarks ==
  ASSUME NEW s, NEW d \in Calls, call[d].pc \in StudyFlight, call[d].case = s
  PROVE s \in Meeting(s)
BY DEF Meeting, Flying, StudyFlight

LEMMA StudyBegins ==
  ASSUME StudiesHeld, NEW c \in Calls, Turn(c), NEW k, k.pc \in StudyFlight, StudyCall(k),
         call' = [call EXCEPT ![c] = k], muddled' = muddled \cup Meeting(k.case),
         UNCHANGED <<studies, asks, links, heard>>
  PROVE StudiesHeld' /\ LinksStand
<1>1. /\ DOMAIN call' = Calls /\ call'[c] = k
      /\ \A d \in Calls : d # c => call'[d] = call[d]
  BY DEF StudiesHeld
<1>2. muddled \subseteq muddled' /\ muddled' \subseteq Studies
  BY DEF Meeting, StudiesHeld, StudiesTyped, StudyCall
<1>3. StudiesTyped' /\ Numbered'
  BY <1>2 DEF StudiesHeld, StudiesTyped, Numbered, Asked, RequestsOf, LastAsk
<1>4. \A v \in Requests : Told(v)'
  BY DEF StudiesHeld, Told, Out, Asked
<1>5. \A s \in Studies \ muddled' : Follows(s)'
  BY <1>2 DEF StudiesHeld, Follows, LastAsk, RequestsOf, Asked, Records, Unsettled
<1>6. \A x : StudyCall(x) => StudyCall(x)'
  BY <1>2 DEF StudyCall, OfRecord, OfRequest, Due, Out, Asked
<1>7. StudyCalls'
  <2> SUFFICES ASSUME NEW d \in Calls, call'[d].pc \in StudyFlight PROVE StudyCall(call[d])'
    BY DEF StudyCalls
  <2> PICK x : x = call'[d]
    OBVIOUS
  <2>1. StudyCall(x)
    BY <1>1 DEF StudiesHeld, StudyCalls
  <2>2. StudyCall(x)'
    BY <1>6, <2>1
  <2> QED
    BY <2>2 DEF StudyCall, OfRecord, OfRequest, Due, Out, Asked
<1>8. \A d \in Calls : d # c /\ call[d].pc \in StudyFlight /\ call[d].case = k.case => k.case \in muddled'
  BY MeetingMarks
<1>9. StudiesApart'
  <2> SUFFICES ASSUME NEW x \in Calls, NEW y \in Calls, x # y, call'[x].pc \in StudyFlight,
                      call'[y].pc \in StudyFlight, call'[x].case = call'[y].case
               PROVE call'[x].case \in muddled'
    BY DEF StudiesApart
  <2>1. CASE x # c /\ y # c
    BY <2>1, <1>1, <1>2 DEF StudiesHeld, StudiesApart
  <2>2. CASE x = c
    BY <2>2, <1>1, <1>8
  <2>3. CASE y = c
    BY <2>3, <1>1, <1>8
  <2> QED
    BY <2>1, <2>2, <2>3
<1>10. LinksStand
  BY DEF LinksStand
<1> QED
  BY <1>1, <1>3, <1>4, <1>5, <1>7, <1>9, <1>10 DEF StudiesHeld

\* What is once so of a request stays so.
Grows(v) ==
  /\ asks'[v].study = asks[v].study
  /\ asks[v].approved => asks'[v].approved
  /\ asks[v].org => asks'[v].org
  /\ asks[v].outreach => asks'[v].outreach
  /\ asks[v].snapshot > 0 => asks'[v].snapshot > 0
  /\ links[v].token > 0 => links'[v].token > 0
\* A call that ends changed rows about one record only, and any other call about it was seen to meet it.
EndsOn(c, s) ==
  /\ Finish(c) /\ StudiesTyped' /\ muddled \subseteq muddled' /\ heard \subseteq heard'
  /\ \A d \in Calls : d # c /\ call[d].pc \in StudyFlight /\ call[d].case = s => s \in muddled'
  /\ \A t \in Studies : t # s => studies'[t] = studies[t]
  /\ \A v \in Asked : Grows(v)
  /\ \A v \in Asked : asks[v].study # s => asks'[v] = asks[v] /\ links'[v] = links[v]
  /\ \A v \in Requests : v \notin Asked => asks'[v].study \in {None, s}
  /\ \A v \in Requests : Told(v)'
  /\ Numbered'
  /\ s \notin muddled' => Follows(s)'
  /\ s \notin muddled' => \A v \in RequestsOf(s) :
       /\ links[v].token > 0 => links'[v].token = links[v].token
       /\ links[v].answer # "none" => links'[v].answer = links[v].answer
LEMMA StudyEnds ==
  ASSUME StudiesHeld, NEW c \in Calls, NEW s \in Studies, EndsOn(c, s)
  PROVE StudiesHeld' /\ LinksStand
<1>0. /\ Finish(c) /\ StudiesTyped' /\ muddled \subseteq muddled' /\ heard \subseteq heard'
      /\ \A d \in Calls : d # c /\ call[d].pc \in StudyFlight /\ call[d].case = s => s \in muddled'
      /\ \A t \in Studies : t # s => studies'[t] = studies[t]
      /\ \A v \in Asked : Grows(v)
      /\ \A v \in Asked : asks[v].study # s => asks'[v] = asks[v] /\ links'[v] = links[v]
      /\ \A v \in Requests : v \notin Asked => asks'[v].study \in {None, s}
      /\ \A v \in Requests : Told(v)'
      /\ Numbered'
      /\ s \notin muddled' => Follows(s)'
      /\ s \notin muddled' => \A v \in RequestsOf(s) :
           /\ links[v].token > 0 => links'[v].token = links[v].token
           /\ links[v].answer # "none" => links'[v].answer = links[v].answer
  BY DEF EndsOn
<1> USE <1>0
<1>1. /\ DOMAIN call' = Calls /\ call'[c].pc = "done"
      /\ \A d \in Calls : d # c => call'[d] = call[d]
  BY FinishCalls DEF StudiesHeld
<1>2. Asked \subseteq Asked'
  BY DEF Asked, Grows
<1>3. \A t \in Studies : t # s => RequestsOf(t)' = RequestsOf(t)
  BY NullAssumption DEF RequestsOf, Asked, Grows
<1>4. \A t \in Studies \ muddled' : Follows(t)'
  <2> SUFFICES ASSUME NEW t \in Studies, t \notin muddled', t # s PROVE Follows(t)'
    OBVIOUS
  <2>1. Follows(t)
    BY DEF StudiesHeld
  <2>2. \A v \in RequestsOf(t) : asks'[v] = asks[v]
    BY DEF RequestsOf
  <2>3. LastAsk(t)' = LastAsk(t)
    BY <1>3 DEF LastAsk
  <2>4. Unsettled(t)' = Unsettled(t)
    BY <1>3, <2>2 DEF Unsettled
  <2>5. studies'[t] = studies[t]
    OBVIOUS
  <2> QED
    BY <2>1, <2>2, <2>3, <2>4, <2>5 DEF Follows, LastAsk, Records
<1>5. StudyCalls'
  <2> SUFFICES ASSUME NEW d \in Calls, call'[d].pc \in StudyFlight PROVE StudyCall(call[d])'
    BY DEF StudyCalls
  <2>1. d # c /\ call'[d] = call[d]
    BY <1>1 DEF StudyFlight
  <2> PICK k : k = call[d]
    OBVIOUS
  <2>2. StudyCall(k) /\ k.case \in Studies
    BY <2>1 DEF StudiesHeld, StudyCalls, StudyCall
  <2>3. k.case \notin muddled' => k.case # s /\ k.case \notin muddled
    BY <2>1
  <2>4. CASE k.pc \in {"edit", "enter"}
    <3>1. OfRecord(k)
      BY <2>2, <2>4 DEF StudyCall
    <3>2. k.case \notin muddled' => studies'[k.case] = studies[k.case]
      BY <2>2, <2>3
    <3> QED
      BY <2>1, <2>2, <2>3, <2>4, <3>1, <3>2 DEF StudyCall, OfRecord
  <2>5. CASE k.pc \notin {"edit", "enter"}
    <3>1. OfRequest(k) /\ k.on \in Asked /\ asks[k.on].study = k.case
      BY <2>2, <2>5 DEF StudyCall, OfRequest
    <3>2. Grows(k.on) /\ k.on \in Asked'
      BY <3>1, <1>2
    <3>3. k.case \notin muddled' => asks'[k.on] = asks[k.on] /\ links'[k.on] = links[k.on]
      BY <2>3, <3>1
    <3>4. Out(k.on) => asks'[k.on].approved /\ asks'[k.on].snapshot > 0 /\ asks'[k.on].org /\ links'[k.on].token > 0
      BY <3>2 DEF Out, Grows
    <3>5. Due(k)
      BY <3>1 DEF OfRequest
    <3>6. Due(k)'
      BY <2>3, <3>2, <3>3, <3>4, <3>5 DEF Due, Out, Grows
    <3> QED
      BY <2>1, <2>2, <2>3, <2>5, <3>1, <3>2, <3>3, <3>6 DEF StudyCall, OfRequest, Grows, Due, Out
  <2> QED
    BY <2>4, <2>5
<1>6. StudiesApart'
  BY <1>1 DEF StudiesHeld, StudiesApart, StudyFlight
<1>7. LinksStand
  BY DEF LinksStand, RequestsOf
<1> QED
  BY <1>1, <1>4, <1>5, <1>6, <1>7 DEF StudiesHeld

\* A request can be cancelled, or settled, only while it is under way.
LEMMA UnderWay ==
  /\ \A x \in Workflow!Status : "CANCELLED" \in Workflow!ValidTransitions[x] => x \notin Workflow!Terminal
  /\ \A x \in Workflow!SubjectEditable \cup Workflow!AdminReviewable \cup Workflow!OrganizationVisible
           \cup Workflow!PostApproval \cup Workflow!CandidateWithdrawable \cup {"PENDING_SUBJECT_SUBMISSION"} :
       x \notin Workflow!Terminal
<1>1. \A x \in Workflow!Status : "CANCELLED" \in Workflow!ValidTransitions[x] => x \notin Workflow!Terminal
  BY DEF Workflow!Status, Workflow!ValidTransitions, Workflow!Terminal
<1>2. \A x \in Workflow!SubjectEditable \cup Workflow!AdminReviewable \cup Workflow!OrganizationVisible
           \cup Workflow!PostApproval \cup Workflow!CandidateWithdrawable \cup {"PENDING_SUBJECT_SUBMISSION"} :
       x \notin Workflow!Terminal
  BY DEF Workflow!SubjectEditable, Workflow!AdminReviewable, Workflow!OrganizationVisible, Workflow!PostApproval,
         Workflow!CandidateWithdrawable, Workflow!PreDispatch, Workflow!Terminal
<1> QED
  BY <1>1, <1>2

LEMMA AskedTyped ==
  ASSUME StudiesHeld, NEW v \in Asked
  PROVE /\ v \in Requests /\ asks[v] \in AskRow /\ asks[v].study \in Studies
        /\ asks[v].status \in Workflow!Status /\ links[v] \in Link
<1>1. v \in Requests /\ asks[v].study # None
  BY DEF Asked
<1>2. asks[v] \in AskRow /\ links[v] \in Link
  BY <1>1 DEF StudiesHeld, StudiesTyped
<1> QED
  BY <1>1, <1>2 DEF AskRow

LEMMA EngageHeld ==
  ASSUME StudiesHeld, NEW c \in Calls, Turn(c), NEW v \in Asked, NEW h \in StudyFlight \ {"edit", "enter"}, NEW arg,
         Engage(c, h, v, arg), asks[v].status \notin Workflow!Terminal,
         NEW k, k = Call(h, asks[v].study, v, asks[v], arg), Due(k)
  PROVE StudiesHeld' /\ LinksStand
<1>1. k.pc = h /\ k.case = asks[v].study /\ k.on = v /\ k.view = asks[v] /\ k.arg = arg
  BY DEF Call
<1>2. OfRequest(k)
  BY <1>1, AskedTyped DEF OfRequest
<1>3. StudyCall(k)
  BY <1>1, <1>2, AskedTyped DEF StudyCall
<1> QED
  BY Zenon, <1>1, <1>3, StudyBegins DEF Engage

LEMMA EngageStarts ==
  ASSUME StudiesHeld, NEW c \in Calls, Turn(c),
         \/ Attach(c) \/ UpdateContact(c) \/ SubmitForReview(c) \/ Resubmit(c) \/ SubmitInformation(c)
         \/ RequestCorrections(c) \/ ReviewContact(c) \/ Approve(c) \/ Close(c) \/ ReturnToVerifier(c) \/ AdminCancel(c)
         \/ RecordClarification(c) \/ InstitutionActs(c) \/ InstitutionAnswers(c) \/ Respond(c)
  PROVE StudiesHeld' /\ LinksStand
<1> SUFFICES \E v \in Asked, h \in StudyFlight \ {"edit", "enter"} : \E arg :
               /\ Engage(c, h, v, arg) /\ asks[v].status \notin Workflow!Terminal
               /\ Due(Call(h, asks[v].study, v, asks[v], arg))
  BY EngageHeld
<1> DEFINE Ok(v, h, arg) == Engage(c, h, v, arg) /\ asks[v].status \notin Workflow!Terminal
                           /\ Due(Call(h, asks[v].study, v, asks[v], arg))
<1>a. ASSUME NEW v \in Asked
      PROVE /\ asks[v].status \in Workflow!Status
            /\ asks[v].status \in WithInstitution => Out(v)
            /\ asks[v].status \in {"PENDING_ADMIN_QUALITY_REVIEW", "VERIFIED"} => v \in heard
  BY AskedTyped DEF StudiesHeld, Told
<1>b. StudyFlight \ {"edit", "enter"} = {"attach", "contact", "submitted", "resubmitted", "informed",
                "corrected", "approved", "closed", "moved", "answered", "respond"}
  BY DEF StudyFlight
<1>1. CASE Attach(c)
  <2>1. PICK v \in Asked : asks[v].status \in Workflow!SubjectEditable /\ Engage(c, "attach", v, None)
    BY <1>1 DEF Attach
  <2>2. Ok(v, "attach", None)
    BY <2>1, UnderWay DEF Due, Call
  <2> QED
    BY <2>2, <1>b
<1>2. CASE UpdateContact(c)
  <2>1. PICK v \in Asked : asks[v].status \in Workflow!SubjectEditable /\ Engage(c, "contact", v, "pending")
    BY <1>2 DEF UpdateContact
  <2>2. Ok(v, "contact", "pending")
    BY <2>1, UnderWay DEF Due, Call
  <2> QED
    BY <2>2, <1>b
<1>3. CASE SubmitForReview(c)
  <2>1. PICK v \in Asked : asks[v].status = "PENDING_SUBJECT_SUBMISSION" /\ Engage(c, "submitted", v, "PENDING_ADMIN_REVIEW")
    BY <1>3 DEF SubmitForReview
  <2>2. Ok(v, "submitted", "PENDING_ADMIN_REVIEW")
    BY <2>1, UnderWay DEF Due, Call
  <2> QED
    BY <2>2, <1>b
<1>4. CASE Resubmit(c)
  <2>1. PICK v \in Asked : asks[v].status = "AWAITING_SUBJECT_CORRECTIONS" /\ Engage(c, "resubmitted", v, "PENDING_ADMIN_RE_REVIEW")
    BY <1>4 DEF Resubmit
  <2>2. Ok(v, "resubmitted", "PENDING_ADMIN_RE_REVIEW")
    BY <2>1 DEF Due, Call, Workflow!Terminal
  <2> QED
    BY <2>2, <1>b
<1>5. CASE SubmitInformation(c) \/ RecordClarification(c)
  <2>1. PICK v \in Asked : asks[v].status = "AWAITING_INFORMATION" /\ Engage(c, "informed", v, "IN_PROGRESS")
    BY <1>5 DEF SubmitInformation, RecordClarification
  <2>2. Out(v) /\ asks[v].status \notin Workflow!Terminal
    BY <2>1, <1>a DEF Workflow!OrganizationVisible, WithInstitution, Workflow!Terminal
  <2>3. Ok(v, "informed", "IN_PROGRESS")
    BY <2>1, <2>2 DEF Due, Call
  <2> QED
    BY <2>3, <1>b
<1>6. CASE RequestCorrections(c)
  <2>1. PICK v \in Asked : asks[v].status \in Workflow!AdminReviewable /\ Engage(c, "corrected", v, "AWAITING_SUBJECT_CORRECTIONS")
    BY <1>6 DEF RequestCorrections
  <2>2. Ok(v, "corrected", "AWAITING_SUBJECT_CORRECTIONS")
    BY <2>1, UnderWay DEF Due, Call
  <2> QED
    BY <2>2, <1>b
<1>7. CASE ReviewContact(c)
  <2>1. PICK v \in Asked, r \in {"approved", "changes"} : asks[v].status \in Workflow!AdminReviewable /\ Engage(c, "contact", v, r)
    BY <1>7 DEF ReviewContact
  <2>2. Ok(v, "contact", r)
    BY <2>1, UnderWay DEF Due, Call
  <2> QED
    BY <2>2, <1>b
<1>8. CASE Approve(c)
  <2>1. PICK v \in Asked : /\ asks[v].status \in Workflow!PreDispatch /\ asks[v].snapshot > 0
                           /\ Engage(c, "approved", v, "APPROVED_FOR_ORGANIZATION_VERIFICATION")
    BY <1>8 DEF Approve
  <2>2. Ok(v, "approved", "APPROVED_FOR_ORGANIZATION_VERIFICATION")
    BY <2>1 DEF Due, Call, Workflow!PreDispatch, Workflow!Terminal
  <2> QED
    BY <2>2, <1>b
<1>9. CASE Close(c)
  <2>1. PICK v \in Asked, o \in {"VERIFIED", "REJECTED", "UNABLE_TO_VERIFY"} :
          /\ o = "VERIFIED" => asks[v].status = "PENDING_ADMIN_QUALITY_REVIEW"
          /\ asks[v].status \in Workflow!AdminReviewable /\ Engage(c, "closed", v, o)
    BY <1>9 DEF Close
  <2>2. o = "VERIFIED" => Out(v) /\ v \in heard
    BY <2>1, <1>a DEF WithInstitution
  <2>3. Ok(v, "closed", o)
    BY <2>1, <2>2, UnderWay DEF Due, Call
  <2> QED
    BY <2>3, <1>b
<1>10. CASE ReturnToVerifier(c)
  <2>1. PICK v \in Asked : asks[v].status = "PENDING_ADMIN_QUALITY_REVIEW" /\ Engage(c, "moved", v, "IN_PROGRESS")
    BY <1>10 DEF ReturnToVerifier
  <2>2. Out(v) /\ asks[v].status \notin Workflow!Terminal
    BY <2>1, <1>a DEF WithInstitution, Workflow!Terminal
  <2>3. Ok(v, "moved", "IN_PROGRESS")
    BY <2>1, <2>2 DEF Due, Call
  <2> QED
    BY <2>3, <1>b
<1>11. CASE AdminCancel(c)
  <2>1. PICK v \in Asked : "CANCELLED" \in Workflow!ValidTransitions[asks[v].status] /\ Engage(c, "moved", v, "CANCELLED")
    BY <1>11 DEF AdminCancel
  <2>2. asks[v].status \notin Workflow!Terminal
    BY <2>1, <1>a, UnderWay
  <2>3. Ok(v, "moved", "CANCELLED")
    BY <2>1, <2>2 DEF Due, Call
  <2> QED
    BY <2>3, <1>b
<1>12. CASE InstitutionActs(c)
  <2>1. PICK v \in Asked, m \in {"IN_PROGRESS", "AWAITING_INFORMATION", "CANCELLED"} :
          asks[v].status \in Workflow!OrganizationVisible /\ Engage(c, "moved", v, m)
    BY <1>12 DEF InstitutionActs, Manageable
  <2>2. Out(v) /\ asks[v].status \notin Workflow!Terminal
    BY <2>1, <1>a, UnderWay DEF WithInstitution
  <2>3. Ok(v, "moved", m)
    BY <2>1, <2>2 DEF Due, Call
  <2> QED
    BY <2>3, <1>b
<1>13. CASE InstitutionAnswers(c)
  <2>1. PICK v \in Asked : asks[v].status \in Workflow!OrganizationVisible /\ Engage(c, "answered", v, "PENDING_ADMIN_QUALITY_REVIEW")
    BY <1>13 DEF InstitutionAnswers, Manageable
  <2>2. Out(v) /\ asks[v].status \notin Workflow!Terminal
    BY <2>1, <1>a, UnderWay DEF WithInstitution
  <2>3. Ok(v, "answered", "PENDING_ADMIN_QUALITY_REVIEW")
    BY <2>1, <2>2 DEF Due, Call
  <2> QED
    BY <2>3, <1>b
<1>14. CASE Respond(c)
  <2>1. PICK v \in Asked, a \in Answers :
          /\ links[v].answer = "none"
          /\ asks[v].status \in {"PENDING_ORGANIZATION_ACCEPTANCE", "IN_PROGRESS", "AWAITING_INFORMATION"}
          /\ Engage(c, "respond", v, a)
    BY <1>14 DEF Respond, Unanswered
  <2>2. Out(v) /\ asks[v].status \notin Workflow!Terminal
    BY <2>1, <1>a, UnderWay DEF WithInstitution, Workflow!OrganizationVisible
  <2>3. Ok(v, "respond", a)
    BY <2>1, <2>2 DEF Due, Call
  <2> QED
    BY <2>3, <1>b
<1> QED
  BY <1>1, <1>2, <1>3, <1>4, <1>5, <1>6, <1>7, <1>8, <1>9, <1>10, <1>11, <1>12, <1>13, <1>14

LEMMA RecordStarts ==
  ASSUME StudiesHeld, NEW c \in Calls, Turn(c), EditStudy(c) \/ SubmitStudy(c)
  PROVE StudiesHeld' /\ LinksStand
<1>1. PICK s \in Records, h \in {"edit", "enter"}, arg \in BOOLEAN \cup {None} :
        /\ OnStudy(c, s, h, arg)
        /\ h = "edit" => arg \in BOOLEAN
        /\ s \notin muddled /\ (h = "enter" \/ arg = TRUE) => studies[s].status # "verified"
  <2>1. ASSUME NEW s \in Records, s \notin muddled, Recovering(s)
        PROVE studies[s].status # "verified"
    <3>1. Follows(s) /\ Numbered /\ s \in Studies
      BY <2>1 DEF StudiesHeld, Records
    <3>2. CASE RequestsOf(s) # {} /\ asks[Newest(s)].status = "REJECTED"
      <4>1. PICK v \in LastAsk(s) : TRUE
        BY <3>1, <3>2 DEF Numbered
      <4>2. \A w \in LastAsk(s) : w = v
        BY <4>1, RequestsAssumption DEF LastAsk, RequestsOf, Asked
      <4>3. Newest(s) \in LastAsk(s)
        BY <4>1 DEF Newest, LastAsk
      <4> QED
        BY <3>1, <3>2, <4>2, <4>3 DEF Follows
    <3> QED
      BY <2>1, <3>2 DEF Recovering
  <2>2. CASE EditStudy(c)
    <3>1. PICK s \in Records : OnStudy(c, s, "edit", Recovering(s))
      BY <2>2 DEF EditStudy
    <3>2. CASE Recovering(s)
      <4>1. Recovering(s) = TRUE
        BY <3>2
      <4> QED
        BY Zenon, <3>1, <3>2, <4>1, <2>1
    <3>3. CASE ~Recovering(s)
      <4>1. Recovering(s) = FALSE
        BY <3>3
      <4> QED
        BY Zenon, <3>1, <4>1
    <3> QED
      BY Zenon, <3>2, <3>3
  <2>3. CASE SubmitStudy(c)
    BY <2>3 DEF SubmitStudy
  <2> QED
    BY Zenon, <2>2, <2>3
<1> PICK k : k = Call(h, s, None, studies[s], arg)
  OBVIOUS
<1>2. k.pc = h /\ k.case = s /\ k.view = studies[s] /\ k.arg = arg
  BY DEF Call
<1>3. s \in Studies /\ studies[s] \in Study
  BY DEF Records, StudiesHeld, StudiesTyped
<1>4. StudyCall(k) /\ k.pc \in StudyFlight
  BY <1>1, <1>2, <1>3 DEF StudyCall, OfRecord, StudyFlight
<1> QED
  BY Zenon, <1>1, <1>2, <1>4, StudyBegins DEF OnStudy

\* A changed row leaves the requests of each record, and their order, as they are.
LEMMA RequestsKept ==
  ASSUME StudiesHeld, NEW v \in Asked, NEW row \in AskRow, row.study = asks[v].study,
         asks' = [asks EXCEPT ![v] = row]
  PROVE /\ Asked' = Asked /\ asks' \in [Requests -> AskRow] /\ asks'[v] = row
        /\ \A w \in Requests : w # v => asks'[w] = asks[w]
        /\ \A s \in Studies : RequestsOf(s)' = RequestsOf(s) /\ LastAsk(s)' = LastAsk(s)
        /\ Numbered'
<1>1. asks \in [Requests -> AskRow] /\ v \in Requests /\ asks[v].study # None
  BY DEF StudiesHeld, StudiesTyped, Asked
<1>2. asks' \in [Requests -> AskRow] /\ asks'[v] = row /\ \A w \in Requests : w # v => asks'[w] = asks[w]
  BY <1>1
<1>3. \A w \in Requests : asks'[w].study = asks[w].study
  BY <1>2
<1>4. Asked' = Asked
  BY <1>3 DEF Asked
<1>5. \A s \in Studies : RequestsOf(s)' = RequestsOf(s)
  BY <1>3, <1>4 DEF RequestsOf, Asked
<1>6. \A s \in Studies : LastAsk(s)' = LastAsk(s)
  BY <1>5 DEF LastAsk
<1>7. Numbered'
  BY <1>4, <1>5, <1>6 DEF StudiesHeld, Numbered
<1> QED
  BY <1>2, <1>4, <1>5, <1>6, <1>7

\* The newest request is one.
LEMMA LastAskOne ==
  ASSUME NEW s, NEW v \in LastAsk(s), NEW w \in LastAsk(s)
  PROVE v = w
BY RequestsAssumption DEF LastAsk, RequestsOf, Asked

LEMMA UnsettledLast ==
  ASSUME StudiesHeld, NEW s \in Studies \ muddled, NEW v \in Asked, asks[v].study = s,
         asks[v].status \notin Workflow!Terminal
  PROVE v \in LastAsk(s) /\ studies[s].status # "verified"
<1>1. Follows(s)
  BY DEF StudiesHeld
<1>2. v \in Unsettled(s)
  BY DEF Unsettled, RequestsOf
<1>3. v \in LastAsk(s) /\ asks[v].status # "VERIFIED"
  BY <1>1, <1>2 DEF Follows, Workflow!Terminal
<1> QED
  BY <1>1, <1>3, LastAskOne DEF Follows

LEMMA AskEnds ==
  ASSUME StudiesHeld, NEW c \in Calls, Finish(c), NEW v \in Asked, NEW row \in AskRow, row.study = asks[v].study,
         asks' = [asks EXCEPT ![v] = row], studies' = studies,
         links' \in [Requests -> Link], \A w \in Requests : w # v => links'[w] = links[w],
         heard \subseteq heard', heard' \subseteq heard \cup {v}, muddled \subseteq muddled', muddled' \subseteq Studies,
         \A d \in Calls : d # c /\ call[d].pc \in StudyFlight /\ call[d].case = asks[v].study => asks[v].study \in muddled',
         Grows(v), Told(v)',
         asks[v].study \notin muddled' =>
           /\ asks[v].status \notin Workflow!Terminal
           /\ row.status \notin {"VERIFIED", "WITHDRAWN_BY_CANDIDATE"}
           /\ links[v].token > 0 => links'[v].token = links[v].token
           /\ links[v].answer # "none" => links'[v].answer = links[v].answer
  PROVE StudiesHeld' /\ LinksStand
<1> PICK s \in Studies : s = asks[v].study
  BY AskedTyped
<1>1. /\ Asked' = Asked /\ asks' \in [Requests -> AskRow] /\ asks'[v] = row
      /\ \A w \in Requests : w # v => asks'[w] = asks[w]
      /\ \A t \in Studies : RequestsOf(t)' = RequestsOf(t) /\ LastAsk(t)' = LastAsk(t)
      /\ Numbered'
  BY Zenon, RequestsKept
<1>2. StudiesTyped'
  BY <1>1 DEF StudiesHeld, StudiesTyped, Asked
<1>3. \A w \in Asked : Grows(w)
  BY <1>1 DEF Grows, Asked
<1>4. \A w \in Requests : Told(w)'
  <2> SUFFICES ASSUME NEW w \in Requests, w # v PROVE Told(w)'
    OBVIOUS
  <2>1. Told(w) /\ asks'[w] = asks[w] /\ links'[w] = links[w]
    BY <1>1 DEF StudiesHeld
  <2> QED
    BY <1>1, <2>1 DEF Told, Out
<1>5. s \notin muddled' => Follows(s)'
  <2> SUFFICES ASSUME s \notin muddled' PROVE Follows(s)'
    OBVIOUS
  <2>1. Follows(s) /\ v \in LastAsk(s) /\ studies[s].status # "verified"
    BY UnsettledLast DEF StudiesHeld
  <2>2. \A w \in LastAsk(s)' : w = v
    BY <1>1, <2>1, LastAskOne
  <2>3. \A w \in Unsettled(s)' : w \in LastAsk(s)
    <3> SUFFICES ASSUME NEW w \in Unsettled(s)', w # v PROVE w \in LastAsk(s)
      BY <2>1
    <3>1. w \in Unsettled(s)
      BY <1>1 DEF Unsettled, RequestsOf, Asked
    <3> QED
      BY <3>1, <2>1 DEF Follows
  <2>4. v \in LastAsk(s)' /\ asks'[v].status \notin {"VERIFIED", "WITHDRAWN_BY_CANDIDATE"}
    BY <1>1, <2>1
  <2> QED
    BY <1>1, <2>1, <2>2, <2>3, <2>4 DEF Follows
<1>6. s \notin muddled' => \A w \in RequestsOf(s) :
           /\ links[w].token > 0 => links'[w].token = links[w].token
           /\ links[w].answer # "none" => links'[w].answer = links[w].answer
  BY DEF RequestsOf, Asked
<1>7. \A w \in Asked : asks[w].study # s => asks'[w] = asks[w] /\ links'[w] = links[w]
  BY <1>1 DEF Asked
<1>8. \A w \in Requests : w \notin Asked => asks'[w].study \in {None, s}
  BY <1>1 DEF Asked
<1>9. \A d \in Calls : d # c /\ call[d].pc \in StudyFlight /\ call[d].case = s => s \in muddled'
  OBVIOUS
<1>10. \A t \in Studies : t # s => studies'[t] = studies[t]
  OBVIOUS
<1> QED
  <2>1. EndsOn(c, s)
    BY <1>1, <1>2, <1>3, <1>4, <1>5, <1>6, <1>7, <1>8, <1>9, <1>10 DEF EndsOn
  <2> QED
    BY <2>1, StudyEnds

\* A row that can be sent out to the institution, by a call that has the request as r, and what the call makes of it.
Sendable(v, r, row) ==
  /\ row \in AskRow /\ row.study = asks[v].study /\ row.approved /\ row.snapshot > 0
  /\ (row.outreach <=> asks[v].outreach) /\ (asks[v].org => row.org)
  /\ (r.outreach => asks[v].outreach) /\ (r.org => row.org) /\ r.status \in Workflow!PostApproval
SentOn(v, r, new) ==
  /\ asks' = [asks EXCEPT ![v] = new] /\ new.study = asks[v].study
  /\ new.approved /\ new.snapshot > 0 /\ (asks[v].org => new.org) /\ (asks[v].outreach => new.outreach)
  /\ new.status \in Workflow!PostApproval \cup {"PENDING_ORGANIZATION_ACCEPTANCE"}
  /\ links' \in [Requests -> Link] /\ \A w \in Requests : w # v => links'[w] = links[w]
  /\ links[v].token > 0 => links'[v].token > 0
  /\ Told(v)'
  /\ (r.outreach <=> asks[v].outreach) /\ links[v].token > 0 => links'[v] = links[v]
  /\ (r.outreach <=> asks[v].outreach) /\ links[v].answer # "none" => links'[v] = links[v]
LEMMA DispatchHeld ==
  ASSUME StudiesHeld, NEW v \in Asked, NEW r, NEW row, Sendable(v, r, row), Dispatch(v, r, row), heard \subseteq heard'
  PROVE \E new \in AskRow : SentOn(v, r, new)
<1>0. /\ row \in AskRow /\ row.study = asks[v].study /\ row.approved /\ row.snapshot > 0
      /\ (row.outreach <=> asks[v].outreach) /\ (asks[v].org => row.org)
      /\ (r.outreach => asks[v].outreach) /\ (r.org => row.org) /\ r.status \in Workflow!PostApproval
  BY DEF Sendable
<1>1. v \in Requests /\ asks[v] \in AskRow /\ links \in [Requests -> Link] /\ asks \in [Requests -> AskRow] /\ Told(v)
  BY AskedTyped DEF StudiesHeld, StudiesTyped
<1>2. links[v].token \in Nat
  BY <1>1, RequestsAssumption DEF Link
<1>3. row.study # None
  BY <1>0 DEF Asked
<1>4. CASE Sent(r) /\ UNCHANGED links /\ asks' = [asks EXCEPT ![v] = [row EXCEPT !.status = "PENDING_ORGANIZATION_ACCEPTANCE"]]
  <2> PICK new : new = [row EXCEPT !.status = "PENDING_ORGANIZATION_ACCEPTANCE"]
    BY Zenon
  <2>1. /\ new \in AskRow /\ new.study = row.study /\ new.approved /\ new.snapshot > 0 /\ (row.org => new.org)
        /\ (row.outreach <=> new.outreach) /\ new.status = "PENDING_ORGANIZATION_ACCEPTANCE"
    BY <1>0 DEF AskRow, Workflow!Status
  <2>2. asks' = [asks EXCEPT ![v] = new] /\ asks'[v] = new /\ links' = links
    BY <1>1, <1>4
  <2>3. asks[v].outreach /\ asks[v].org /\ links[v].token > 0
    BY <1>0, <1>1, <1>4 DEF Sent, Told
  <2>4. v \in Asked'
    BY <1>3, <2>1, <2>2, <1>1 DEF Asked
  <2>5. /\ asks'[v].approved /\ asks'[v].snapshot > 0 /\ asks'[v].org /\ asks'[v].outreach /\ links'[v].token > 0
        /\ asks'[v].status = "PENDING_ORGANIZATION_ACCEPTANCE"
    <3>1. row.org /\ row.outreach
      BY <1>0, <2>3
    <3>2. new.approved /\ new.snapshot > 0 /\ new.org /\ new.outreach /\ new.status = "PENDING_ORGANIZATION_ACCEPTANCE"
      BY <2>1, <3>1
    <3> QED
      BY Zenon, <2>2, <2>3, <3>2
  <2>6. Told(v)'
    BY <1>2, <2>2, <2>4, <2>5 DEF Told, Out, Workflow!PostApproval
  <2> QED
    BY Zenon, <1>0, <1>1, <2>1, <2>2, <2>3, <2>6 DEF SentOn
<1>5. CASE /\ ~Sent(r) /\ r.org /\ links[v].token < MaxTokens /\ links' = [links EXCEPT ![v] = Issued(v)]
           /\ \E s \in {"PENDING_ORGANIZATION_ACCEPTANCE", r.status} :
                asks' = [asks EXCEPT ![v] = [row EXCEPT !.outreach = TRUE, !.status = s]]
  <2>1. PICK s \in {"PENDING_ORGANIZATION_ACCEPTANCE", r.status} :
                asks' = [asks EXCEPT ![v] = [row EXCEPT !.outreach = TRUE, !.status = s]]
    BY Zenon, <1>5
  <2> PICK new : new = [row EXCEPT !.outreach = TRUE, !.status = s]
    OBVIOUS
  <2>2. s \in Workflow!Status /\ s \in Workflow!PostApproval \cup {"PENDING_ORGANIZATION_ACCEPTANCE"}
    BY <1>0 DEF Workflow!Status, Workflow!PostApproval
  <2>3. /\ new \in AskRow /\ new.study = row.study /\ new.approved /\ new.snapshot > 0 /\ (row.org => new.org)
        /\ new.outreach /\ new.status = s
    BY Zenon, <1>0, <2>2 DEF AskRow
  <2>4. asks' = [asks EXCEPT ![v] = new] /\ asks'[v] = new
    BY <1>1, <2>1
  <2>a. PICK t \in 0..MaxTokens : t = links[v].token + 1
    BY <1>2, <1>5, RequestsAssumption
  <2>b. Issued(v) = [token |-> t, viewed |-> FALSE, lapsed |-> FALSE, answer |-> "none"]
    <3>1. Issued(v) = [NoLink EXCEPT !.token = t]
      BY <2>a DEF Issued
    <3> QED
      BY Zenon, <3>1 DEF NoLink
  <2>5. Issued(v) \in Link /\ Issued(v).token = links[v].token + 1 /\ Issued(v).answer = "none"
    BY <2>a, <2>b DEF Link
  <2>6. links' \in [Requests -> Link] /\ links'[v] = Issued(v) /\ \A w \in Requests : w # v => links'[w] = links[w]
    BY <1>1, <1>5, <2>5
  <2>7. links'[v].token > 0
    BY <1>2, <2>5, <2>6
  <2>8. v \in Asked'
    BY <1>3, <2>3, <2>4, <1>1 DEF Asked
  <2>9. s \notin {"PENDING_ADMIN_QUALITY_REVIEW", "VERIFIED"}
    BY <2>2 DEF Workflow!PostApproval
  <2>10. Told(v)'
    BY Zenon, <1>0, <1>5, <2>3, <2>4, <2>5, <2>6, <2>7, <2>8, <2>9 DEF Told, Out
  <2>11. (r.outreach <=> asks[v].outreach) => ~(links[v].token > 0) /\ links[v].answer = "none"
    BY <1>1, <1>2, <1>5 DEF Sent, Told
  <2> QED
    BY Zenon, <1>0, <2>2, <2>3, <2>4, <2>6, <2>7, <2>10, <2>11 DEF SentOn
<1> QED
  BY <1>4, <1>5 DEF Dispatch

LEMMA CommitMarks ==
  ASSUME StudiesHeld, NEW c \in Calls, call[c].pc \in StudyFlight
  PROVE \A d \in Calls : d # c /\ call[d].pc \in StudyFlight /\ call[d].case = call[c].case => call[c].case \in muddled
BY DEF StudiesHeld, StudiesApart

LEMMA FlightOn ==
  ASSUME StudiesHeld, NEW c \in Calls, NEW k, k = call[c], k.pc \in StudyFlight \ {"edit", "enter"}
  PROVE OfRequest(k) /\ k.on \in Asked /\ asks[k.on].study = k.case
BY DEF StudiesHeld, StudyCalls, StudyCall, OfRequest

LEMMA CommitApprovalHeld ==
  ASSUME StudiesHeld, NEW c \in Calls, CommitApproval(c)
  PROVE StudiesHeld' /\ LinksStand
<1> PICK k : k = call[c]
  OBVIOUS
<1>1. /\ k.pc = "approved" /\ Finish(c) /\ muddled' = muddled /\ UNCHANGED <<studies, heard>>
  BY DEF CommitApproval, Commit
<1>2. k.pc \in StudyFlight \ {"edit", "enter"}
  BY <1>1 DEF StudyFlight
<1>3. OfRequest(k) /\ k.on \in Asked /\ asks[k.on].study = k.case
  BY <1>2, FlightOn
<1> PICK v \in Asked : v = k.on
  BY <1>3
<1>4. /\ k.arg = "APPROVED_FOR_ORGANIZATION_VERIFICATION" /\ asks[v].snapshot > 0 /\ k.view \in AskRow
      /\ k.view.org => asks[v].org
      /\ k.view.outreach => asks[v].outreach
      /\ k.case \notin muddled => k.view = asks[v] /\ asks[v].status \notin Workflow!Terminal
  BY <1>1, <1>3 DEF OfRequest, Due
<1> PICK row : row = [asks[v] EXCEPT !.approved = TRUE]
  BY Zenon
<1>5. v \in Requests /\ asks[v] \in AskRow /\ links \in [Requests -> Link] /\ Told(v)
  BY AskedTyped DEF StudiesHeld, StudiesTyped
<1>6. /\ row \in AskRow /\ row.study = asks[v].study /\ row.approved /\ row.snapshot = asks[v].snapshot
      /\ (row.org <=> asks[v].org) /\ (row.outreach <=> asks[v].outreach)
  BY Zenon, <1>5 DEF AskRow
<1>7. \A d \in Calls : d # c /\ call[d].pc \in StudyFlight /\ call[d].case = asks[v].study => asks[v].study \in muddled'
  BY <1>1, <1>2, <1>3, CommitMarks
<1> PICK r : r = [k.view EXCEPT !.status = k.arg]
  BY Zenon
<1>8. r.status \in Workflow!PostApproval /\ r.outreach = k.view.outreach /\ r.org = k.view.org
  BY <1>4 DEF AskRow, Workflow!PostApproval
<1>9. CASE Dispatch(v, r, row)
  <2>a. Sendable(v, r, row)
    <3>1. row \in AskRow /\ row.study = asks[v].study /\ row.approved /\ row.snapshot > 0
      BY <1>4, <1>6
    <3>2. (row.outreach <=> asks[v].outreach) /\ (asks[v].org => row.org) /\ (r.org => row.org)
      BY <1>4, <1>6, <1>8
    <3>3. r.outreach => asks[v].outreach
      BY <1>4, <1>8
    <3> QED
      BY <1>8, <3>1, <3>2, <3>3 DEF Sendable
  <2>b. PICK new \in AskRow : SentOn(v, r, new)
    BY <1>1, <1>9, <2>a, DispatchHeld
  <2>1. /\ asks' = [asks EXCEPT ![v] = new] /\ new.study = asks[v].study
        /\ new.approved /\ new.snapshot > 0 /\ (asks[v].org => new.org) /\ (asks[v].outreach => new.outreach)
        /\ new.status \in Workflow!PostApproval \cup {"PENDING_ORGANIZATION_ACCEPTANCE"}
        /\ links' \in [Requests -> Link] /\ \A w \in Requests : w # v => links'[w] = links[w]
        /\ links[v].token > 0 => links'[v].token > 0
        /\ Told(v)'
        /\ (r.outreach <=> asks[v].outreach) /\ links[v].token > 0 => links'[v] = links[v]
        /\ (r.outreach <=> asks[v].outreach) /\ links[v].answer # "none" => links'[v] = links[v]
    BY <2>b DEF SentOn
  <2>2. asks'[v] = new
    BY <1>5, <2>1 DEF StudiesHeld, StudiesTyped
  <2>3. Grows(v)
    BY <2>1, <2>2 DEF Grows
  <2>4. new.status \notin {"VERIFIED", "WITHDRAWN_BY_CANDIDATE"}
    BY <2>1 DEF Workflow!PostApproval
  <2>5. asks[v].study \notin muddled' =>
           /\ asks[v].status \notin Workflow!Terminal
           /\ links[v].token > 0 => links'[v].token = links[v].token
           /\ links[v].answer # "none" => links'[v].answer = links[v].answer
    BY <1>1, <1>3, <1>4, <1>8, <2>1
  <2> QED
    BY Zenon, <1>1, <1>7, <2>1, <2>3, <2>4, <2>5, AskEnds DEF StudiesHeld, StudiesTyped
<1>10. CASE UNCHANGED links /\ asks' = [asks EXCEPT ![v] = [row EXCEPT !.status = "PENDING_ORGANIZATION_RESOLUTION"]]
  <2> PICK new : new = [row EXCEPT !.status = "PENDING_ORGANIZATION_RESOLUTION"]
    OBVIOUS
  <2>1. /\ new \in AskRow /\ new.study = asks[v].study /\ new.approved /\ new.snapshot = asks[v].snapshot
        /\ (new.org <=> asks[v].org) /\ (new.outreach <=> asks[v].outreach) /\ new.status = "PENDING_ORGANIZATION_RESOLUTION"
    <3>1. "PENDING_ORGANIZATION_RESOLUTION" \in Workflow!Status
      BY DEF Workflow!Status
    <3> QED
      BY Zenon, <1>6, <3>1 DEF AskRow
  <2>2. asks' = [asks EXCEPT ![v] = new] /\ asks'[v] = new
    BY Zenon, <1>5, <1>10 DEF StudiesHeld, StudiesTyped
  <2>3. Grows(v)
    BY <1>10, <2>1, <2>2 DEF Grows
  <2>4. v \in Asked'
    BY <2>1, <2>2, <1>5 DEF Asked
  <2>5. Told(v)'
    BY <1>1, <1>4, <1>5, <1>10, <2>1, <2>2, <2>4 DEF Told, Out, WithInstitution, Workflow!OrganizationVisible
  <2>6. links' \in [Requests -> Link] /\ \A w \in Requests : w # v => links'[w] = links[w]
    BY <1>5, <1>10
  <2>7. heard \subseteq heard' /\ heard' \subseteq heard \cup {v} /\ muddled \subseteq muddled' /\ muddled' \subseteq Studies
    BY <1>1 DEF StudiesHeld, StudiesTyped
  <2>8. asks[v].study \notin muddled' =>
           /\ asks[v].status \notin Workflow!Terminal
           /\ new.status \notin {"VERIFIED", "WITHDRAWN_BY_CANDIDATE"}
           /\ links[v].token > 0 => links'[v].token = links[v].token
           /\ links[v].answer # "none" => links'[v].answer = links[v].answer
    BY <1>1, <1>3, <1>4, <1>10, <2>1
  <2>9. new \in AskRow /\ new.study = asks[v].study /\ asks' = [asks EXCEPT ![v] = new] /\ studies' = studies /\ Finish(c)
    BY <1>1, <2>1, <2>2
  <2> QED
    BY <1>7, <2>3, <2>5, <2>6, <2>7, <2>8, <2>9, AskEnds, Zenon
<1> QED
  BY <1>9, <1>10 DEF CommitApproval

LEMMA AtOnceMarks ==
  ASSUME StudiesHeld, NEW c \in Calls, NEW s \in Studies, AtOnce(c, s)
  PROVE /\ Finish(c) /\ muddled \subseteq muddled' /\ muddled' \subseteq Studies
        /\ \A d \in Calls : d # c /\ call[d].pc \in StudyFlight /\ call[d].case = s => s \in muddled'
<1>1. Finish(c) /\ muddled' = muddled \cup Meeting(s)
  BY DEF AtOnce
<1> QED
  BY <1>1, MeetingMarks DEF Meeting, StudiesHeld, StudiesTyped

LEMMA ResolveHeld ==
  ASSUME StudiesHeld, NEW c \in Calls, ResolveOrganization(c)
  PROVE StudiesHeld' /\ LinksStand
<1>1. PICK v \in Asked :
        /\ \/ /\ asks[v].status \in Workflow!PostApproval
              /\ Dispatch(v, [asks[v] EXCEPT !.org = TRUE], [asks[v] EXCEPT !.org = TRUE])
           \/ /\ asks[v].status \in Workflow!PreDispatch /\ ~asks[v].org
              /\ asks' = [asks EXCEPT ![v] = [asks[v] EXCEPT !.org = TRUE]]
              /\ UNCHANGED links
        /\ AtOnce(c, asks[v].study)
        /\ UNCHANGED <<studies, heard>>
  BY Zenon DEF ResolveOrganization
<1> PICK row : row = [asks[v] EXCEPT !.org = TRUE]
  BY Zenon
<1>2. v \in Requests /\ asks[v] \in AskRow /\ links \in [Requests -> Link] /\ Told(v) /\ asks[v].study \in Studies
  BY AskedTyped DEF StudiesHeld, StudiesTyped
<1>3. /\ row \in AskRow /\ row.study = asks[v].study /\ row.org /\ (row.approved <=> asks[v].approved)
      /\ row.snapshot = asks[v].snapshot /\ row.status = asks[v].status /\ (row.outreach <=> asks[v].outreach)
  BY Zenon, <1>2 DEF AskRow
<1>4. /\ Finish(c) /\ muddled \subseteq muddled' /\ muddled' \subseteq Studies
      /\ \A d \in Calls : d # c /\ call[d].pc \in StudyFlight /\ call[d].case = asks[v].study => asks[v].study \in muddled'
  BY <1>1, <1>2, AtOnceMarks
<1>5. asks[v].status \notin Workflow!Terminal
  BY <1>1 DEF Workflow!PostApproval, Workflow!PreDispatch, Workflow!Terminal
<1>6. CASE asks[v].status \in Workflow!PostApproval /\ Dispatch(v, row, row)
  <2>1. asks[v].approved /\ asks[v].snapshot > 0
    BY <1>2, <1>6 DEF Told
  <2>a. Sendable(v, row, row)
    BY <1>3, <1>6, <2>1 DEF Sendable
  <2>b. PICK new \in AskRow : SentOn(v, row, new)
    BY <1>1, <1>6, <2>a, DispatchHeld
  <2>2. /\ asks' = [asks EXCEPT ![v] = new] /\ new.study = asks[v].study
        /\ new.approved /\ new.snapshot > 0 /\ (asks[v].org => new.org) /\ (asks[v].outreach => new.outreach)
        /\ new.status \in Workflow!PostApproval \cup {"PENDING_ORGANIZATION_ACCEPTANCE"}
        /\ links' \in [Requests -> Link] /\ \A w \in Requests : w # v => links'[w] = links[w]
        /\ links[v].token > 0 => links'[v].token > 0
        /\ Told(v)'
        /\ (row.outreach <=> asks[v].outreach) /\ links[v].token > 0 => links'[v] = links[v]
        /\ (row.outreach <=> asks[v].outreach) /\ links[v].answer # "none" => links'[v] = links[v]
    BY <2>b DEF SentOn
  <2>3. asks'[v] = new
    BY <1>2, <2>2 DEF StudiesHeld, StudiesTyped
  <2>4. Grows(v)
    BY <2>2, <2>3 DEF Grows
  <2>5. new.status \notin {"VERIFIED", "WITHDRAWN_BY_CANDIDATE"}
    BY <2>2 DEF Workflow!PostApproval
  <2>6. /\ links[v].token > 0 => links'[v].token = links[v].token
        /\ links[v].answer # "none" => links'[v].answer = links[v].answer
    BY <1>3, <2>2
  <2> QED
    BY Zenon, <1>1, <1>4, <1>5, <2>2, <2>4, <2>5, <2>6, AskEnds DEF StudiesHeld, StudiesTyped
<1>7. CASE asks[v].status \in Workflow!PreDispatch /\ asks' = [asks EXCEPT ![v] = row] /\ UNCHANGED links
  <2>1. asks'[v] = row
    BY <1>2, <1>7 DEF StudiesHeld, StudiesTyped
  <2>2. Grows(v)
    BY <1>3, <1>7, <2>1 DEF Grows
  <2>3. v \in Asked'
    BY Zenon, <1>2, <1>3, <2>1 DEF Asked
  <2>4. Told(v)'
    BY <1>1, <1>2, <1>3, <1>7, <2>1, <2>3 DEF Told, Out
  <2>5. row.status \notin {"VERIFIED", "WITHDRAWN_BY_CANDIDATE"}
    BY <1>3, <1>7 DEF Workflow!PreDispatch
  <2> QED
    BY Zenon, <1>1, <1>2, <1>3, <1>4, <1>5, <1>7, <2>2, <2>4, <2>5, AskEnds DEF StudiesHeld, StudiesTyped
<1> QED
  BY <1>1, <1>6, <1>7

LEMMA CommitResponseHeld ==
  ASSUME StudiesHeld, NEW c \in Calls, CommitResponse(c)
  PROVE StudiesHeld' /\ LinksStand
<1> PICK k : k = call[c]
  OBVIOUS
<1>1. k.pc = "respond" /\ Finish(c) /\ muddled' = muddled /\ studies' = studies
  BY DEF CommitResponse, Commit
<1>2. k.pc \in StudyFlight \ {"edit", "enter"}
  BY <1>1 DEF StudyFlight
<1>3. OfRequest(k) /\ k.on \in Asked /\ asks[k.on].study = k.case
  BY <1>2, FlightOn
<1> PICK v \in Asked : v = k.on
  BY <1>3
<1>4. /\ k.arg \in Answers /\ Out(v)
      /\ k.case \notin muddled => links[v].answer = "none" /\ asks[v].status \notin Workflow!Terminal
  BY <1>1, <1>3 DEF OfRequest, Due
<1>5. v \in Requests /\ asks[v] \in AskRow /\ links[v] \in Link /\ asks \in [Requests -> AskRow] /\ links \in [Requests -> Link] /\ Told(v)
  BY AskedTyped DEF StudiesHeld, StudiesTyped
<1> PICK row : row = [asks[v] EXCEPT !.status = AfterAnswer(k.arg)]
  BY Zenon
<1> PICK link : link = [links[v] EXCEPT !.answer = k.arg]
  BY Zenon
<1>6. AfterAnswer(k.arg) \in {"AWAITING_INFORMATION", "PENDING_ADMIN_QUALITY_REVIEW"}
  BY DEF AfterAnswer
<1>7. /\ row \in AskRow /\ row.study = asks[v].study /\ row.status = AfterAnswer(k.arg) /\ row.snapshot = asks[v].snapshot
      /\ (row.org <=> asks[v].org) /\ (row.outreach <=> asks[v].outreach) /\ (row.approved <=> asks[v].approved)
  <2>1. AfterAnswer(k.arg) \in Workflow!Status
    BY <1>6 DEF Workflow!Status
  <2> QED
    BY <1>5, <2>1 DEF AskRow
<1>8. link \in Link /\ link.token = links[v].token /\ link.answer = k.arg
  BY <1>4, <1>5 DEF Link
<1>9. /\ asks' = [asks EXCEPT ![v] = row] /\ links' = [links EXCEPT ![v] = link]
      /\ heard' = heard \cup {w \in {v} : k.arg # "clarification"}
  BY DEF CommitResponse
<1>10. /\ asks'[v] = row /\ links'[v] = link
       /\ links' \in [Requests -> Link] /\ \A w \in Requests : w # v => links'[w] = links[w]
  BY <1>5, <1>8, <1>9
<1>11. /\ heard \subseteq heard' /\ heard' \subseteq heard \cup {v} /\ muddled \subseteq muddled' /\ muddled' \subseteq Studies
  BY <1>1, <1>9 DEF StudiesHeld, StudiesTyped
<1>12. Grows(v)
  BY <1>7, <1>8, <1>10 DEF Grows
<1>13. v \in Asked'
  BY Zenon, <1>5, <1>7, <1>10 DEF Asked
<1>14. row.status = "PENDING_ADMIN_QUALITY_REVIEW" => v \in heard'
  BY <1>7, <1>9 DEF AfterAnswer
<1>15. Told(v)'
  <2>1. asks'[v].approved /\ asks'[v].snapshot > 0 /\ asks'[v].org /\ links'[v].token > 0 /\ links'[v].token # 0
    BY <1>4, <1>7, <1>8, <1>10 DEF Out
  <2>2. asks[v].outreach
    BY <1>4, <1>5 DEF Told, Out
  <2>3. asks'[v].outreach /\ asks'[v].status \in {"AWAITING_INFORMATION", "PENDING_ADMIN_QUALITY_REVIEW"}
    BY <1>6, <1>7, <1>10, <2>2
  <2> QED
    BY <1>10, <1>13, <1>14, <2>1, <2>3 DEF Told, Out
<1>16. asks[v].study \notin muddled' =>
           /\ asks[v].status \notin Workflow!Terminal
           /\ row.status \notin {"VERIFIED", "WITHDRAWN_BY_CANDIDATE"}
           /\ links[v].token > 0 => links'[v].token = links[v].token
           /\ links[v].answer # "none" => links'[v].answer = links[v].answer
  BY <1>1, <1>3, <1>4, <1>6, <1>7, <1>8, <1>10
<1>17. \A d \in Calls : d # c /\ call[d].pc \in StudyFlight /\ call[d].case = asks[v].study => asks[v].study \in muddled'
  BY <1>1, <1>2, <1>3, CommitMarks
<1>18. /\ Finish(c) /\ studies' = studies /\ row \in AskRow /\ row.study = asks[v].study
       /\ asks' = [asks EXCEPT ![v] = row]
       /\ links' \in [Requests -> Link] /\ \A w \in Requests : w # v => links'[w] = links[w]
  BY <1>1, <1>7, <1>9, <1>10
<1> QED
  BY <1>11, <1>12, <1>15, <1>16, <1>17, <1>18, AskEnds, Zenon

\* What a plain commit writes keeps the rest of the row.
LEMMA WrittenRow ==
  ASSUME StudiesHeld, NEW v \in Asked, NEW k, OfRequest(k), k.on = v, k.pc \in Plain,
         NEW row, row = Written(asks[v], k)
  PROVE /\ row \in AskRow /\ row.study = asks[v].study
        /\ (row.approved <=> asks[v].approved) /\ (row.org <=> asks[v].org) /\ (row.outreach <=> asks[v].outreach)
        /\ asks[v].snapshot > 0 => row.snapshot > 0
        /\ \/ row.status = asks[v].status
           \/ row.status \in {"PENDING_ADMIN_REVIEW", "PENDING_ADMIN_RE_REVIEW", "AWAITING_SUBJECT_CORRECTIONS", "CANCELLED"}
           \/ row.status \in {"IN_PROGRESS", "AWAITING_INFORMATION"} /\ Out(v)
           \/ row.status = "PENDING_ADMIN_QUALITY_REVIEW" /\ Out(v) /\ k.pc = "answered"
<1>1. asks[v] \in AskRow /\ studies \in [Studies -> Study] /\ k.case \in Studies /\ Due(k)
  BY AskedTyped DEF StudiesHeld, StudiesTyped, OfRequest
<1>2. \A x \in {"PENDING_ADMIN_REVIEW", "PENDING_ADMIN_RE_REVIEW", "AWAITING_SUBJECT_CORRECTIONS", "CANCELLED",
                "IN_PROGRESS", "AWAITING_INFORMATION", "PENDING_ADMIN_QUALITY_REVIEW"} : x \in Workflow!Status
  BY DEF Workflow!Status
<1> DEFINE Same == /\ row.study = asks[v].study
                   /\ (row.approved <=> asks[v].approved) /\ (row.org <=> asks[v].org) /\ (row.outreach <=> asks[v].outreach)
<1>3. CASE k.pc = "attach"
  <2>1. row = [asks[v] EXCEPT !.evidence = TRUE]
    BY <1>3 DEF Written
  <2>2. row \in AskRow /\ Same /\ row.snapshot = asks[v].snapshot /\ row.status = asks[v].status
    BY Zenon, <1>1, <2>1 DEF AskRow
  <2> QED
    BY <2>2
<1>4. CASE k.pc = "contact"
  <2>1. row = [asks[v] EXCEPT !.contact = k.arg]
    BY <1>4 DEF Written
  <2>2. k.arg \in {"pending", "approved", "changes"}
    BY <1>1, <1>4 DEF Due
  <2>3. row \in AskRow /\ Same /\ row.snapshot = asks[v].snapshot /\ row.status = asks[v].status
    BY <1>1, <2>1, <2>2 DEF AskRow
  <2> QED
    BY <2>3
<1>5. CASE k.pc = "submitted"
  <2> PICK n : n = studies[k.case].version
    OBVIOUS
  <2>1. row = [asks[v] EXCEPT !.status = k.arg, !.snapshot = n]
    BY <1>5 DEF Written
  <2>2. k.arg \in {"PENDING_ADMIN_REVIEW", "PENDING_ADMIN_RE_REVIEW", "AWAITING_SUBJECT_CORRECTIONS"}
    BY <1>1, <1>5 DEF Due
  <2>3. n \in 0..MaxEdits /\ n > 0
    <3>1. studies[k.case].version \in 1..MaxEdits
      BY <1>1 DEF Study
    <3> QED
      BY <3>1, RequestsAssumption
  <2>4. k.arg \in Workflow!Status
    BY <1>2, <2>2
  <2>5. row \in AskRow /\ Same /\ row.snapshot = n /\ row.status = k.arg
    BY Zenon, <1>1, <2>1, <2>3, <2>4 DEF AskRow
  <2> QED
    BY <2>2, <2>3, <2>5
<1>6. CASE k.pc \in {"resubmitted", "corrected"}
  <2>1. PICK b \in BOOLEAN : row = [asks[v] EXCEPT !.status = k.arg, !.open = b]
    BY Zenon, <1>6 DEF Written
  <2>2. k.arg \in {"PENDING_ADMIN_REVIEW", "PENDING_ADMIN_RE_REVIEW", "AWAITING_SUBJECT_CORRECTIONS"}
    BY <1>1, <1>6 DEF Due
  <2>3. k.arg \in Workflow!Status
    BY <1>2, <2>2
  <2>4. row \in AskRow /\ Same /\ row.snapshot = asks[v].snapshot /\ row.status = k.arg
    BY Zenon, <1>1, <2>1, <2>3 DEF AskRow
  <2> QED
    BY <2>2, <2>4
<1>7. CASE k.pc = "informed"
  <2>1. row = [asks[v] EXCEPT !.status = k.arg, !.replied = TRUE]
    BY <1>7 DEF Written
  <2>2. k.arg \in {"IN_PROGRESS", "AWAITING_INFORMATION", "CANCELLED"} /\ (k.arg # "CANCELLED" => Out(v))
    BY <1>1, <1>7 DEF Due
  <2>3. k.arg \in Workflow!Status
    BY <1>2, <2>2
  <2>4. row \in AskRow /\ Same /\ row.snapshot = asks[v].snapshot /\ row.status = k.arg
    BY Zenon, <1>1, <2>1, <2>3 DEF AskRow
  <2> QED
    BY <2>2, <2>4
<1>8. CASE k.pc \in {"moved", "answered"}
  <2>1. row = [asks[v] EXCEPT !.status = k.arg]
    BY <1>8 DEF Written
  <2>2. k.pc = "moved" => k.arg \in {"IN_PROGRESS", "AWAITING_INFORMATION", "CANCELLED"} /\ (k.arg # "CANCELLED" => Out(v))
    BY <1>1 DEF Due
  <2>3. k.pc = "answered" => k.arg = "PENDING_ADMIN_QUALITY_REVIEW" /\ Out(v)
    BY <1>1 DEF Due
  <2>4. k.arg \in Workflow!Status
    BY <1>2, <1>8, <2>2, <2>3
  <2>5. row \in AskRow /\ Same /\ row.snapshot = asks[v].snapshot /\ row.status = k.arg
    BY <1>1, <2>1, <2>4 DEF AskRow
  <2> QED
    BY <1>8, <2>2, <2>3, <2>5
<1> QED
  BY <1>3, <1>4, <1>5, <1>6, <1>7, <1>8 DEF Plain

LEMMA CommitRequestHeld ==
  ASSUME StudiesHeld, NEW c \in Calls, CommitRequest(c)
  PROVE StudiesHeld' /\ LinksStand
<1> PICK k : k = call[c]
  OBVIOUS
<1>1. k.pc \in Plain /\ Finish(c) /\ muddled' = muddled /\ studies' = studies /\ links' = links
  BY DEF CommitRequest, Commit
<1>2. k.pc \in StudyFlight \ {"edit", "enter"}
  BY <1>1 DEF StudyFlight, Plain
<1>3. OfRequest(k) /\ k.on \in Asked /\ asks[k.on].study = k.case
  BY <1>2, FlightOn
<1> PICK v \in Asked : v = k.on
  BY <1>3
<1>4. k.case \notin muddled => asks[v].status \notin Workflow!Terminal
  BY <1>3 DEF OfRequest
<1>5. v \in Requests /\ asks[v] \in AskRow /\ links[v] \in Link /\ asks \in [Requests -> AskRow] /\ links \in [Requests -> Link] /\ Told(v)
  BY AskedTyped DEF StudiesHeld, StudiesTyped
<1> PICK row : row = Written(asks[v], k)
  OBVIOUS
<1>6. /\ row \in AskRow /\ row.study = asks[v].study
      /\ (row.approved <=> asks[v].approved) /\ (row.org <=> asks[v].org) /\ (row.outreach <=> asks[v].outreach)
      /\ asks[v].snapshot > 0 => row.snapshot > 0
      /\ \/ row.status = asks[v].status
         \/ row.status \in {"PENDING_ADMIN_REVIEW", "PENDING_ADMIN_RE_REVIEW", "AWAITING_SUBJECT_CORRECTIONS", "CANCELLED"}
         \/ row.status \in {"IN_PROGRESS", "AWAITING_INFORMATION"} /\ Out(v)
         \/ row.status = "PENDING_ADMIN_QUALITY_REVIEW" /\ Out(v) /\ k.pc = "answered"
  BY <1>1, <1>3, WrittenRow
<1>7. /\ asks' = [asks EXCEPT ![v] = row]
      /\ heard' = heard \cup {w \in {v} : k.pc = "answered"}
  BY DEF CommitRequest
<1>8. asks'[v] = row /\ links' \in [Requests -> Link] /\ \A w \in Requests : w # v => links'[w] = links[w]
  BY <1>1, <1>5, <1>7
<1>9. /\ heard \subseteq heard' /\ heard' \subseteq heard \cup {v} /\ muddled \subseteq muddled' /\ muddled' \subseteq Studies
      /\ k.pc = "answered" => v \in heard'
  BY <1>1, <1>7 DEF StudiesHeld, StudiesTyped
<1>10. Grows(v)
  BY <1>1, <1>6, <1>8 DEF Grows
<1>11. v \in Asked'
  BY <1>5, <1>6, <1>8 DEF Asked
<1>12. Told(v)'
  <2>1. (asks'[v].approved <=> asks[v].approved) /\ (asks'[v].org <=> asks[v].org) /\ (asks'[v].outreach <=> asks[v].outreach)
    BY <1>6, <1>8
  <2>2. asks[v].snapshot > 0 => asks'[v].snapshot > 0
    BY <1>6, <1>8
  <2>3. Out(v) => Out(v)'
    BY <1>1, <2>1, <2>2 DEF Out
  <2>4. /\ asks[v].outreach => asks[v].org
        /\ links[v].token > 0 <=> v \in Asked /\ asks[v].outreach
        /\ links[v].token = 0 => links[v].answer = "none"
    BY <1>5 DEF Told
  <2>5. /\ asks'[v].outreach => asks'[v].org
        /\ links'[v].token > 0 <=> v \in Asked' /\ asks'[v].outreach
        /\ links'[v].token = 0 => links'[v].answer = "none"
    BY <1>1, <1>11, <2>1, <2>4
  <2>6. CASE row.status = asks[v].status
    <3>1. /\ asks[v].status \in Workflow!PostApproval => asks[v].approved /\ asks[v].snapshot > 0
          /\ asks[v].status \in WithInstitution => Out(v)
          /\ asks[v].status \in {"PENDING_ADMIN_QUALITY_REVIEW", "VERIFIED"} => v \in heard
      BY <1>5 DEF Told
    <3>2. asks'[v].status = asks[v].status
      BY <1>8, <2>6
    <3> QED
      BY <1>9, <2>1, <2>2, <2>3, <2>5, <3>1, <3>2 DEF Told
  <2>7. CASE row.status \in {"PENDING_ADMIN_REVIEW", "PENDING_ADMIN_RE_REVIEW", "AWAITING_SUBJECT_CORRECTIONS", "CANCELLED"}
    BY <1>8, <2>5, <2>7 DEF Told, WithInstitution, Workflow!PostApproval, Workflow!OrganizationVisible
  <2>8. CASE row.status \in {"IN_PROGRESS", "AWAITING_INFORMATION"} /\ Out(v)
    BY <1>8, <2>3, <2>5, <2>8 DEF Told, Workflow!PostApproval
  <2>9. CASE row.status = "PENDING_ADMIN_QUALITY_REVIEW" /\ Out(v) /\ k.pc = "answered"
    BY <1>8, <1>9, <2>3, <2>5, <2>9 DEF Told, Workflow!PostApproval
  <2> QED
    BY <1>6, <2>6, <2>7, <2>8, <2>9
<1>13. asks[v].study \notin muddled' =>
           /\ asks[v].status \notin Workflow!Terminal
           /\ row.status \notin {"VERIFIED", "WITHDRAWN_BY_CANDIDATE"}
           /\ links[v].token > 0 => links'[v].token = links[v].token
           /\ links[v].answer # "none" => links'[v].answer = links[v].answer
  BY <1>1, <1>3, <1>4, <1>6 DEF Workflow!Terminal
<1>14. \A d \in Calls : d # c /\ call[d].pc \in StudyFlight /\ call[d].case = asks[v].study => asks[v].study \in muddled'
  BY <1>1, <1>2, <1>3, CommitMarks
<1> QED
  BY <1>1, <1>6, <1>7, <1>8, <1>9, <1>10, <1>12, <1>13, <1>14, AskEnds, Zenon

\* A call that ends and changed the row of a record, to show neither an outcome nor a request anew.
ShowsNoMore(s, row) ==
  /\ row.there => studies[s].there
  /\ s \notin muddled' =>
       \/ row.status = studies[s].status
       \/ row.status \notin {"verified", "pending"} /\ studies[s].status # "verified"
LEMMA RecordEnds ==
  ASSUME StudiesHeld, NEW c \in Calls, Finish(c), NEW s \in Studies, NEW row \in Study,
         studies' = [studies EXCEPT ![s] = row], UNCHANGED <<asks, links, heard>>,
         muddled \subseteq muddled', muddled' \subseteq Studies,
         \A d \in Calls : d # c /\ call[d].pc \in StudyFlight /\ call[d].case = s => s \in muddled',
         ShowsNoMore(s, row)
  PROVE StudiesHeld' /\ LinksStand
<1>1. /\ studies \in [Studies -> Study] /\ asks \in [Requests -> AskRow] /\ links \in [Requests -> Link] /\ heard \subseteq Requests
      /\ Numbered /\ \A v \in Requests : Told(v)
  BY DEF StudiesHeld, StudiesTyped
<1>2. studies' \in [Studies -> Study] /\ studies'[s] = row /\ \A t \in Studies : t # s => studies'[t] = studies[t]
  BY <1>1
<1>3. StudiesTyped' /\ heard \subseteq heard'
  BY <1>1, <1>2 DEF StudiesTyped
<1>4. \A v \in Asked : Grows(v)
  BY DEF Grows
<1>5. /\ \A v \in Asked : asks[v].study # s => asks'[v] = asks[v] /\ links'[v] = links[v]
      /\ \A v \in Requests : v \notin Asked => asks'[v].study \in {None, s}
  BY DEF Asked
<1>6. Numbered' /\ \A v \in Requests : Told(v)'
  BY <1>1 DEF Numbered, Told, Out, Asked, RequestsOf, LastAsk
<1>7. s \notin muddled' => Follows(s)'
  <2> SUFFICES ASSUME s \notin muddled' PROVE Follows(s)'
    OBVIOUS
  <2>1. Follows(s)
    BY DEF StudiesHeld
  <2>2. RequestsOf(s)' = RequestsOf(s) /\ LastAsk(s)' = LastAsk(s) /\ Unsettled(s)' = Unsettled(s)
    BY DEF RequestsOf, LastAsk, Unsettled, Asked
  <2>3. row.status = "verified" <=> studies[s].status = "verified"
    BY DEF ShowsNoMore
  <2>4. row.status = "pending" => studies[s].status = "pending"
    BY DEF ShowsNoMore
  <2>5. s \in Records' => s \in Records
    BY <1>2 DEF Records, ShowsNoMore
  <2> QED
    BY <1>2, <2>1, <2>2, <2>3, <2>4, <2>5 DEF Follows
<1>8. s \notin muddled' => \A w \in RequestsOf(s) :
           /\ links[w].token > 0 => links'[w].token = links[w].token
           /\ links[w].answer # "none" => links'[w].answer = links[w].answer
  OBVIOUS
<1> QED
  <2>1. EndsOn(c, s)
    BY <1>2, <1>3, <1>4, <1>5, <1>6, <1>7, <1>8 DEF EndsOn
  <2> QED
    BY <2>1, StudyEnds

LEMMA OfRecordOn ==
  ASSUME StudiesHeld, NEW c \in Calls, NEW k, k = call[c], k.pc \in {"edit", "enter"}
  PROVE /\ OfRecord(k) /\ k.case \in Studies
        /\ \A d \in Calls : d # c /\ call[d].pc \in StudyFlight /\ call[d].case = k.case => k.case \in muddled
<1>1. k.pc \in StudyFlight
  BY DEF StudyFlight
<1>2. StudyCall(k)
  BY <1>1 DEF StudiesHeld, StudyCalls
<1> QED
  BY <1>1, <1>2, CommitMarks DEF StudyCall

LEMMA CommitStudyHeld ==
  ASSUME StudiesHeld, NEW c \in Calls, CommitEdit(c) \/ CommitSubmit(c)
  PROVE StudiesHeld' /\ LinksStand
<1> PICK k : k = call[c]
  OBVIOUS
<1>1. k.pc \in {"edit", "enter"} /\ Finish(c) /\ muddled' = muddled /\ UNCHANGED <<asks, links, heard>>
  BY DEF CommitEdit, CommitSubmit, Commit
<1>2. /\ OfRecord(k) /\ k.case \in Studies
      /\ \A d \in Calls : d # c /\ call[d].pc \in StudyFlight /\ call[d].case = k.case => k.case \in muddled
  BY <1>1, OfRecordOn
<1> PICK s \in Studies : s = k.case
  BY <1>2
<1>3. /\ muddled' = muddled /\ muddled' \subseteq Studies /\ studies \in [Studies -> Study] /\ studies[s] \in Study
  BY <1>1 DEF StudiesHeld, StudiesTyped
<1>4. \E row \in Study :
        /\ studies' = [studies EXCEPT ![s] = row]
        /\ row.there => studies[s].there
        /\ s \notin muddled' =>
             \/ row.status = studies[s].status
             \/ row.status \notin {"verified", "pending"} /\ studies[s].status # "verified"
  <2>1. CASE CommitEdit(c)
    <3> PICK n : n = IF studies[s].version < MaxEdits THEN studies[s].version + 1 ELSE studies[s].version
      OBVIOUS
    <3> PICK x : x = IF k.arg /\ k.view.status # "draft" THEN "draft" ELSE studies[s].status
      OBVIOUS
    <3>1. k.pc = "edit"
      BY <2>1 DEF CommitEdit
    <3>2. k.arg \in BOOLEAN /\ (s \notin muddled /\ k.arg = TRUE => studies[s].status # "verified")
      BY <1>2, <3>1 DEF OfRecord
    <3>3. n \in 1..MaxEdits
      <4>1. studies[s].version \in 1..MaxEdits
        BY <1>3 DEF Study
      <4> QED
        BY <4>1, RequestsAssumption
    <3>4. x = studies[s].status \/ (x = "draft" /\ k.arg = TRUE)
      BY <3>2
    <3> PICK row : row = [studies[s] EXCEPT !.version = n, !.status = x]
      OBVIOUS
    <3>5. x \in StudyStatus
      BY <1>3, <3>4 DEF Study, StudyStatus
    <3>6. row \in Study /\ row.status = x /\ (row.there <=> studies[s].there)
      BY Zenon, <1>3, <3>3, <3>5 DEF Study
    <3>7. studies' = [studies EXCEPT ![s].version = n, ![s].status = x]
      BY <2>1 DEF CommitEdit
    <3>8. studies' = [studies EXCEPT ![s] = row]
      BY Zenon, <1>3, <3>7 DEF Study
    <3>9. s \notin muddled' => row.status = studies[s].status
                               \/ (row.status \notin {"verified", "pending"} /\ studies[s].status # "verified")
      BY <1>3, <3>2, <3>4, <3>6
    <3> QED
      BY Zenon, <3>6, <3>8, <3>9
  <2>2. CASE CommitSubmit(c)
    <3> PICK row : row = [studies[s] EXCEPT !.status = "submitted"]
      BY Zenon
    <3>1. row \in Study /\ row.status = "submitted" /\ (row.there <=> studies[s].there)
      BY <1>3 DEF Study, StudyStatus
    <3>2. studies' = [studies EXCEPT ![s] = row] /\ k.pc = "enter"
      BY <2>2 DEF CommitSubmit
    <3>3. s \notin muddled' => row.status \notin {"verified", "pending"} /\ studies[s].status # "verified"
      BY <1>2, <1>3, <3>1, <3>2 DEF OfRecord
    <3> QED
      BY Zenon, <3>1, <3>2, <3>3
  <2> QED
    BY <2>1, <2>2
<1>5. PICK row \in Study : studies' = [studies EXCEPT ![s] = row] /\ ShowsNoMore(s, row)
  BY Zenon, <1>4 DEF ShowsNoMore
<1>6. \A d \in Calls : d # c /\ call[d].pc \in StudyFlight /\ call[d].case = s => s \in muddled'
  BY <1>2, <1>3
<1>7. muddled \subseteq muddled'
  BY <1>3
<1> QED
  BY <1>1, <1>3, <1>5, <1>6, <1>7, RecordEnds, Zenon

LEMMA RecordAtOnceHeld ==
  ASSUME StudiesHeld, NEW c \in Calls, DeleteStudy(c) \/ Transcript(c)
  PROVE StudiesHeld' /\ LinksStand
<1>0. studies \in [Studies -> Study]
  BY DEF StudiesHeld, StudiesTyped
<1>1. PICK s \in Studies : \E row \in Study :
        /\ studies' = [studies EXCEPT ![s] = row] /\ AtOnce(c, s) /\ UNCHANGED <<asks, links, heard>>
        /\ row.there => studies[s].there
        /\ row.status = studies[s].status
  <2>1. CASE DeleteStudy(c)
    <3>1. PICK s \in Records : /\ studies' = [studies EXCEPT ![s].there = FALSE]
                               /\ AtOnce(c, s) /\ UNCHANGED <<asks, links, heard>>
      BY Zenon, <2>1 DEF DeleteStudy
    <3> PICK row : row = [studies[s] EXCEPT !.there = FALSE]
      BY Zenon
    <3>2. s \in Studies /\ studies[s] \in Study
      BY <1>0 DEF Records
    <3>3. row \in Study /\ ~row.there /\ row.status = studies[s].status
      BY Zenon, <3>2 DEF Study
    <3> QED
      BY Zenon, <3>1, <3>2, <3>3
  <2>2. CASE Transcript(c)
    <3>1. PICK s \in Records, t \in {"none", "intended", "complete"} :
            /\ studies' = [studies EXCEPT ![s].transcript = t]
            /\ AtOnce(c, s) /\ UNCHANGED <<asks, links, heard>>
      BY Zenon, <2>2 DEF Transcript
    <3> PICK row : row = [studies[s] EXCEPT !.transcript = t]
      BY Zenon
    <3>2. s \in Studies /\ studies[s] \in Study
      BY <1>0 DEF Records
    <3>3. row \in Study /\ (row.there <=> studies[s].there) /\ row.status = studies[s].status
      BY <3>2 DEF Study
    <3> QED
      BY Zenon, <3>1, <3>2, <3>3
  <2> QED
    BY <2>1, <2>2
<1>2. PICK row \in Study :
        /\ studies' = [studies EXCEPT ![s] = row] /\ AtOnce(c, s) /\ UNCHANGED <<asks, links, heard>>
        /\ ShowsNoMore(s, row)
  BY Zenon, <1>1 DEF ShowsNoMore
<1>3. /\ Finish(c) /\ muddled \subseteq muddled' /\ muddled' \subseteq Studies
      /\ \A d \in Calls : d # c /\ call[d].pc \in StudyFlight /\ call[d].case = s => s \in muddled'
  BY <1>2, AtOnceMarks
<1> QED
  BY <1>2, <1>3, RecordEnds, Zenon

\* A request and its record change together.
SettledBoth(v, s, row, rec) ==
  /\ row.study = s /\ (row.approved <=> asks[v].approved) /\ (row.org <=> asks[v].org)
  /\ (row.outreach <=> asks[v].outreach) /\ row.snapshot = asks[v].snapshot
  /\ row.status \in Workflow!Terminal /\ (rec.there <=> studies[s].there)
  /\ s \notin muddled' => asks[v].status \notin Workflow!Terminal
                          /\ (rec.status = "verified" <=> row.status = "VERIFIED")
                          /\ (rec.there => rec.status # "pending")
EndsBoth(c, v, s, row, rec) ==
  /\ Finish(c) /\ s = asks[v].study /\ row \in AskRow /\ asks' = [asks EXCEPT ![v] = row]
  /\ rec \in Study /\ studies' = [studies EXCEPT ![s] = rec] /\ SettledBoth(v, s, row, rec)
  /\ links' = links /\ heard' = heard
  /\ muddled \subseteq muddled' /\ muddled' \subseteq Studies
  /\ \A d \in Calls : d # c /\ call[d].pc \in StudyFlight /\ call[d].case = s => s \in muddled'
  /\ Told(v)'
LEMMA BothEnd ==
  ASSUME StudiesHeld, NEW c \in Calls, NEW v \in Asked, NEW s \in Studies, NEW row, NEW rec, EndsBoth(c, v, s, row, rec)
  PROVE StudiesHeld' /\ LinksStand
<1>a. /\ Finish(c) /\ s = asks[v].study /\ row \in AskRow /\ asks' = [asks EXCEPT ![v] = row]
      /\ rec \in Study /\ studies' = [studies EXCEPT ![s] = rec] /\ SettledBoth(v, s, row, rec)
      /\ links' = links /\ heard' = heard
      /\ muddled \subseteq muddled' /\ muddled' \subseteq Studies
      /\ \A d \in Calls : d # c /\ call[d].pc \in StudyFlight /\ call[d].case = s => s \in muddled'
      /\ Told(v)'
  BY DEF EndsBoth
<1> USE <1>a
<1>0. /\ row.study = s /\ (row.approved <=> asks[v].approved) /\ (row.org <=> asks[v].org)
      /\ (row.outreach <=> asks[v].outreach) /\ row.snapshot = asks[v].snapshot
      /\ row.status \in Workflow!Terminal /\ (rec.there <=> studies[s].there)
      /\ s \notin muddled' => asks[v].status \notin Workflow!Terminal
                              /\ (rec.status = "verified" <=> row.status = "VERIFIED")
                              /\ (rec.there => rec.status # "pending")
  BY DEF SettledBoth
<1>1. /\ Asked' = Asked /\ asks' \in [Requests -> AskRow] /\ asks'[v] = row
      /\ \A w \in Requests : w # v => asks'[w] = asks[w]
      /\ \A t \in Studies : RequestsOf(t)' = RequestsOf(t) /\ LastAsk(t)' = LastAsk(t)
      /\ Numbered'
  BY Zenon, <1>0, RequestsKept
<1>2. studies \in [Studies -> Study]
  BY DEF StudiesHeld, StudiesTyped
<1>3. studies' \in [Studies -> Study] /\ studies'[s] = rec /\ \A t \in Studies : t # s => studies'[t] = studies[t]
  BY <1>2
<1>4. StudiesTyped' /\ heard \subseteq heard'
  BY <1>1, <1>3 DEF StudiesHeld, StudiesTyped
<1>5. \A w \in Asked : Grows(w)
  BY <1>0, <1>1 DEF Grows, Asked
<1>6. \A w \in Requests : Told(w)'
  <2> SUFFICES ASSUME NEW w \in Requests, w # v PROVE Told(w)'
    OBVIOUS
  <2>1. Told(w) /\ asks'[w] = asks[w] /\ links'[w] = links[w]
    BY <1>1 DEF StudiesHeld
  <2> QED
    BY <1>1, <2>1 DEF Told, Out
<1>7. s \notin muddled' => Follows(s)'
  <2> SUFFICES ASSUME s \notin muddled' PROVE Follows(s)'
    OBVIOUS
  <2>1. Follows(s) /\ v \in LastAsk(s)
    BY <1>0, UnsettledLast DEF StudiesHeld
  <2>2. \A w \in LastAsk(s)' : w = v
    BY <1>1, <2>1, LastAskOne
  <2>3. \A w \in Unsettled(s)' : w \in LastAsk(s)
    <3> SUFFICES ASSUME NEW w \in Unsettled(s)', w # v PROVE w \in LastAsk(s)
      BY <2>1
    <3>1. w \in Unsettled(s)
      BY <1>0, <1>1 DEF Unsettled, RequestsOf, Asked
    <3> QED
      BY <3>1, <2>1 DEF Follows
  <2>4. v \in LastAsk(s)'
    BY <1>1, <2>1
  <2>5. ~(s \in Records' /\ studies'[s].status = "pending")
    BY <1>0, <1>3 DEF Records
  <2> QED
    BY <1>0, <1>1, <1>3, <2>1, <2>2, <2>3, <2>4, <2>5 DEF Follows
<1>8. s \notin muddled' => \A w \in RequestsOf(s) :
           /\ links[w].token > 0 => links'[w].token = links[w].token
           /\ links[w].answer # "none" => links'[w].answer = links[w].answer
  OBVIOUS
<1>9. \A w \in Asked : asks[w].study # s => asks'[w] = asks[w] /\ links'[w] = links[w]
  BY <1>1 DEF Asked
<1>10. \A w \in Requests : w \notin Asked => asks'[w].study \in {None, s}
  BY <1>0, <1>1 DEF Asked
<1>11. /\ \A t \in Studies : t # s => studies'[t] = studies[t]
       /\ Numbered'
       /\ \A d \in Calls : d # c /\ call[d].pc \in StudyFlight /\ call[d].case = s => s \in muddled'
  BY <1>1, <1>3
<1> QED
  <2>1. EndsOn(c, s)
    BY <1>4, <1>5, <1>6, <1>7, <1>8, <1>9, <1>10, <1>11 DEF EndsOn
  <2> QED
    BY <2>1, StudyEnds

LEMMA CommitClosingHeld ==
  ASSUME StudiesHeld, NEW c \in Calls, CommitClosing(c)
  PROVE StudiesHeld' /\ LinksStand
<1> PICK k : k = call[c]
  OBVIOUS
<1>1. k.pc = "closed" /\ Finish(c) /\ muddled' = muddled /\ UNCHANGED <<links, heard>>
  BY DEF CommitClosing, Commit
<1>2. k.pc \in StudyFlight \ {"edit", "enter"}
  BY <1>1 DEF StudyFlight
<1>3. OfRequest(k) /\ k.on \in Asked /\ asks[k.on].study = k.case
  BY <1>2, FlightOn
<1> PICK v \in Asked : v = k.on
  BY <1>3
<1>4. /\ k.arg \in {"VERIFIED", "REJECTED", "UNABLE_TO_VERIFY"} /\ (k.arg = "VERIFIED" => Out(v) /\ v \in heard)
      /\ k.case \notin muddled => asks[v].status \notin Workflow!Terminal
  BY <1>1, <1>3 DEF OfRequest, Due
<1>5. v \in Requests /\ asks[v] \in AskRow /\ asks \in [Requests -> AskRow] /\ asks[v].study \in Studies /\ Told(v)
      /\ studies \in [Studies -> Study]
  BY AskedTyped DEF StudiesHeld, StudiesTyped
<1> PICK s \in Studies : s = asks[v].study
  BY <1>5
<1> PICK row : row = [asks[v] EXCEPT !.status = k.arg]
  BY Zenon
<1> PICK rec : rec = [studies[s] EXCEPT !.status = Outcomes[k.arg]]
  BY Zenon
<1>6. Outcomes[k.arg] \in {"verified", "rejected", "unable_to_verify"} /\ (Outcomes[k.arg] = "verified" <=> k.arg = "VERIFIED")
  BY <1>4 DEF Outcomes
<1>7. rec \in Study /\ rec.status = Outcomes[k.arg] /\ (rec.there <=> studies[s].there)
  BY <1>5, <1>6 DEF Study, StudyStatus
<1>8. k.arg \in Workflow!Status /\ k.arg \in Workflow!Terminal
  BY <1>4 DEF Workflow!Status, Workflow!Terminal
<1>9. /\ row \in AskRow /\ row.study = s /\ (row.approved <=> asks[v].approved) /\ (row.org <=> asks[v].org)
      /\ (row.outreach <=> asks[v].outreach) /\ row.snapshot = asks[v].snapshot /\ row.status = k.arg
  BY <1>5, <1>8 DEF AskRow
<1>10. asks' = [asks EXCEPT ![v] = row] /\ studies' = [studies EXCEPT ![s] = rec]
  BY <1>3 DEF CommitClosing
<1>11. asks'[v] = row
  BY <1>5, <1>10
<1>12. Told(v)'
  <2>1. v \in Asked'
    BY Zenon, <1>5, <1>9, <1>11 DEF Asked
  <2>2. k.arg \notin Workflow!PostApproval /\ (k.arg \in WithInstitution => k.arg = "VERIFIED") /\ k.arg # "PENDING_ADMIN_QUALITY_REVIEW"
    BY <1>4 DEF WithInstitution, Workflow!PostApproval, Workflow!OrganizationVisible
  <2> QED
    BY <1>1, <1>4, <1>5, <1>9, <1>11, <2>1, <2>2 DEF Told, Out
<1>13. muddled \subseteq muddled' /\ muddled' \subseteq Studies
  BY <1>1 DEF StudiesHeld, StudiesTyped
<1>14. \A d \in Calls : d # c /\ call[d].pc \in StudyFlight /\ call[d].case = s => s \in muddled'
  BY <1>1, <1>2, <1>3, CommitMarks
<1>15. row.status \in Workflow!Terminal
  BY <1>8, <1>9
<1>16. s \notin muddled' => asks[v].status \notin Workflow!Terminal
                            /\ (rec.status = "verified" <=> row.status = "VERIFIED")
                            /\ (rec.there => rec.status # "pending")
  BY <1>1, <1>3, <1>4, <1>6, <1>7, <1>9
<1>17. Finish(c) /\ UNCHANGED <<links, heard>>
  BY <1>1
<1> QED
  <2>1. SettledBoth(v, s, row, rec)
    BY <1>7, <1>9, <1>15, <1>16 DEF SettledBoth
  <2> QED
    <3>1. EndsBoth(c, v, s, row, rec)
      BY <1>7, <1>9, <1>10, <1>12, <1>13, <1>14, <1>17, <2>1 DEF EndsBoth
    <3> QED
      BY <3>1, BothEnd

LEMMA WithdrawHeld ==
  ASSUME StudiesHeld, NEW c \in Calls, Withdraw(c)
  PROVE StudiesHeld' /\ LinksStand
<1>1. PICK v \in Asked :
        /\ asks[v].status \in Workflow!CandidateWithdrawable
        /\ asks' = [asks EXCEPT ![v].status = "WITHDRAWN_BY_CANDIDATE"]
        /\ studies' = [studies EXCEPT ![asks[v].study].status = Released(asks[v].study)]
        /\ AtOnce(c, asks[v].study) /\ UNCHANGED <<links, heard>>
  BY Zenon DEF Withdraw
<1>5. v \in Requests /\ asks[v] \in AskRow /\ asks \in [Requests -> AskRow] /\ asks[v].study \in Studies /\ Told(v)
      /\ studies \in [Studies -> Study]
  BY AskedTyped DEF StudiesHeld, StudiesTyped
<1> PICK s \in Studies : s = asks[v].study
  BY <1>5
<1> PICK x : x = Released(s)
  OBVIOUS
<1> PICK row : row = [asks[v] EXCEPT !.status = "WITHDRAWN_BY_CANDIDATE"]
  BY Zenon
<1> PICK rec : rec = [studies[s] EXCEPT !.status = x]
  BY Zenon
<1>6. x \in StudyStatus /\ x \in {"draft", studies[s].status} /\ (studies[s].there => x # "pending")
  BY <1>5 DEF Released, Study, StudyStatus
<1>7. rec \in Study /\ rec.status = x /\ (rec.there <=> studies[s].there)
  BY <1>5, <1>6 DEF Study
<1>8. "WITHDRAWN_BY_CANDIDATE" \in Workflow!Status /\ "WITHDRAWN_BY_CANDIDATE" \in Workflow!Terminal
  BY DEF Workflow!Status, Workflow!Terminal
<1>9. /\ row \in AskRow /\ row.study = s /\ (row.approved <=> asks[v].approved) /\ (row.org <=> asks[v].org)
      /\ (row.outreach <=> asks[v].outreach) /\ row.snapshot = asks[v].snapshot /\ row.status = "WITHDRAWN_BY_CANDIDATE"
  BY <1>5, <1>8 DEF AskRow
<1>10. asks' = [asks EXCEPT ![v] = row] /\ studies' = [studies EXCEPT ![s] = rec]
  BY <1>1
<1>11. asks'[v] = row
  BY <1>5, <1>10
<1>12. Told(v)'
  <2>1. v \in Asked'
    BY Zenon, <1>5, <1>9, <1>11 DEF Asked
  <2>2. asks'[v].status \notin Workflow!PostApproval \cup WithInstitution \cup {"PENDING_ADMIN_QUALITY_REVIEW", "VERIFIED"}
    BY <1>9, <1>11 DEF WithInstitution, Workflow!PostApproval, Workflow!OrganizationVisible
  <2> QED
    BY <1>1, <1>5, <1>9, <1>11, <2>1, <2>2 DEF Told
<1>13. /\ Finish(c) /\ muddled \subseteq muddled' /\ muddled' \subseteq Studies
       /\ \A d \in Calls : d # c /\ call[d].pc \in StudyFlight /\ call[d].case = s => s \in muddled'
  BY <1>1, AtOnceMarks
<1>15. row.status \in Workflow!Terminal
  BY <1>8, <1>9
<1>16. s \notin muddled' => asks[v].status \notin Workflow!Terminal
                            /\ (rec.status = "verified" <=> row.status = "VERIFIED")
                            /\ (rec.there => rec.status # "pending")
  <2> SUFFICES ASSUME s \notin muddled' PROVE asks[v].status \notin Workflow!Terminal
                            /\ (rec.status = "verified" <=> row.status = "VERIFIED")
                            /\ (rec.there => rec.status # "pending")
    OBVIOUS
  <2>1. asks[v].status \notin Workflow!Terminal
    BY <1>1 DEF Workflow!CandidateWithdrawable, Workflow!Terminal
  <2>2. studies[s].status # "verified"
    BY <1>13, <2>1, UnsettledLast
  <2> QED
    BY <1>6, <1>7, <1>9, <2>1, <2>2
<1>17. Finish(c) /\ UNCHANGED <<links, heard>>
  BY <1>1, <1>13
<1> QED
  <2>1. SettledBoth(v, s, row, rec)
    BY <1>7, <1>9, <1>15, <1>16 DEF SettledBoth
  <2> QED
    <3>1. EndsBoth(c, v, s, row, rec)
      BY <1>7, <1>9, <1>10, <1>12, <1>13, <1>17, <2>1 DEF EndsBoth
    <3> QED
      BY <3>1, BothEnd

LEMMA ApplyHeld ==
  ASSUME StudiesHeld, NEW c \in Calls, Apply(c)
  PROVE StudiesHeld' /\ LinksStand
<1>1. PICK s \in Records, v \in Requests, attached \in BOOLEAN :
        /\ Unsettled(s) = {} /\ v \notin Asked /\ \A w \in Requests : w < v => w \in Asked
        /\ asks' = [asks EXCEPT ![v] = [NoAsk EXCEPT !.study = s, !.evidence = attached, !.status = "PENDING_SUBJECT_SUBMISSION"]]
        /\ studies' = [studies EXCEPT ![s].status = "pending"]
        /\ AtOnce(c, s) /\ UNCHANGED <<links, heard>>
  BY Zenon DEF Apply
<1>2. s \in Studies /\ studies[s] \in Study /\ studies \in [Studies -> Study] /\ asks \in [Requests -> AskRow]
      /\ links \in [Requests -> Link] /\ heard \subseteq Requests /\ Numbered /\ Told(v)
  BY DEF Records, StudiesHeld, StudiesTyped
<1> PICK row : row = [NoAsk EXCEPT !.study = s, !.evidence = attached, !.status = "PENDING_SUBJECT_SUBMISSION"]
  OBVIOUS
<1>3. row = [study |-> s, status |-> "PENDING_SUBJECT_SUBMISSION", snapshot |-> 0, evidence |-> attached,
             contact |-> "pending", org |-> FALSE, approved |-> FALSE, outreach |-> FALSE, replied |-> FALSE, open |-> FALSE]
  BY Zenon DEF NoAsk
<1>b. "PENDING_SUBJECT_SUBMISSION" \in Workflow!Status /\ 0 \in 0..MaxEdits
  BY RequestsAssumption DEF Workflow!Status
<1> PICK r : r = [study |-> s, status |-> "PENDING_SUBJECT_SUBMISSION", snapshot |-> 0, evidence |-> attached,
                  contact |-> "pending", org |-> FALSE, approved |-> FALSE, outreach |-> FALSE, replied |-> FALSE, open |-> FALSE]
  BY Zenon
<1>d. r \in AskRow
  BY <1>2, <1>b DEF AskRow
<1>e. r.study = s /\ r.status = "PENDING_SUBJECT_SUBMISSION" /\ ~r.outreach
  OBVIOUS
<1>f. row = r
  BY Zenon, <1>3
<1>4. row \in AskRow
  BY <1>d, <1>f, Zenon
<1>c. row.study = s /\ row.status = "PENDING_SUBJECT_SUBMISSION" /\ ~row.outreach
  BY <1>e, <1>f, Zenon
<1> PICK rec : rec = [studies[s] EXCEPT !.status = "pending"]
  BY Zenon
<1>5. rec \in Study /\ rec.status = "pending" /\ studies' = [studies EXCEPT ![s] = rec]
  BY <1>1, <1>2 DEF Study, StudyStatus
<1>6. /\ asks' \in [Requests -> AskRow] /\ asks'[v] = row /\ \A w \in Requests : w # v => asks'[w] = asks[w]
      /\ studies' \in [Studies -> Study] /\ studies'[s] = rec /\ \A t \in Studies : t # s => studies'[t] = studies[t]
  BY <1>1, <1>2, <1>4, <1>5
<1>7. s # None
  BY <1>2, NullAssumption
<1>8. Asked' = Asked \cup {v}
  BY Zenon, <1>c, <1>6, <1>7 DEF Asked
<1>9. /\ RequestsOf(s)' = RequestsOf(s) \cup {v}
      /\ \A t \in Studies : t # s => RequestsOf(t)' = RequestsOf(t)
  BY <1>1, <1>c, <1>6, <1>8 DEF RequestsOf, Asked
<1>10. \A w \in Asked : w <= v
  BY <1>1, <1>2, RequestsAssumption DEF Numbered, Asked
<1>11. LastAsk(s)' = {v}
  <2>1. v \in Nat /\ \A w \in Asked : w \in Nat
    BY RequestsAssumption DEF Asked
  <2>2. \A w \in RequestsOf(s) : w \in Asked /\ w # v
    BY <1>1 DEF RequestsOf
  <2>3. v \in LastAsk(s)'
    BY <1>9, <1>10, <2>1, <2>2 DEF LastAsk
  <2>4. \A w \in LastAsk(s)' : w = v
    BY <1>9, <1>10, <2>1, <2>2 DEF LastAsk
  <2> QED
    BY <2>3, <2>4
<1>12. \A t \in Studies : t # s => LastAsk(t)' = LastAsk(t)
  BY <1>9 DEF LastAsk
<1>13. Numbered'
  <2>1. \A w \in Asked', u \in Requests : u < w => u \in Asked'
    BY <1>1, <1>2, <1>8 DEF Numbered
  <2>2. \A t \in Studies : RequestsOf(t)' = {} \/ LastAsk(t)' # {}
    BY Zenon, <1>2, <1>9, <1>11, <1>12 DEF Numbered
  <2> QED
    BY <2>1, <2>2 DEF Numbered
<1>14. /\ Finish(c) /\ muddled \subseteq muddled' /\ muddled' \subseteq Studies
       /\ \A d \in Calls : d # c /\ call[d].pc \in StudyFlight /\ call[d].case = s => s \in muddled'
  BY <1>1, <1>2, AtOnceMarks
<1>15. StudiesTyped' /\ heard \subseteq heard'
  BY <1>1, <1>2, <1>6, <1>14 DEF StudiesTyped
<1>16. \A w \in Asked : Grows(w)
  BY <1>1, <1>6 DEF Grows, Asked
<1>17. \A w \in Requests : Told(w)'
  <2>1. ASSUME NEW w \in Requests, w # v PROVE Told(w)'
    <3>1. Told(w) /\ asks'[w] = asks[w] /\ links'[w] = links[w] /\ (w \in Asked' <=> w \in Asked) /\ heard' = heard
      BY <1>1, <1>6, <1>8, <2>1 DEF StudiesHeld
    <3> QED
      BY <3>1 DEF Told, Out
  <2>2. Told(v)'
    <3>1. ~(links[v].token > 0) /\ (links[v].token = 0 => links[v].answer = "none")
      BY <1>1, <1>2 DEF Told
    <3>2. asks'[v].status \notin Workflow!PostApproval \cup WithInstitution \cup {"PENDING_ADMIN_QUALITY_REVIEW", "VERIFIED"}
      BY <1>c, <1>6 DEF WithInstitution, Workflow!PostApproval, Workflow!OrganizationVisible
    <3>3. ~asks'[v].outreach /\ links' = links
      BY <1>1, <1>c, <1>6
    <3> QED
      BY <3>1, <3>2, <3>3 DEF Told
  <2> QED
    BY <2>1, <2>2
<1>18. s \notin muddled' => Follows(s)'
  <2>1. \A w \in Unsettled(s)' : w = v
    <3> SUFFICES ASSUME NEW w \in Unsettled(s)', w # v PROVE FALSE
      OBVIOUS
    <3>1. w \in RequestsOf(s) /\ asks'[w] = asks[w]
      BY <1>6, <1>9 DEF Unsettled, RequestsOf, Asked
    <3>2. w \in Unsettled(s)
      BY <3>1 DEF Unsettled
    <3> QED
      BY <1>1, <3>2
  <2>2. asks'[v].status = "PENDING_SUBJECT_SUBMISSION" /\ studies'[s].status = "pending"
    BY <1>c, <1>5, <1>6
  <2> QED
    BY <1>11, <2>1, <2>2 DEF Follows
<1>19. s \notin muddled' => \A w \in RequestsOf(s) :
           /\ links[w].token > 0 => links'[w].token = links[w].token
           /\ links[w].answer # "none" => links'[w].answer = links[w].answer
  BY <1>1
<1>20. \A w \in Asked : asks[w].study # s => asks'[w] = asks[w] /\ links'[w] = links[w]
  BY <1>1, <1>6 DEF Asked
<1>21. \A w \in Requests : w \notin Asked => asks'[w].study \in {None, s}
  BY Zenon, <1>c, <1>6 DEF Asked
<1>22. \A t \in Studies : t # s => studies'[t] = studies[t]
  BY <1>6
<1> QED
  <2>1. EndsOn(c, s)
    BY <1>2, <1>13, <1>14, <1>15, <1>16, <1>17, <1>18, <1>19, <1>20, <1>21, <1>22 DEF EndsOn
  <2> QED
    BY <1>2, <2>1, StudyEnds

\* What a step that adds a record, or marks a link, leaves of all this.
LEMMA StudiesMuchTheSame ==
  ASSUME StudiesHeld, Steps({"done"}), UNCHANGED <<asks, heard, muddled>>,
         studies' \in [Studies -> Study],
         \A s \in Studies : studies'[s].status = studies[s].status /\ (studies'[s].there => studies[s].there \/ studies[s].status # "pending"),
         links' \in [Requests -> Link],
         \A v \in Requests : links'[v].token = links[v].token /\ links'[v].answer = links[v].answer
  PROVE StudiesHeld' /\ LinksStand
<1>1. /\ DOMAIN call' = Calls
      /\ \A c \in Calls : call'[c] = call[c] \/ call'[c].pc \in {"done"}
  BY AsideCalls DEF StudiesHeld
<1>2. \A c \in Calls : call'[c].pc \in StudyFlight => call'[c] = call[c]
  BY <1>1 DEF StudyFlight
<1>3. asks' = asks /\ heard' = heard /\ muddled' = muddled
  OBVIOUS
<1>4. StudiesTyped' /\ Numbered'
  BY <1>3 DEF StudiesHeld, StudiesTyped, Numbered, Asked, RequestsOf, LastAsk
<1>5. \A v \in Requests : Told(v)'
  <2> SUFFICES ASSUME NEW v \in Requests PROVE Told(v)'
    OBVIOUS
  <2>1. Told(v) /\ links'[v].token = links[v].token /\ links'[v].answer = links[v].answer
    BY DEF StudiesHeld
  <2> QED
    BY <1>3, <2>1 DEF Told, Out, Asked
<1>6. \A s \in Studies \ muddled : Follows(s)'
  <2> SUFFICES ASSUME NEW s \in Studies \ muddled PROVE Follows(s)'
    OBVIOUS
  <2>1. Follows(s)
    BY DEF StudiesHeld
  <2>2. RequestsOf(s)' = RequestsOf(s) /\ LastAsk(s)' = LastAsk(s) /\ Unsettled(s)' = Unsettled(s)
    BY DEF RequestsOf, LastAsk, Unsettled, Asked
  <2>3. s \in Records' /\ studies'[s].status = "pending" => s \in Records
    BY DEF Records
  <2>4. studies'[s].status = studies[s].status
    OBVIOUS
  <2> QED
    BY <1>3, <2>1, <2>2, <2>3, <2>4 DEF Follows
<1>7. StudyCalls'
  <2> SUFFICES ASSUME NEW c \in Calls, call'[c].pc \in StudyFlight PROVE StudyCall(call[c])'
    BY DEF StudyCalls
  <2> PICK k : k = call[c]
    OBVIOUS
  <2>1. StudyCall(k) /\ k.case \in Studies /\ call'[c] = k
    BY <1>2 DEF StudiesHeld, StudyCalls, StudyCall
  <2>2. CASE k.pc \in {"edit", "enter"}
    <3>1. OfRecord(k)
      BY <2>1, <2>2 DEF StudyCall
    <3> QED
      BY <1>3, <2>1, <2>2, <3>1 DEF StudyCall, OfRecord
  <2>3. CASE k.pc \notin {"edit", "enter"}
    <3>1. OfRequest(k) /\ k.on \in Requests
      BY <2>1, <2>3 DEF StudyCall, OfRequest, Asked
    <3>2. links'[k.on].token = links[k.on].token /\ links'[k.on].answer = links[k.on].answer
      BY <3>1
    <3> QED
      BY <1>3, <2>1, <2>3, <3>1, <3>2 DEF StudyCall, OfRequest, Due, Out, Asked
  <2> QED
    BY <2>2, <2>3
<1>8. StudiesApart'
  BY <1>2, <1>3 DEF StudiesHeld, StudiesApart
<1>9. LinksStand
  BY DEF LinksStand, Asked
<1> QED
  BY <1>1, <1>3, <1>4, <1>5, <1>6, <1>7, <1>8, <1>9 DEF StudiesHeld

LEMMA LinkMarkedHeld ==
  ASSUME StudiesHeld, ViewLink \/ LinkLapses
  PROVE StudiesHeld' /\ LinksStand
<1>1. /\ UNCHANGED <<studies, asks, heard, muddled, call>>
      /\ \E v \in Asked : \/ links' = [links EXCEPT ![v].viewed = TRUE]
                          \/ links' = [links EXCEPT ![v].lapsed = TRUE]
  BY DEF ViewLink, LinkLapses
<1>2. PICK v \in Asked : \/ links' = [links EXCEPT ![v].viewed = TRUE]
                         \/ links' = [links EXCEPT ![v].lapsed = TRUE]
  BY <1>1
<1>3. links \in [Requests -> Link] /\ v \in Requests /\ studies \in [Studies -> Study]
  BY DEF StudiesHeld, StudiesTyped, Asked
<1>4. /\ links' \in [Requests -> Link]
      /\ \A w \in Requests : links'[w].token = links[w].token /\ links'[w].answer = links[w].answer
  <2>1. PICK link \in Link : links' = [links EXCEPT ![v] = link] /\ link.token = links[v].token /\ link.answer = links[v].answer
    <3>1. links[v] \in Link
      BY <1>3
    <3>2. CASE links' = [links EXCEPT ![v].viewed = TRUE]
      <4> PICK link : link = [links[v] EXCEPT !.viewed = TRUE]
        BY Zenon
      <4>1. link \in Link /\ link.token = links[v].token /\ link.answer = links[v].answer
        BY Zenon, <3>1 DEF Link
      <4> QED
        BY Zenon, <3>2, <4>1
    <3>3. CASE links' = [links EXCEPT ![v].lapsed = TRUE]
      <4> PICK link : link = [links[v] EXCEPT !.lapsed = TRUE]
        BY Zenon
      <4>1. link \in Link /\ link.token = links[v].token /\ link.answer = links[v].answer
        BY Zenon, <3>1 DEF Link
      <4> QED
        BY Zenon, <3>3, <4>1
    <3> QED
      BY <1>2, <3>2, <3>3
  <2> QED
    BY <1>3, <2>1
<1>5. Steps({"done"})
  BY <1>1 DEF Steps
<1> QED
  BY <1>1, <1>3, <1>4, <1>5, StudiesMuchTheSame

LEMMA AddStudyHeld ==
  ASSUME StudiesHeld, NEW c \in Calls, Turn(c), AddStudy(c)
  PROVE StudiesHeld' /\ LinksStand
<1>1. PICK s \in Studies : studies[s] = NoStudy /\ studies' = [studies EXCEPT ![s].there = TRUE]
                           /\ Finish(c) /\ UNCHANGED <<asks, links, heard, muddled>>
  BY Zenon DEF AddStudy
<1>2. studies \in [Studies -> Study] /\ links \in [Requests -> Link]
  BY DEF StudiesHeld, StudiesTyped
<1>3. studies' \in [Studies -> Study] /\ \A t \in Studies : studies'[t].status = studies[t].status
  BY Zenon, <1>1, <1>2 DEF Study
<1>4. \A t \in Studies : t # s => studies'[t] = studies[t]
  BY <1>1, <1>2
<1>5. studies[s].status # "pending"
  BY <1>1 DEF NoStudy
<1>6. \A t \in Studies : studies'[t].there => studies[t].there \/ studies[t].status # "pending"
  BY <1>4, <1>5
<1>7. Steps({"done"})
  BY <1>1, FinishPuts
<1> QED
  BY <1>1, <1>2, <1>3, <1>6, <1>7, StudiesMuchTheSame

LEMMA StudyStepHeld ==
  ASSUME StudiesHeld, StudyStep
  PROVE StudiesHeld' /\ LinksStand
<1>1. ASSUME NEW c \in Calls, Turn(c), StudyStart(c)
      PROVE StudiesHeld' /\ LinksStand
  BY <1>1, AddStudyHeld, RecordStarts, RecordAtOnceHeld, ApplyHeld, EngageStarts, WithdrawHeld, ResolveHeld, Zenon DEF StudyStart
<1>2. ASSUME NEW c \in Calls, StudyCommit(c)
      PROVE StudiesHeld' /\ LinksStand
  BY <1>2, CommitStudyHeld, CommitRequestHeld, CommitApprovalHeld, CommitClosingHeld, CommitResponseHeld, Zenon DEF StudyCommit
<1> QED
  BY <1>1, <1>2, LinkMarkedHeld DEF StudyStep

LEMMA StudiesHeldNext ==
  ASSUME StudiesHeld, [Next]_vars
  PROVE StudiesHeld' /\ LinksStand
BY StudiesAside, StudyStepHeld, StudiesHeldAside

\* What follows from it of the checked properties.
LEMMA StudiesFollow ==
  ASSUME StudiesHeld
  PROVE StudyFollows /\ VerifiedOnAnswer
<1>1. ASSUME NEW s \in Records \ muddled
      PROVE /\ studies[s].status = "verified" <=> RequestsOf(s) # {} /\ asks[Newest(s)].status = "VERIFIED"
            /\ studies[s].status = "pending" => RequestsOf(s) # {} /\ asks[Newest(s)].status # "WITHDRAWN_BY_CANDIDATE"
            /\ Cardinality(Unsettled(s)) <= 1
  <2>1. s \in Studies /\ Follows(s) /\ Numbered
    BY DEF Records, StudiesHeld
  <2>2. RequestsOf(s) # {} => Newest(s) \in LastAsk(s)
    <3> SUFFICES ASSUME RequestsOf(s) # {} PROVE Newest(s) \in LastAsk(s)
      OBVIOUS
    <3>1. PICK v \in LastAsk(s) : TRUE
      BY <2>1 DEF Numbered
    <3> QED
      BY <3>1 DEF Newest, LastAsk
  <2>3. \A v \in LastAsk(s) : RequestsOf(s) # {} /\ v = Newest(s)
    BY <2>2, LastAskOne DEF LastAsk
  <2>4. Cardinality(Unsettled(s)) <= 1
    <3>1. Unsettled(s) \subseteq {Newest(s)}
      BY <2>1, <2>3 DEF Follows
    <3>2. Unsettled(s) = {} \/ Unsettled(s) = {Newest(s)}
      BY <3>1
    <3>3. CASE Unsettled(s) = {}
      <4>1. Cardinality(Unsettled(s)) = 0
        BY <3>3, NoneCounted
      <4> QED
        BY <4>1
    <3>4. CASE Unsettled(s) = {Newest(s)}
      <4>1. Cardinality(Unsettled(s)) = 1
        BY Zenon, <3>4, OneCounted
      <4> QED
        BY <4>1
    <3> QED
      BY <3>2, <3>3, <3>4
  <2> QED
    BY <2>1, <2>2, <2>3, <2>4 DEF Follows
<1>2. VerifiedOnAnswer
  BY DEF VerifiedOnAnswer, StudiesHeld, Told, Out, WithInstitution, Asked
<1> QED
  BY <1>1, <1>2 DEF StudyFollows

(* ---- the records of a profile, and the passport made of them ---- *)
\* Every reader is listed of the same rows, whatever they are.
LEMMA AllListedAlike ==
  ASSUME RecordsMade
  PROVE ListedAlike
<1> DEFINE owner == OwnerPassport
           link == Vault(Permissions, TRUE)
           public == PublicVault
           counted == VerificationSummary
<1>1. /\ owner.employments = Active /\ owner.educations = Records /\ owner.records = LiveEntries
      /\ owner.user_documents = Kept /\ owner.files = FilesWith(Active)
  BY DEF OwnerPassport, Vault, Permissions, Shown
<1>2. /\ link.employments = PublicClaims(Active) /\ link.educations = PublicClaims(Records) /\ link.records = LiveEntries
      /\ link.user_documents = Kept /\ link.files = FilesWith(PublicClaims(Active))
  BY DEF Vault, Permissions, Shown
<1>3. DOMAIN owner = {"employments", "files", "educations", "records", "user_documents"}
  BY DEF OwnerPassport, Vault
<1>4. {e \in Entries : entries[e] # NoEntry /\ ~entries[e].gone} = LiveEntries
  <2>1. NoEntry.kind = None
    BY DEF NoEntry
  <2>2. \A e \in Entries : entries[e] # NoEntry <=> entries[e].kind # None
    BY <2>1 DEF RecordsMade
  <2> QED
    BY <2>2 DEF LiveEntries
<1>5. \A S : PublicClaims(S) \subseteq S
  BY DEF PublicClaims
<1>6. \A f \in {"employments", "educations", "records", "user_documents"} : counted[f] = Cardinality(owner[f])
  <2>1. counted.employments = Cardinality(Active)
    BY DEF VerificationSummary, Active
  <2>2. counted.educations = Cardinality(Records) /\ counted.user_documents = Cardinality(Kept)
    BY DEF VerificationSummary, Kept
  <2>3. counted.records = Cardinality(LiveEntries)
    BY Zenon, <1>4 DEF VerificationSummary
  <2> QED
    BY <1>1, <2>1, <2>2, <2>3
<1>7. link.files \cup public.files \subseteq owner.files
  BY Zenon, <1>1, <1>2, <1>5 DEF FilesWith, PublicVault
<1>8. link.records \cup public.records \subseteq owner.records
  BY Zenon, <1>1, <1>2 DEF PublicVault, EntriesOf
<1>9. link.employments \cup public.employments \subseteq owner.employments
  BY Zenon, <1>1, <1>2, <1>5 DEF PublicVault
<1>10. link.educations \cup public.educations \subseteq owner.educations
  BY Zenon, <1>1, <1>2, <1>5 DEF PublicVault
<1>11. link.user_documents \cup public.user_documents \subseteq owner.user_documents
  BY Zenon, <1>1, <1>2 DEF PublicVault
<1>12. \A x \in link.employments : cases[x].status \notin {"rejected", "cancelled"}
  BY Zenon, <1>2 DEF PublicClaims, Class, StatusOf, Active
<1> HIDE DEF owner, link, public, counted
<1>13. \A f \in DOMAIN owner : link[f] \cup public[f] \subseteq owner[f]
  BY <1>3, <1>7, <1>8, <1>9, <1>10, <1>11
<1> QED
  BY Zenon, <1>6, <1>12, <1>13 DEF ListedAlike, owner, link, public, counted

\* What holds of a profile from the start on.
ProfileHeld == PapersHeld /\ RecordsHeld /\ VisitsHeld /\ ScoresHeld

LEMMA ProfileBegins ==
  ASSUME Init
  PROVE ProfileHeld
<1>1. PICK s \in Starts :
        /\ papers = s.papers /\ entries = s.entries /\ sheets = s.sheets /\ confirmations = s.confirmations
        /\ consent = s.consent /\ consents = s.consent
        /\ call = [c \in Calls |-> IF c \in s.calls THEN Blank ELSE Over]
  BY DEF Init
<1>2. DOMAIN call = Calls /\ \A c \in Calls : call[c].pc \in {"idle", "done"}
  BY <1>1 DEF Blank, Over, Call
<1>3. PapersHeld
  <2>1. papers \in [Papers -> Paper] /\ PapersBegun(s)
    BY <1>1, StartsAssumption
  <2>2. PapersMade
    BY <1>1, <2>1 DEF PapersMade, PapersBegun, Newer
  <2> QED
    BY <1>2, <2>1, <2>2 DEF PapersHeld, PaperCalls
<1>4. RecordsHeld
  <2>1. /\ entries \in [Entries -> Entry] /\ sheets \in [Sheets -> Sheet]
        /\ confirmations \in [Entries -> Confirmation] /\ RecordsBegun(s)
    BY <1>1, StartsAssumption
  <2>2. said = [e \in Entries |-> [f \in Fields |-> entries[e][f]]] /\ fresh = {} /\ twice = {}
    BY DEF Init
  <2>3. RecordsTyped
    <3>1. \A e \in Entries : entries[e].title \in Values /\ entries[e].span \in Values
      BY <2>1 DEF Entry
    <3>2. \A e \in Entries, f \in Fields : entries[e][f] \in Values
      BY <3>1 DEF Fields
    <3>3. said \in [Entries -> [Fields -> Values]]
      BY <2>2, <3>2
    <3> QED
      BY <2>1, <2>2, <3>3 DEF RecordsTyped
  <2>4. RecordsMade
    BY <1>1, <2>1 DEF RecordsMade, RecordsBegun
  <2>5. EditsKept
    BY <2>2 DEF EditsKept
  <2>6. AnswersAgree
    BY <1>1, <2>1 DEF AnswersAgree, RecordsBegun, SheetsOf
  <2> QED
    BY <1>2, <2>3, <2>4, <2>5, <2>6 DEF RecordsHeld, RecordCalls, RecordsApart
<1>5. VisitsHeld
  <2>1. visits = [n \in Visits |-> NoVisit]
    BY DEF Init
  <2>2. visits \in [Visits -> VisitRow] /\ \A n \in Visits : ~visits[n].recent
    BY <2>1 DEF NoVisit, VisitRow
  <2> QED
    BY <1>2, <2>2 DEF VisitsHeld, VisitCalls, VisitsApart, ViewedOnce
<1>6. ScoresHeld
  <2>1. snapshots = [n \in Snapshots |-> NoSnapshot]
    BY DEF Init
  <2>2. consent \in Nat /\ consents \in Nat
    BY <1>1, StartsAssumption, SnapshotsAssumption
  <2>3. Taken = {} /\ RowsHeld
    BY <2>1 DEF Taken, RowsHeld
  <2> QED
    BY <1>2, <2>1, <2>2, <2>3 DEF ScoresHeld, ScoredCalls, PersistCalls, Overlaps, IdleLater, TakenBefore, NoRepeats, Scoring
<1> QED
  BY <1>3, <1>4, <1>5, <1>6 DEF ProfileHeld

LEMMA ProfileGoesOn ==
  ASSUME ProfileHeld, [Next]_vars
  PROVE ProfileHeld'
BY PapersHeldNext, RecordsHeldNext, VisitsHeldNext, ScoresHeldNext DEF ProfileHeld

LEMMA ProfileOrdered ==
  ASSUME ProfileHeld
  PROVE ProfileInOrder
BY PapersLineage, ScoresComplete, AllListedAlike DEF ProfileHeld, RecordsHeld, VisitsHeld, ScoresHeld, ProfileInOrder

\* The records of a profile and the passport made of them agree (user_document_service.py:112-131, internship_service.py:47-54, trust_score_service.py:157-218, profile_view_service.py:43-81), whatever calls overlap or are cut short, but for what ProfileInOrder excepts: two calls that name one field, answer one link, or score or visit at the same time, and a claim that moves while it is scored.
THEOREM ProfileKept == Spec => []ProfileInOrder
<1>1. Init => ProfileHeld
  BY ProfileBegins
<1>2. ProfileHeld /\ [Next]_vars => ProfileHeld'
  BY ProfileGoesOn
<1>3. ProfileHeld => ProfileInOrder
  BY ProfileOrdered
<1> QED
  BY <1>1, <1>2, <1>3, PTL DEF Spec

(* ---- the file of a request, and the connectors that verify it ---- *)
FileFlight == {"exhibit", "amend", "consent", "verify", "connecting", "moving"}
\* The file of a request is explored without the other parts.
PartsAlone == "file" \in parts => parts = {"file"}

LEMMA FileAside ==
  ASSUME [Next]_vars, PartsAlone
  PROVE /\ parts' = parts
        /\ \/ "file" \in parts /\ FileNext /\ UNCHANGED connectorVars
           \/ "connectors" \in parts /\ "file" \notin parts /\ ConnectorsNext /\ UNCHANGED <<cases, studies>>
           \/ /\ UNCHANGED <<fileVars, connectorVars>> /\ Steps(Pcs \ FileFlight)
              /\ "file" \in parts => UNCHANGED <<cases, studies>> /\ Steps({"done"})
<1> DEFINE H == Pcs \ FileFlight
<1>0. parts' = parts
  BY DEF Next, vars
<1>1. /\ PipelinePcs \subseteq H /\ ResumePcs \subseteq H /\ ReviewPcs \subseteq H /\ PaperPcs \subseteq H /\ StudyPcs \subseteq H
      /\ RecordPcs \subseteq H /\ PassportPcs \subseteq H /\ VisitPcs \subseteq H /\ {"done"} \subseteq H
  BY DEF Pcs, PipelinePcs, ResumePcs, ReviewPcs, PaperPcs, StudyPcs, FilePcs, RecordPcs, PassportPcs, VisitPcs, ConnectorPcs, FileFlight
<1> HIDE DEF H
<1>2. CASE "file" \in parts
  <2>1. parts = {"file"}
    BY <1>2 DEF PartsAlone
  <2>2. \/ FileNext /\ UNCHANGED connectorVars
        \/ (\E c \in Calls : Crash(c)) /\ UNCHANGED <<fileVars, connectorVars, studyVars>>
        \/ UNCHANGED vars
    <3>1. /\ "pipeline" \notin parts /\ "resumes" \notin parts /\ "reviews" \notin parts /\ "papers" \notin parts
          /\ "studies" \notin parts /\ "records" \notin parts /\ "passport" \notin parts /\ "visits" \notin parts
          /\ "connectors" \notin parts
      BY <2>1
    <3> QED
      BY <3>1, Zenon DEF Next
  <2>3. ASSUME NEW c \in Calls, Crash(c) PROVE UNCHANGED cases /\ Steps({"done"})
    BY <2>3, CrashPuts DEF Crash
  <2>4. CASE UNCHANGED vars
    BY <2>4 DEF vars, pipelineVars, studyVars, fileVars, connectorVars, Steps
  <2>5. CASE (\E c \in Calls : Crash(c)) /\ UNCHANGED <<fileVars, connectorVars, studyVars>>
    <3>1. UNCHANGED cases /\ Steps({"done"}) /\ UNCHANGED studies
      BY <2>3, <2>5 DEF studyVars
    <3> QED
      BY <1>0, <1>1, <2>5, <3>1, StepsMore DEF H
  <2>6. UNCHANGED vars => Steps(H)
    BY DEF vars, pipelineVars, Steps
  <2> QED
    BY <1>0, <1>2, <2>2, <2>4, <2>5, <2>6 DEF H
<1>3. CASE "file" \notin parts
  <2> DEFINE Aside == UNCHANGED <<fileVars, connectorVars>> /\ Steps(H)
  <2>1. PipelineNext /\ UNCHANGED <<fileVars, connectorVars>> => Aside
    BY <1>1, PipelinePuts, StepsMore
  <2>2. ProcessingNext /\ UNCHANGED <<fileVars, connectorVars>> => Aside
    BY <1>1, ResumePuts, StepsMore
  <2>3. ReviewNext /\ UNCHANGED <<fileVars, connectorVars>> => Aside
    BY <1>1, ReviewPuts, StepsMore
  <2>4. PapersNext /\ UNCHANGED <<fileVars, connectorVars>> => Aside
    BY <1>1, PaperPuts, StepsMore
  <2>5. StudyNext /\ UNCHANGED <<fileVars, connectorVars>> => Aside
    BY <1>1, StudyPuts, StepsMore
  <2>6. (\E c \in Calls : Crash(c)) /\ UNCHANGED <<fileVars, connectorVars>> => Aside
    BY <1>1, CrashPuts, StepsMore
  <2>7. RecordsNext /\ UNCHANGED <<fileVars, connectorVars>> => Aside
    BY <1>1, RecordPuts, StepsMore
  <2>8. PassportNext /\ UNCHANGED <<fileVars, connectorVars>> => Aside
    BY <1>1, PassportPuts, StepsMore
  <2>9. VisitsNext /\ UNCHANGED <<fileVars, connectorVars>> => Aside
    BY <1>1, VisitPuts, StepsMore
  <2>10. UNCHANGED vars => Aside
    BY DEF vars, pipelineVars, fileVars, connectorVars, Steps
  <2>11. \/ PipelineNext /\ UNCHANGED <<fileVars, connectorVars>>
         \/ ProcessingNext /\ UNCHANGED <<fileVars, connectorVars>>
         \/ ReviewNext /\ UNCHANGED <<fileVars, connectorVars>>
         \/ PapersNext /\ UNCHANGED <<fileVars, connectorVars>>
         \/ StudyNext /\ UNCHANGED <<fileVars, connectorVars>>
         \/ (\E c \in Calls : Crash(c)) /\ UNCHANGED <<fileVars, connectorVars>>
         \/ RecordsNext /\ UNCHANGED <<fileVars, connectorVars>>
         \/ PassportNext /\ UNCHANGED <<fileVars, connectorVars>>
         \/ VisitsNext /\ UNCHANGED <<fileVars, connectorVars>>
         \/ "connectors" \in parts /\ ConnectorsNext /\ UNCHANGED <<cases, studyVars>>
         \/ UNCHANGED vars
    BY <1>3, Zenon DEF Next, Pipelined
  <2>12. ("connectors" \in parts /\ ConnectorsNext /\ UNCHANGED <<cases, studyVars>>) \/ Aside
    BY <2>1, <2>2, <2>3, <2>4, <2>5, <2>6, <2>7, <2>8, <2>9, <2>10, <2>11, Zenon
  <2> QED
    BY <1>0, <1>3, <2>12 DEF H, studyVars
<1> QED
  BY <1>2, <1>3

\* A call about the file of a request, and how two of them are told apart.
FileCall(k) ==
  /\ k.on \in Opened /\ k.case = dossiers[k.on].of
  /\ IF k.pc \in {"exhibit", "amend", "consent"} THEN "file" \in parts ELSE "connectors" \in parts
FileTyped ==
  /\ dossiers \in [Requests -> Dossier] /\ items \in [Items -> Exhibit]
  /\ given \in [Requests -> Given] /\ doubled \subseteq Requests
FilesApart ==
  \A c, d \in Calls : c # d /\ call[c].pc \in FileFlight =>
    /\ call[d].pc \in FileFlight /\ call[d].on = call[c].on => call[c].on \in doubled
    /\ call[d].pc \in {"update", "edit"} /\ "file" \in parts /\ call[d].case = dossiers[call[c].on].of =>
         call[c].on \in doubled
FileBase ==
  /\ DOMAIN call = Calls /\ PartsAlone /\ FileTyped
  /\ \A c \in Calls : call[c].pc \in FileFlight => FileCall(call[c])
  /\ FilesApart

LEMMA OpenedIs ==
  ASSUME FileTyped, NEW v \in Opened
  PROVE v \in Requests /\ dossiers[v] \in Dossier /\ dossiers[v].of \in Claims /\ dossiers[v].status \in Workflow!Status
<1>1. v \in Requests /\ dossiers[v] \in Dossier /\ dossiers[v].of # None
  BY DEF Opened, FileTyped
<1> QED
  BY <1>1 DEF Dossier

LEMMA BaseBegins ==
  ASSUME FileBase, NEW c \in Calls, Turn(c), NEW k, k.pc \in FileFlight, FileCall(k),
         call' = [call EXCEPT ![c] = k], doubled' = doubled \cup Met(k.on),
         UNCHANGED <<dossiers, items, given, parts>>
  PROVE FileBase'
<1>1. /\ DOMAIN call' = Calls /\ call'[c] = k
      /\ \A d \in Calls : d # c => call'[d] = call[d]
  BY DEF FileBase
<1>2. doubled \subseteq doubled' /\ doubled' \subseteq Requests
  BY DEF Met, FileBase, FileTyped, FileCall, Opened
<1>3. PartsAlone' /\ FileTyped'
  BY <1>2 DEF FileBase, PartsAlone, FileTyped
<1>4. \A d \in Calls : call'[d].pc \in FileFlight => FileCall(call[d])'
  BY <1>1 DEF FileBase, FileCall, Opened
<1>5. \A d \in Calls : d # c /\ (call[d].on = k.on \/ call[d].case = dossiers[k.on].of) /\ call[d].pc \notin {"idle", "done"} =>
        k.on \in doubled'
  BY DEF Met, Flying
<1>6. FilesApart'
  <2> SUFFICES ASSUME NEW x \in Calls, NEW y \in Calls, x # y, call'[x].pc \in FileFlight
               PROVE /\ call'[y].pc \in FileFlight /\ call'[y].on = call'[x].on => call'[x].on \in doubled'
                     /\ call'[y].pc \in {"update", "edit"} /\ "file" \in parts /\ call'[y].case = dossiers[call'[x].on].of =>
                          call'[x].on \in doubled'
    BY DEF FilesApart
  <2>1. CASE x # c /\ y # c
    BY <2>1, <1>1, <1>2 DEF FileBase, FilesApart
  <2>2. CASE x = c
    BY <2>2, <1>1, <1>5 DEF FileFlight
  <2>3. CASE y = c
    BY <2>3, <1>1, <1>5 DEF FileFlight
  <2> QED
    BY <2>1, <2>2, <2>3
<1> QED
  BY <1>1, <1>3, <1>4, <1>6 DEF FileBase

LEMMA BaseStays ==
  ASSUME FileBase, DOMAIN call' = Calls,
         \A d \in Calls : call'[d] = call[d] \/ (call'[d].pc \notin FileFlight /\ ("file" \in parts => call'[d].pc \notin {"update", "edit"})),
         FileTyped', parts' = parts, doubled \subseteq doubled',
         \A v \in Requests : dossiers'[v].of = dossiers[v].of
  PROVE FileBase'
<1>1. PartsAlone'
  BY DEF FileBase, PartsAlone
<1>2. ASSUME NEW d \in Calls, call'[d].pc \in FileFlight
      PROVE call'[d] = call[d] /\ FileCall(call[d]) /\ call[d].on \in Requests
  BY <1>2 DEF FileBase, FileCall, Opened
<1>3. \A d \in Calls : call'[d].pc \in FileFlight => FileCall(call[d])'
  BY <1>2 DEF FileCall, Opened
<1>4. FilesApart'
  <2> SUFFICES ASSUME NEW x \in Calls, NEW y \in Calls, x # y, call'[x].pc \in FileFlight
               PROVE /\ call'[y].pc \in FileFlight /\ call'[y].on = call'[x].on => call'[x].on \in doubled'
                     /\ call'[y].pc \in {"update", "edit"} /\ "file" \in parts /\ call'[y].case = dossiers'[call'[x].on].of =>
                          call'[x].on \in doubled'
    BY DEF FilesApart
  <2>1. call'[x] = call[x] /\ dossiers'[call[x].on].of = dossiers[call[x].on].of
    BY <1>2
  <2>2. call'[y].pc \in FileFlight => call'[y] = call[y]
    OBVIOUS
  <2>3. call'[y].pc \in {"update", "edit"} /\ "file" \in parts => call'[y] = call[y]
    OBVIOUS
  <2>4. /\ call[y].pc \in FileFlight /\ call[y].on = call[x].on => call[x].on \in doubled
        /\ call[y].pc \in {"update", "edit"} /\ "file" \in parts /\ call[y].case = dossiers[call[x].on].of => call[x].on \in doubled
    BY <2>1 DEF FileBase, FilesApart
  <2> QED
    BY <2>1, <2>2, <2>3, <2>4
<1> QED
  BY <1>1, <1>3, <1>4 DEF FileBase

\* The statuses of a request that was sent on to the organization.
Gone == Workflow!OrganizationVisible \cup {"PENDING_ADMIN_QUALITY_REVIEW"}
Docs == [file : Files \cup {"transcript"}, paper : {None}] \cup [file : {None}, paper : Papers]

\* A request that was sent on was consented to, with a version of the claim; what the candidate gave is what its row says.
DossierOk(v) ==
  /\ dossiers[v].consented => dossiers[v].snapshot # None
  /\ v \in Opened /\ dossiers[v].status \in Gone => dossiers[v].consented
  /\ v \notin doubled => given[v] = [scopes |-> dossiers[v].scopes, fields |-> dossiers[v].fields, version |-> dossiers[v].snapshot]
\* So will it be after the calls under way.
DossierCall(k) ==
  /\ k.pc = "consent" => /\ k.arg \in Given /\ k.arg.version # None
                         /\ k.on \notin doubled => k.arg.version = Live(k.case)
  /\ k.pc \in {"verify", "connecting"} =>
       /\ dossiers[k.on].consented /\ k.arg.by \in Catalog
       /\ k.on \notin doubled => dossiers[k.on].status \in Workflow!OrganizationVisible
  /\ k.pc = "moving" => k.arg \in Workflow!Status /\ (k.arg \in Gone => dossiers[k.on].consented)
DossierCalls == \A c \in Calls : call[c].pc \in FileFlight => DossierCall(call[c])
DossiersHeld == (\A v \in Requests : DossierOk(v)) /\ DossierCalls

\* Evidence is of one document, and a document of the claim is evidence once; so will it be after the calls under way.
ItemCall(k) ==
  /\ k.pc = "exhibit" =>
       /\ k.arg.scope \in Scopes /\ k.arg.doc \in Docs
       /\ k.on \notin doubled /\ k.arg.doc.file # None => \A i \in Evidence(k.on) : items[i].file # k.arg.doc.file
  /\ k.pc = "amend" =>
       /\ k.arg.row \in Items /\ items[k.arg.row].of = k.on /\ k.arg.scope \in Scopes /\ k.arg.doc \in Docs \cup {None}
       /\ k.on \notin doubled =>
            /\ k.view = items[k.arg.row]
            /\ k.arg.doc # None /\ k.arg.doc.file # None =>
                 \A i \in Evidence(k.on) \ {k.arg.row} : items[i].file # k.arg.doc.file
ItemCalls == \A c \in Calls : call[c].pc \in FileFlight => ItemCall(call[c])
ItemsHeld == AttachedOnce /\ ItemCalls

\* The claims of the explored requests have dates or a version.
ClaimsDated == "file" \in parts =>
  /\ cases \in [Cases -> Case] /\ \A x \in Cases : cases[x].there => cases[x].dates # None
  /\ studies \in [Studies -> Study]
  /\ \A c \in Calls : /\ call[c].pc = "update" => call[c].case \in Cases /\ call[c].arg \in Dates
                      /\ call[c].pc = "edit" => call[c].case \in Studies
FileHeld == FileBase /\ DossiersHeld /\ ItemsHeld /\ ClaimsDated

\* A call that begins changes no row, and marks the requests another call is about.
FileStarts(c, k) ==
  /\ call' = [call EXCEPT ![c] = k] /\ doubled' = doubled \cup Met(k.on)
  /\ UNCHANGED <<dossiers, items, given, cases, studies, parts>>
LEMMA FileBegins ==
  ASSUME FileHeld, NEW c \in Calls, Turn(c), NEW k, k.pc \in FileFlight, FileCall(k), DossierCall(k), ItemCall(k), FileStarts(c, k)
  PROVE FileHeld'
<1>1. FileBase'
  BY Zenon, BaseBegins DEF FileHeld, FileStarts
<1>2. /\ call'[c] = k /\ \A d \in Calls : d # c => call'[d] = call[d]
  BY DEF FileHeld, FileBase, FileStarts
<1>3. doubled \subseteq doubled' /\ UNCHANGED <<dossiers, items, given, cases, studies, parts>>
  BY DEF FileStarts
<1>4. \A v \in Requests : DossierOk(v)'
  BY <1>3 DEF FileHeld, DossiersHeld, DossierOk, Opened
<1>5. \A x : Live(x)' = Live(x)
  BY <1>3 DEF Live
<1>6. ASSUME NEW d \in Calls, call'[d].pc \in FileFlight PROVE DossierCall(call[d])' /\ ItemCall(call[d])'
  <2>1. PICK l : l = call'[d]
    OBVIOUS
  <2>2. DossierCall(l) /\ ItemCall(l)
    BY <1>2, <1>6, <2>1 DEF FileHeld, DossiersHeld, DossierCalls, ItemsHeld, ItemCalls
  <2>3. DossierCall(l)'
    BY <1>3, <1>5, <2>2 DEF DossierCall
  <2>4. ItemCall(l)'
    BY <1>3, <2>2 DEF ItemCall, Evidence
  <2> QED
    BY <2>1, <2>3, <2>4 DEF DossierCall, ItemCall
<1>7. AttachedOnce'
  BY <1>3 DEF FileHeld, ItemsHeld, AttachedOnce
<1>8. ClaimsDated'
  BY <1>2, <1>3 DEF FileHeld, ClaimsDated, FileFlight
<1> QED
  BY <1>1, <1>4, <1>6, <1>7, <1>8 DEF FileHeld, DossiersHeld, DossierCalls, ItemsHeld, ItemCalls

\* A step that settles something of a request changes its row and its evidence only, and calls about it are marked where that matters to them.
FileSettles(w) ==
  /\ w \in Requests /\ DOMAIN call' = Calls /\ FileTyped'
  /\ UNCHANGED <<parts, cases, studies, doubled>>
  /\ \A d \in Calls : call'[d] = call[d] \/ call'[d].pc \notin FileFlight \cup {"update", "edit"}
  /\ \A d \in Calls : call'[d].pc \in {"verify", "connecting"} /\ call'[d].on = w =>
       w \in doubled \/ dossiers'[w].status = dossiers[w].status
  /\ \A d \in Calls : call'[d].pc \in {"exhibit", "amend"} /\ call'[d].on = w => w \in doubled \/ items' = items
  /\ \A v \in Requests : v # w => dossiers'[v] = dossiers[v] /\ given'[v] = given[v]
  /\ dossiers'[w].of = dossiers[w].of /\ (dossiers[w].consented => dossiers'[w].consented)
  /\ DossierOk(w)'
  /\ \A i \in Items : items'[i] = items[i] \/ (items'[i].of = w /\ items[i].of \in {w, None})
  /\ AttachedOnce'
LEMMA FileEnds ==
  ASSUME FileHeld, NEW w, FileSettles(w)
  PROVE FileHeld'
<1>1. /\ w \in Requests /\ DOMAIN call' = Calls /\ FileTyped'
      /\ UNCHANGED <<parts, cases, studies, doubled>>
      /\ \A d \in Calls : call'[d] = call[d] \/ call'[d].pc \notin FileFlight \cup {"update", "edit"}
      /\ \A v \in Requests : v # w => dossiers'[v] = dossiers[v] /\ given'[v] = given[v]
      /\ dossiers'[w].of = dossiers[w].of /\ (dossiers[w].consented => dossiers'[w].consented)
  BY DEF FileSettles
<1>2. \A d \in Calls : call'[d].pc \in {"verify", "connecting"} /\ call'[d].on = w =>
        w \in doubled \/ dossiers'[w].status = dossiers[w].status
  BY DEF FileSettles
<1>3. /\ \A d \in Calls : call'[d].pc \in {"exhibit", "amend"} /\ call'[d].on = w => w \in doubled \/ items' = items
      /\ \A i \in Items : items'[i] = items[i] \/ (items'[i].of = w /\ items[i].of \in {w, None})
  BY DEF FileSettles
<1>4. FileBase'
  BY <1>1, BaseStays DEF FileHeld
<1>5. \A v \in Requests : DossierOk(v)'
  <2> SUFFICES ASSUME NEW v \in Requests, v # w PROVE DossierOk(v)'
    BY DEF FileSettles
  <2>1. dossiers'[v] = dossiers[v] /\ given'[v] = given[v] /\ doubled' = doubled
    BY <1>1
  <2>2. DossierOk(v)
    BY DEF FileHeld, DossiersHeld
  <2> QED
    BY <2>1, <2>2 DEF DossierOk, Opened
<1>6. \A x : Live(x)' = Live(x)
  BY <1>1 DEF Live
<1>7. \A v \in Requests : /\ dossiers[v].consented => dossiers'[v].consented
                          /\ v # w => dossiers'[v].status = dossiers[v].status
  BY <1>1
<1>8. ASSUME NEW d \in Calls, call'[d].pc \in FileFlight PROVE DossierCall(call[d])' /\ ItemCall(call[d])'
  <2>1. PICK l : l = call'[d]
    OBVIOUS
  <2>2. call[d] = l /\ l.pc \in FileFlight
    BY <1>1, <1>8, <2>1
  <2>3. DossierCall(l) /\ ItemCall(l) /\ l.on \in Requests
    BY <2>2 DEF FileHeld, DossiersHeld, DossierCalls, ItemsHeld, ItemCalls, FileBase, FileCall, Opened
  <2>4. DossierCall(l)'
    <3>1. l.pc = "consent" => /\ l.arg \in Given /\ l.arg.version # None
                              /\ l.on \notin doubled' => l.arg.version = Live(l.case)'
      BY <1>1, <1>6, <2>3 DEF DossierCall
    <3>2. l.pc \in {"verify", "connecting"} =>
            /\ dossiers'[l.on].consented /\ l.arg.by \in Catalog
            /\ l.on \notin doubled' => dossiers'[l.on].status \in Workflow!OrganizationVisible
      BY <1>1, <1>2, <1>7, <2>1, <2>3 DEF DossierCall
    <3>3. l.pc = "moving" => l.arg \in Workflow!Status /\ (l.arg \in Gone => dossiers'[l.on].consented)
      BY <1>7, <2>3 DEF DossierCall
    <3> QED
      BY <3>1, <3>2, <3>3 DEF DossierCall, Given
  <2>5. ItemCall(l)'
    <3>1. CASE l.pc \in {"exhibit", "amend"} /\ l.on # w
      <4>1. \A i \in Items : items'[i].of = l.on => items'[i] = items[i]
        BY <1>3, <3>1
      <4>2. \A i \in Items : items[i].of = l.on => items'[i] = items[i]
        BY <1>3, <3>1, <2>3, NullAssumption
      <4>3. Evidence(l.on)' = Evidence(l.on) /\ \A i \in Evidence(l.on) : items'[i] = items[i]
        BY <4>1, <4>2 DEF Evidence
      <4> QED
        BY <1>1, <2>3, <4>2, <4>3 DEF ItemCall
    <3>2. CASE l.pc \in {"exhibit", "amend"} /\ l.on = w /\ items' = items
      BY <1>1, <2>3, <3>2 DEF ItemCall, Evidence
    <3>3. CASE l.pc \in {"exhibit", "amend"} /\ l.on = w /\ w \in doubled
      <4>1. l.pc = "amend" => items'[l.arg.row].of = w
        BY <1>3, <2>3, <3>3, NullAssumption DEF ItemCall
      <4> QED
        BY <1>1, <2>3, <3>3, <4>1 DEF ItemCall
    <3>4. CASE l.pc \notin {"exhibit", "amend"}
      BY <3>4 DEF ItemCall
    <3> QED
      BY <1>3, <2>1, <3>1, <3>2, <3>3, <3>4
  <2> QED
    BY <2>1, <2>4, <2>5 DEF DossierCall, ItemCall
<1>9. ClaimsDated'
  <2>1. \A d \in Calls : call'[d].pc \in {"update", "edit"} => call'[d] = call[d]
    BY <1>1
  <2> QED
    BY <1>1, <2>1 DEF FileHeld, ClaimsDated
<1>10. AttachedOnce'
  BY DEF FileSettles
<1> QED
  BY <1>4, <1>5, <1>8, <1>9, <1>10 DEF FileHeld, DossiersHeld, DossierCalls, ItemsHeld, ItemCalls

\* What is written of a request, with an event.
LEMMA RowWritten ==
  ASSUME FileTyped, NEW w \in Requests, NEW row \in Dossier, NEW e \in Event, dossiers' = [dossiers EXCEPT ![w] = Logged(row, e)]
  PROVE /\ dossiers' \in [Requests -> Dossier]
        /\ \A v \in Requests : v # w => dossiers'[v] = dossiers[v]
        /\ dossiers'[w] = Logged(row, e)
        /\ dossiers'[w].of = row.of /\ dossiers'[w].status = row.status
        /\ dossiers'[w].consented = row.consented /\ dossiers'[w].fields = row.fields
        /\ dossiers'[w].scopes = row.scopes /\ dossiers'[w].snapshot = row.snapshot
        /\ dossiers'[w].assignee = row.assignee /\ dossiers'[w].note = row.note
        /\ dossiers'[w].log = row.log \cup {e}
<1>1. PICK r : r = Logged(row, e)
  OBVIOUS
<1>2. r \in Dossier
  BY <1>1 DEF Logged, Dossier
<1>3. /\ r.of = row.of /\ r.status = row.status
      /\ r.consented = row.consented /\ r.fields = row.fields
      /\ r.scopes = row.scopes /\ r.snapshot = row.snapshot
      /\ r.assignee = row.assignee /\ r.note = row.note
      /\ r.log = row.log \cup {e}
  BY <1>1 DEF Logged, Dossier
<1>4. dossiers' = [dossiers EXCEPT ![w] = r] /\ dossiers \in [Requests -> Dossier]
  BY <1>1 DEF FileTyped
<1>5. /\ dossiers' \in [Requests -> Dossier]
      /\ \A v \in Requests : v # w => dossiers'[v] = dossiers[v]
      /\ dossiers'[w] = r
  BY <1>2, <1>4
<1> QED
  BY <1>1, <1>3, <1>5, Zenon

LEMMA NoConnectorCalls ==
  ASSUME FileHeld, "file" \in parts, NEW d \in Calls
  PROVE call[d].pc \notin {"verify", "connecting", "moving"}
<1>1. parts = {"file"}
  BY DEF FileHeld, FileBase, PartsAlone
<1> QED
  BY <1>1 DEF FileHeld, FileBase, FileCall, FileFlight

\* Where a request moves to is a status, which the organization reaches only with consent.
LEMMA PassedTo ==
  ASSUME FileHeld, NEW v \in Opened, NEW t \in Passed(v)
  PROVE t \in Workflow!Status /\ (t \in Gone => dossiers[v].consented)
<1>1. v \in Requests /\ dossiers[v] \in Dossier /\ dossiers[v].status \in Workflow!Status
  BY OpenedIs DEF FileHeld, FileBase
<1>2. dossiers[v].status \in Gone => dossiers[v].consented
  BY Zenon, <1>1 DEF FileHeld, DossiersHeld, DossierOk
<1>3. CASE dossiers[v].status \in Workflow!PreDispatch
  <2>1. t = "AWAITING_SUBJECT_CORRECTIONS" \/ (t = "PENDING_ORGANIZATION_ACCEPTANCE" /\ dossiers[v].consented)
    <3>1. Passed(v) = {"AWAITING_SUBJECT_CORRECTIONS"} \cup {u \in {"PENDING_ORGANIZATION_ACCEPTANCE"} : Consented(v)}
      BY <1>3 DEF Passed, SendAgain, Workflow!PreDispatch
    <3> QED
      BY <3>1 DEF Consented
  <2> QED
    BY <2>1 DEF Workflow!Status, Gone, Workflow!OrganizationVisible
<1>4. CASE SendAgain(v)
  <2>1. t = "PENDING_ADMIN_RE_REVIEW"
    BY <1>4 DEF Passed, SendAgain, Workflow!PreDispatch
  <2> QED
    BY <2>1 DEF Workflow!Status, Gone, Workflow!OrganizationVisible
<1>5. CASE dossiers[v].status \in Gone
  <2>1. t \in {"IN_PROGRESS", "AWAITING_INFORMATION", "PENDING_ADMIN_QUALITY_REVIEW", "AWAITING_SUBJECT_CORRECTIONS", "VERIFIED"}
    BY <1>5 DEF Passed, SendAgain, Workflow!PreDispatch, Gone, Workflow!OrganizationVisible
  <2> QED
    BY <1>2, <1>5, <2>1 DEF Workflow!Status
<1>6. CASE ~(dossiers[v].status \in Workflow!PreDispatch \/ SendAgain(v) \/ dossiers[v].status \in Gone)
  <2>1. Passed(v) = {}
    BY <1>6 DEF Passed, SendAgain, Workflow!PreDispatch, Gone, Workflow!OrganizationVisible
  <2> QED
    BY <2>1
<1> QED
  BY <1>3, <1>4, <1>5, <1>6

\* What is written of a request that its consent and its evidence do not depend on.
QuietlyWritten(w, row, e) ==
  /\ w \in Opened /\ row \in Dossier /\ e \in Event /\ dossiers' = [dossiers EXCEPT ![w] = Logged(row, e)]
  /\ UNCHANGED <<items, given, doubled, cases, studies, parts>>
  /\ DOMAIN call' = Calls /\ \A d \in Calls : call'[d] = call[d] \/ call'[d].pc = "done"
  /\ row.of = dossiers[w].of /\ row.consented = dossiers[w].consented /\ row.fields = dossiers[w].fields
  /\ row.scopes = dossiers[w].scopes /\ row.snapshot = dossiers[w].snapshot
  /\ row.status \in Gone => dossiers[w].consented
LEMMA QuietEnds ==
  ASSUME FileHeld, "file" \in parts, NEW w, NEW row, NEW e, QuietlyWritten(w, row, e)
  PROVE FileHeld'
<1>1. /\ w \in Opened /\ row \in Dossier /\ e \in Event /\ dossiers' = [dossiers EXCEPT ![w] = Logged(row, e)]
      /\ UNCHANGED <<items, given, doubled, cases, studies, parts>>
      /\ DOMAIN call' = Calls /\ \A d \in Calls : call'[d] = call[d] \/ call'[d].pc = "done"
      /\ row.of = dossiers[w].of /\ row.consented = dossiers[w].consented /\ row.fields = dossiers[w].fields
      /\ row.scopes = dossiers[w].scopes /\ row.snapshot = dossiers[w].snapshot
      /\ row.status \in Gone => dossiers[w].consented
  BY DEF QuietlyWritten
<1>2. w \in Requests /\ FileTyped
  BY <1>1 DEF Opened, FileHeld, FileBase
<1>3. /\ dossiers' \in [Requests -> Dossier]
      /\ \A v \in Requests : v # w => dossiers'[v] = dossiers[v]
      /\ dossiers'[w].of = row.of /\ dossiers'[w].status = row.status
      /\ dossiers'[w].consented = row.consented /\ dossiers'[w].fields = row.fields
      /\ dossiers'[w].scopes = row.scopes /\ dossiers'[w].snapshot = row.snapshot
  BY Zenon, <1>1, <1>2, RowWritten
<1>4. FileTyped'
  BY <1>1, <1>2, <1>3 DEF FileTyped
<1>5. DossierOk(w)'
  <2>1. DossierOk(w)
    BY <1>2 DEF FileHeld, DossiersHeld
  <2> QED
    BY <1>1, <1>3, <2>1 DEF DossierOk
<1>6. AttachedOnce'
  BY <1>1 DEF FileHeld, ItemsHeld, AttachedOnce
<1>7. \A d \in Calls : call'[d].pc \notin {"verify", "connecting"}
  BY <1>1, NoConnectorCalls
<1>8. FileSettles(w)
  BY <1>1, <1>2, <1>3, <1>4, <1>5, <1>6, <1>7 DEF FileSettles, FileFlight
<1> QED
  BY <1>8, FileEnds

LEMMA DoneCalls ==
  ASSUME FileHeld, NEW c \in Calls, Finish(c)
  PROVE DOMAIN call' = Calls /\ \A d \in Calls : call'[d] = call[d] \/ call'[d].pc = "done"
BY FinishCalls DEF FileHeld, FileBase

LEMMA MovesHeld ==
  ASSUME FileHeld, "file" \in parts, NEW c \in Calls, Moves(c), UNCHANGED <<cases, studies, parts>>
  PROVE FileHeld'
<1>1. PICK v \in Opened : \E t \in Passed(v) :
        dossiers' = [Log(v, "moved") EXCEPT ![v].status = t] /\ Finish(c) /\ UNCHANGED <<items, given, doubled>>
  BY Zenon DEF Moves
<1>2. PICK t \in Passed(v) :
        dossiers' = [Log(v, "moved") EXCEPT ![v].status = t] /\ Finish(c) /\ UNCHANGED <<items, given, doubled>>
  BY <1>1
<1>3. v \in Requests /\ dossiers[v] \in Dossier /\ dossiers \in [Requests -> Dossier]
  BY OpenedIs DEF FileHeld, FileBase, FileTyped
<1>4. t \in Workflow!Status /\ (t \in Gone => dossiers[v].consented)
  BY PassedTo
<1>5. PICK row : row = [dossiers[v] EXCEPT !.status = t]
  BY Zenon
<1>6. /\ row \in Dossier /\ row.status = t /\ row.of = dossiers[v].of /\ row.consented = dossiers[v].consented
      /\ row.fields = dossiers[v].fields /\ row.scopes = dossiers[v].scopes /\ row.snapshot = dossiers[v].snapshot
  BY <1>3, <1>4, <1>5 DEF Dossier
<1>7. dossiers' = [dossiers EXCEPT ![v] = Logged(row, "moved")]
  <2>1. [Logged(dossiers[v], "moved") EXCEPT !.status = t] = Logged(row, "moved")
    BY Zenon, <1>3, <1>5 DEF Logged, Dossier
  <2> QED
    BY Zenon, <1>2, <1>3, <2>1 DEF Log
<1>8. QuietlyWritten(v, row, "moved")
  BY Zenon, <1>2, <1>4, <1>6, <1>7, DoneCalls DEF QuietlyWritten, Event
<1> QED
  BY <1>8, QuietEnds

\* What the organization or an administrator notes.
LEMMA PutHeld ==
  ASSUME FileHeld, "file" \in parts, NEW c \in Calls, NEW v \in Opened, NEW e \in Event, NEW row, Put(c, v, e, row),
         UNCHANGED <<cases, studies, parts>>,
         \/ row = dossiers[v]
         \/ \E p \in Staff \cup {None} : row = [dossiers[v] EXCEPT !.assignee = p]
         \/ \E n \in BOOLEAN : row = [dossiers[v] EXCEPT !.note = n] \/ row = [dossiers[v] EXCEPT !.urgent = n]
  PROVE FileHeld'
<1>1. v \in Requests /\ dossiers[v] \in Dossier
  BY OpenedIs DEF FileHeld, FileBase, FileTyped
<1>2. /\ row \in Dossier /\ row.status = dossiers[v].status /\ row.of = dossiers[v].of /\ row.consented = dossiers[v].consented
      /\ row.fields = dossiers[v].fields /\ row.scopes = dossiers[v].scopes /\ row.snapshot = dossiers[v].snapshot
  <2>1. CASE \E p \in Staff \cup {None} : row = [dossiers[v] EXCEPT !.assignee = p]
    BY <1>1, <2>1 DEF Dossier
  <2>2. CASE \E n \in BOOLEAN : row = [dossiers[v] EXCEPT !.note = n]
    BY <1>1, <2>2 DEF Dossier
  <2>3. CASE \E n \in BOOLEAN : row = [dossiers[v] EXCEPT !.urgent = n]
    BY <1>1, <2>3 DEF Dossier
  <2> QED
    BY <1>1, <2>1, <2>2, <2>3
<1>3. dossiers[v].status \in Gone => dossiers[v].consented
  BY Zenon, <1>1 DEF FileHeld, DossiersHeld, DossierOk
<1>4. QuietlyWritten(v, row, e)
  BY <1>2, <1>3, DoneCalls DEF Put, QuietlyWritten
<1> QED
  BY <1>4, QuietEnds

LEMMA PutsHeld ==
  ASSUME FileHeld, "file" \in parts, NEW c \in Calls, UNCHANGED <<cases, studies, parts>>,
         AssignReviewer(c) \/ UpdateInternalNote(c) \/ ChangePriority(c) \/ AdminRemark(c)
  PROVE FileHeld'
<1>1. {"assigned", "noted", "hurried", "urged", "remarked", "opened"} \subseteq Event
  BY DEF Event
<1>2. CASE AssignReviewer(c)
  BY <1>1, <1>2, PutHeld DEF AssignReviewer, Within
<1>3. CASE UpdateInternalNote(c)
  BY <1>1, <1>3, PutHeld DEF UpdateInternalNote, Within
<1>4. CASE ChangePriority(c)
  BY <1>1, <1>4, PutHeld DEF ChangePriority
<1>5. CASE AdminRemark(c)
  BY <1>1, <1>5, PutHeld DEF AdminRemark
<1> QED
  BY <1>2, <1>3, <1>4, <1>5

LEMMA PortalHeld ==
  ASSUME FileHeld, "file" \in parts, OpenPortal, UNCHANGED <<cases, studies, parts>>
  PROVE FileHeld'
<1>1. PICK v \in Requests :
        Within(v) /\ dossiers' = [Log(v, "opened") EXCEPT ![v].opened = TRUE] /\ UNCHANGED <<items, given, doubled, call>>
  BY Zenon DEF OpenPortal
<1>2. v \in Opened
  BY <1>1 DEF Within
<1>3. v \in Requests /\ dossiers[v] \in Dossier /\ dossiers \in [Requests -> Dossier]
  BY <1>2, OpenedIs DEF FileHeld, FileBase, FileTyped
<1>5. PICK row : row = [dossiers[v] EXCEPT !.opened = TRUE]
  BY Zenon
<1>6. /\ row \in Dossier /\ row.status = dossiers[v].status /\ row.of = dossiers[v].of /\ row.consented = dossiers[v].consented
      /\ row.fields = dossiers[v].fields /\ row.scopes = dossiers[v].scopes /\ row.snapshot = dossiers[v].snapshot
  BY Zenon, <1>3, <1>5 DEF Dossier
<1>7. dossiers' = [dossiers EXCEPT ![v] = Logged(row, "opened")]
  <2>1. [Logged(dossiers[v], "opened") EXCEPT !.opened = TRUE] = Logged(row, "opened")
    BY Zenon, <1>3, <1>5 DEF Logged, Dossier
  <2> QED
    BY Zenon, <1>1, <1>3, <2>1 DEF Log
<1>8. dossiers[v].status \in Gone => dossiers[v].consented
  BY Zenon, <1>2 DEF FileHeld, DossiersHeld, DossierOk, Opened
<1>9. QuietlyWritten(v, row, "opened")
  BY Zenon, <1>1, <1>2, <1>6, <1>7, <1>8 DEF QuietlyWritten, Event, FileHeld, FileBase
<1> QED
  BY <1>9, QuietEnds

(* ---- the candidate's evidence and consent ---- *)
LEMMA ReferencesAre ==
  ASSUME NEW v \in Requests
  PROVE References(v) \subseteq Docs
<1>1. ClaimFiles(dossiers[v].of) \subseteq Files \cup {"transcript"}
  BY DEF ClaimFiles, Completed, FilesOf
<1>2. Current \subseteq Papers
  BY DEF Current, Kept
<1> QED
  BY <1>1, <1>2 DEF References, Docs

LEMMA LiveTyped ==
  ASSUME FileHeld, "file" \in parts, NEW x \in Claims
  PROVE Live(x) \in Versions \cup {None} /\ (There(x) => Live(x) # None)
<1>1. /\ cases \in [Cases -> Case] /\ \A y \in Cases : cases[y].there => cases[y].dates # None
      /\ studies \in [Studies -> Study]
  BY DEF FileHeld, ClaimsDated
<1>2. CASE x \in Cases
  BY <1>1, <1>2 DEF Live, There, Versions, Case
<1>3. CASE x \notin Cases
  <2>1. x \in Studies /\ studies[x].version \in 1..MaxEdits
    BY <1>1, <1>3 DEF Claims, Study
  <2> QED
    BY <1>3, <2>1, NullAssumption DEF Live, Versions
<1> QED
  BY <1>2, <1>3

LEMMA AddEvidenceHeld ==
  ASSUME FileHeld, "file" \in parts, NEW c \in Calls, Turn(c), AddEvidence(c), UNCHANGED <<cases, studies, parts>>
  PROVE FileHeld'
<1>1. PICK v \in Requests, s \in Scopes :
        /\ Editable(v)
        /\ \E d \in References(v) : ~Referred(v, d) /\ OnFile(c, "exhibit", v, None, [scope |-> s, doc |-> d])
  BY Zenon DEF AddEvidence
<1>2. PICK d \in References(v) : ~Referred(v, d) /\ OnFile(c, "exhibit", v, None, [scope |-> s, doc |-> d])
  BY <1>1
<1>3. PICK k : k = Call("exhibit", dossiers[v].of, v, None, [scope |-> s, doc |-> d])
  OBVIOUS
<1>4. k.pc = "exhibit" /\ k.case = dossiers[v].of /\ k.on = v /\ k.arg.scope = s /\ k.arg.doc = d
  BY <1>3 DEF Call
<1>5. FileStarts(c, k)
  BY <1>2, <1>3, <1>4 DEF OnFile, FileStarts
<1>6. v \in Opened /\ d \in Docs
  BY <1>1, ReferencesAre DEF Editable
<1>7. d.file # None => \A i \in Evidence(v) : items[i].file # d.file
  BY <1>2 DEF Referred
<1>8. FileCall(k) /\ DossierCall(k) /\ ItemCall(k)
  BY <1>4, <1>6, <1>7 DEF FileCall, DossierCall, ItemCall
<1> QED
  BY <1>4, <1>5, <1>8, FileBegins DEF FileFlight

LEMMA UpdateEvidenceHeld ==
  ASSUME FileHeld, "file" \in parts, NEW c \in Calls, Turn(c), UpdateEvidence(c), UNCHANGED <<cases, studies, parts>>
  PROVE FileHeld'
<1>1. PICK v \in Requests :
        /\ Editable(v)
        /\ \E i \in Evidence(v), s \in Scopes, d \in References(v) \cup {None} :
             /\ d # None /\ d.file # None => \A j \in Evidence(v) \ {i} : items[j].file # d.file
             /\ OnFile(c, "amend", v, items[i], [row |-> i, scope |-> s, doc |-> d])
  BY Zenon DEF UpdateEvidence
<1>2. PICK i \in Evidence(v), s \in Scopes, d \in References(v) \cup {None} :
        /\ d # None /\ d.file # None => \A j \in Evidence(v) \ {i} : items[j].file # d.file
        /\ OnFile(c, "amend", v, items[i], [row |-> i, scope |-> s, doc |-> d])
  BY <1>1, Zenon
<1>3. PICK k : k = Call("amend", dossiers[v].of, v, items[i], [row |-> i, scope |-> s, doc |-> d])
  OBVIOUS
<1>4. /\ k.pc = "amend" /\ k.case = dossiers[v].of /\ k.on = v /\ k.view = items[i]
      /\ k.arg.row = i /\ k.arg.scope = s /\ k.arg.doc = d
  BY <1>3 DEF Call
<1>5. FileStarts(c, k)
  BY <1>2, <1>3, <1>4 DEF OnFile, FileStarts
<1>6. v \in Opened /\ d \in Docs \cup {None} /\ i \in Items /\ items[i].of = v
  BY <1>1, ReferencesAre DEF Editable, Evidence
<1>8. FileCall(k) /\ DossierCall(k) /\ ItemCall(k)
  BY <1>2, <1>4, <1>6 DEF FileCall, DossierCall, ItemCall
<1> QED
  BY <1>4, <1>5, <1>8, FileBegins DEF FileFlight

LEMMA SendForReviewHeld ==
  ASSUME FileHeld, "file" \in parts, NEW c \in Calls, Turn(c), SendForReview(c), UNCHANGED <<cases, studies, parts>>
  PROVE FileHeld'
<1>1. PICK v \in Opened, f \in BOOLEAN, S \in SUBSET Scopes :
        /\ There(dossiers[v].of)
        /\ OnFile(c, "consent", v, dossiers[v], [scopes |-> S, fields |-> f, version |-> Live(dossiers[v].of)])
  BY Zenon DEF SendForReview
<1>2. PICK a : a = [scopes |-> S, fields |-> f, version |-> Live(dossiers[v].of)]
  BY Zenon
<1>3. PICK k : k = Call("consent", dossiers[v].of, v, dossiers[v], a)
  OBVIOUS
<1>4. k.pc = "consent" /\ k.case = dossiers[v].of /\ k.on = v /\ k.arg = a
  BY <1>3 DEF Call
<1>5. FileStarts(c, k)
  BY <1>1, <1>2, <1>3, <1>4 DEF OnFile, FileStarts
<1>6. Live(dossiers[v].of) \in Versions /\ Live(dossiers[v].of) # None
  <2>1. dossiers[v].of \in Claims
    BY OpenedIs DEF FileHeld, FileBase
  <2> QED
    BY <1>1, <2>1, LiveTyped
<1>7. a \in Given /\ a.version = Live(dossiers[v].of)
  BY <1>2, <1>6 DEF Given
<1>8. FileCall(k) /\ DossierCall(k) /\ ItemCall(k)
  BY <1>4, <1>6, <1>7 DEF FileCall, DossierCall, ItemCall
<1> QED
  BY <1>4, <1>5, <1>8, FileBegins DEF FileFlight

\* Other calls about the request are marked.
LEMMA OthersMarked ==
  ASSUME FileHeld, NEW c \in Calls, call[c].pc \in FileFlight, Finish(c), NEW d \in Calls,
         call'[d].pc \in FileFlight, call'[d].on = call[c].on
  PROVE call[c].on \in doubled
<1>1. DOMAIN call = Calls
  BY DEF FileHeld, FileBase
<1>2. c # d /\ call'[d] = call[d]
  BY <1>1, FinishCalls DEF FileFlight
<1> QED
  BY <1>2 DEF FileHeld, FileBase, FilesApart

LEMMA CommitEvidenceHeld ==
  ASSUME FileHeld, "file" \in parts, NEW c \in Calls, CommitEvidence(c), UNCHANGED <<cases, studies, parts>>
  PROVE FileHeld'
<1>1. PICK k : k = call[c]
  OBVIOUS
<1>2. k.pc = "exhibit" /\ Finish(c) /\ UNCHANGED <<given, doubled>> /\ dossiers' = Log(k.on, "edited")
  BY <1>1 DEF CommitEvidence
<1>3. PICK i \in Items : items[i] = NoExhibit /\ items' = [items EXCEPT ![i] = [of |-> k.on, scope |-> k.arg.scope,
                                                             file |-> k.arg.doc.file, paper |-> k.arg.doc.paper]]
  BY Zenon, <1>1 DEF CommitEvidence
<1>4. k.on \in Opened /\ ItemCall(k)
  BY <1>1, <1>2 DEF FileHeld, FileBase, FileCall, FileFlight, ItemsHeld, ItemCalls
<1>5. PICK w : w = k.on
  OBVIOUS
<1>6. /\ w \in Requests /\ dossiers[w] \in Dossier /\ dossiers \in [Requests -> Dossier] /\ items \in [Items -> Exhibit] /\ FileTyped
  BY <1>4, <1>5 DEF Opened, FileHeld, FileBase, FileTyped
<1>7. PICK r : r = [of |-> k.on, scope |-> k.arg.scope, file |-> k.arg.doc.file, paper |-> k.arg.doc.paper]
  BY Zenon
<1>8. /\ k.arg.scope \in Scopes /\ k.arg.doc \in Docs
      /\ w \notin doubled /\ k.arg.doc.file # None => \A j \in Evidence(w) : items[j].file # k.arg.doc.file
  BY <1>2, <1>4, <1>5 DEF ItemCall
<1>9. /\ r \in Exhibit /\ r.of = w /\ r.file = k.arg.doc.file /\ (r.file = None \/ r.paper = None)
  BY <1>5, <1>6, <1>7, <1>8 DEF Exhibit, Docs
<1>10. /\ items' \in [Items -> Exhibit] /\ items'[i] = r /\ items[i].of = None
       /\ \A j \in Items : j # i => items'[j] = items[j]
  BY <1>3, <1>6, <1>7, <1>9 DEF NoExhibit
<1>11. dossiers' = [dossiers EXCEPT ![w] = Logged(dossiers[w], "edited")]
  BY <1>2, <1>5 DEF Log
<1>12. "edited" \in Event
  BY DEF Event
<1>13. /\ dossiers' \in [Requests -> Dossier] /\ \A v \in Requests : v # w => dossiers'[v] = dossiers[v]
       /\ dossiers'[w].of = dossiers[w].of /\ dossiers'[w].status = dossiers[w].status
       /\ dossiers'[w].consented = dossiers[w].consented /\ dossiers'[w].fields = dossiers[w].fields
       /\ dossiers'[w].scopes = dossiers[w].scopes /\ dossiers'[w].snapshot = dossiers[w].snapshot
  BY Zenon, <1>6, <1>11, <1>12, RowWritten
<1>14. DossierOk(w)'
  <2>1. DossierOk(w)
    BY <1>6 DEF FileHeld, DossiersHeld
  <2> QED
    BY <1>2, <1>13, <2>1 DEF DossierOk, Opened
<1>15. AttachedOnce'
  <2> SUFFICES ASSUME NEW a \in Items, NEW b \in Items, items'[a].of # None, items'[a].of \notin doubled
               PROVE /\ items'[a].file = None \/ items'[a].paper = None
                     /\ a # b /\ items'[a].of = items'[b].of => items'[a].file = None \/ items'[a].file # items'[b].file
    BY <1>2 DEF AttachedOnce
  <2>1. CASE a # i /\ b # i
    BY <2>1, <1>10 DEF FileHeld, ItemsHeld, AttachedOnce
  <2>2. CASE a = i
    <3>1. b # i /\ items'[b].of = w /\ w \notin doubled => r.file = None \/ r.file # items'[b].file
      BY <1>8, <1>9, <1>10 DEF Evidence
    <3> QED
      BY <2>2, <3>1, <1>9, <1>10
  <2>3. CASE a # i /\ b = i
    <3>1. items'[a] = items[a] /\ (items[a].file = None \/ items[a].paper = None)
      BY <2>3, <1>10 DEF FileHeld, ItemsHeld, AttachedOnce
    <3>2. items[a].of = w /\ w \notin doubled => r.file = None \/ r.file # items[a].file
      BY <1>8, <1>9 DEF Evidence
    <3> QED
      BY <2>3, <3>1, <3>2, <1>9, <1>10
  <2> QED
    BY <2>1, <2>2, <2>3
<1>16. \A d \in Calls : call'[d].pc \in {"exhibit", "amend"} /\ call'[d].on = w => w \in doubled
  BY <1>1, <1>2, <1>5, OthersMarked DEF FileFlight
<1>17. FileTyped'
  BY <1>2, <1>6, <1>10, <1>13 DEF FileTyped
<1>18. DOMAIN call' = Calls /\ \A d \in Calls : call'[d] = call[d] \/ call'[d].pc = "done"
  BY <1>2, DoneCalls
<1>19. FileSettles(w)
  BY <1>2, <1>6, <1>9, <1>10, <1>13, <1>14, <1>15, <1>16, <1>17, <1>18 DEF FileSettles, FileFlight
<1> QED
  BY <1>19, FileEnds

LEMMA CommitAmendmentHeld ==
  ASSUME FileHeld, "file" \in parts, NEW c \in Calls, CommitAmendment(c), UNCHANGED <<cases, studies, parts>>
  PROVE FileHeld'
<1>1. PICK k : k = call[c]
  OBVIOUS
<1>2. /\ k.pc = "amend" /\ Finish(c) /\ UNCHANGED <<given, doubled>> /\ dossiers' = Log(k.on, "edited")
      /\ items' = [items EXCEPT ![k.arg.row] = Amended(k, items[k.arg.row])]
  BY <1>1 DEF CommitAmendment
<1>4. k.on \in Opened /\ ItemCall(k)
  BY <1>1, <1>2 DEF FileHeld, FileBase, FileCall, FileFlight, ItemsHeld, ItemCalls
<1>5. PICK w, i, d : w = k.on /\ i = k.arg.row /\ d = k.arg.doc
  OBVIOUS
<1>6. /\ w \in Requests /\ dossiers[w] \in Dossier /\ dossiers \in [Requests -> Dossier] /\ items \in [Items -> Exhibit] /\ FileTyped
  BY <1>4, <1>5 DEF Opened, FileHeld, FileBase, FileTyped
<1>7. PICK r : r = Amended(k, items[i])
  OBVIOUS
<1>8. /\ i \in Items /\ items[i].of = w /\ k.arg.scope \in Scopes /\ d \in Docs \cup {None}
      /\ w \notin doubled =>
           /\ k.view = items[i]
           /\ d # None /\ d.file # None => \A j \in Evidence(w) \ {i} : items[j].file # d.file
  BY <1>2, <1>4, <1>5 DEF ItemCall
<1>9. /\ r \in Exhibit /\ r.of = w
      /\ w \notin doubled => \/ r.file = items[i].file /\ r.paper = items[i].paper
                             \/ d # None /\ d \in Docs /\ r.file = d.file /\ r.paper = d.paper
  <2>1. items[i] \in Exhibit
    BY <1>6, <1>8
  <2>2. CASE d = None
    <3>1. r = [items[i] EXCEPT !.scope = k.arg.scope]
      BY <1>5, <1>7, <2>2 DEF Amended
    <3> QED
      BY <1>8, <2>1, <3>1 DEF Exhibit
  <2>3. CASE d # None
    <3>1. PICK f, p : f = (IF d.file # k.view.file THEN d.file ELSE items[i].file)
                      /\ p = (IF d.paper # k.view.paper THEN d.paper ELSE items[i].paper)
      OBVIOUS
    <3>2. r = [items[i] EXCEPT !.scope = k.arg.scope, !.file = f, !.paper = p]
      BY <1>5, <1>7, <2>3, <3>1 DEF Amended
    <3>3. d \in Docs
      BY <1>8, <2>3
    <3>4. f \in Files \cup {"transcript", None} /\ p \in Papers \cup {None}
      BY <2>1, <3>1, <3>3 DEF Docs, Exhibit
    <3>5. w \notin doubled => f = d.file /\ p = d.paper
      BY <1>8, <3>1
    <3>6. r \in Exhibit /\ r.of = w /\ r.file = f /\ r.paper = p
      BY Zenon, <1>8, <2>1, <3>2, <3>4 DEF Exhibit
    <3> QED
      BY <2>3, <3>3, <3>5, <3>6
  <2> QED
    BY <2>2, <2>3
<1>10. /\ items' \in [Items -> Exhibit] /\ items'[i] = r /\ \A j \in Items : j # i => items'[j] = items[j]
  BY <1>2, <1>5, <1>6, <1>7, <1>8, <1>9
<1>11. dossiers' = [dossiers EXCEPT ![w] = Logged(dossiers[w], "edited")]
  BY <1>2, <1>5 DEF Log
<1>12. "edited" \in Event
  BY DEF Event
<1>13. /\ dossiers' \in [Requests -> Dossier] /\ \A v \in Requests : v # w => dossiers'[v] = dossiers[v]
       /\ dossiers'[w].of = dossiers[w].of /\ dossiers'[w].status = dossiers[w].status
       /\ dossiers'[w].consented = dossiers[w].consented /\ dossiers'[w].fields = dossiers[w].fields
       /\ dossiers'[w].scopes = dossiers[w].scopes /\ dossiers'[w].snapshot = dossiers[w].snapshot
  BY Zenon, <1>6, <1>11, <1>12, RowWritten
<1>14. DossierOk(w)'
  <2>1. DossierOk(w)
    BY <1>6 DEF FileHeld, DossiersHeld
  <2> QED
    BY <1>2, <1>13, <2>1 DEF DossierOk, Opened
<1>15. AttachedOnce'
  <2>0. /\ w \notin doubled => r.file = None \/ r.paper = None
        /\ w \notin doubled => \A j \in Items : j # i /\ items[j].of = w => r.file = None \/ r.file # items[j].file
    <3>1. CASE r.file = items[i].file /\ r.paper = items[i].paper
      <4>1. w # None
        BY <1>6, NullAssumption
      <4> QED
        BY <3>1, <4>1, <1>8 DEF FileHeld, ItemsHeld, AttachedOnce
    <3>2. CASE d # None /\ d \in Docs /\ r.file = d.file /\ r.paper = d.paper
      BY <3>2, <1>8 DEF Evidence, Docs
    <3> QED
      BY <3>1, <3>2, <1>9
  <2> SUFFICES ASSUME NEW a \in Items, NEW b \in Items, items'[a].of # None, items'[a].of \notin doubled
               PROVE /\ items'[a].file = None \/ items'[a].paper = None
                     /\ a # b /\ items'[a].of = items'[b].of => items'[a].file = None \/ items'[a].file # items'[b].file
    BY <1>2 DEF AttachedOnce
  <2>1. CASE a # i /\ b # i
    BY <2>1, <1>10 DEF FileHeld, ItemsHeld, AttachedOnce
  <2>2. CASE a = i
    BY <2>0, <2>2, <1>9, <1>10
  <2>3. CASE a # i /\ b = i
    <3>1. items'[a] = items[a] /\ (items[a].file = None \/ items[a].paper = None)
      BY <2>3, <1>10 DEF FileHeld, ItemsHeld, AttachedOnce
    <3> QED
      BY <2>0, <2>3, <3>1, <1>9, <1>10
  <2> QED
    BY <2>1, <2>2, <2>3
<1>16. \A e \in Calls : call'[e].pc \in {"exhibit", "amend"} /\ call'[e].on = w => w \in doubled
  BY <1>1, <1>2, <1>5, OthersMarked DEF FileFlight
<1>17. FileTyped'
  BY <1>2, <1>6, <1>10, <1>13 DEF FileTyped
<1>18. DOMAIN call' = Calls /\ \A e \in Calls : call'[e] = call[e] \/ call'[e].pc = "done"
  BY <1>2, DoneCalls
<1>19. FileSettles(w)
  BY <1>2, <1>6, <1>8, <1>9, <1>10, <1>13, <1>14, <1>15, <1>16, <1>17, <1>18 DEF FileSettles, FileFlight
<1> QED
  BY <1>19, FileEnds

LEMMA CommitConsentHeld ==
  ASSUME FileHeld, "file" \in parts, NEW c \in Calls, CommitConsent(c), UNCHANGED <<cases, studies, parts>>
  PROVE FileHeld'
<1>1. PICK k : k = call[c]
  OBVIOUS
<1>2. /\ k.pc = "consent" /\ Finish(c) /\ UNCHANGED <<items, doubled>>
      /\ given' = [given EXCEPT ![k.on] = [k.arg EXCEPT !.version = Live(k.case)]]
      /\ dossiers' = [Log(k.on, "moved") EXCEPT ![k.on].status = "PENDING_ADMIN_REVIEW",
           ![k.on].consented = TRUE, ![k.on].fields = k.arg.fields, ![k.on].scopes = k.arg.scopes,
           ![k.on].snapshot = k.arg.version]
  BY <1>1 DEF CommitConsent
<1>3. k.on \in Opened /\ k.case = dossiers[k.on].of /\ DossierCall(k)
  BY <1>1, <1>2 DEF FileHeld, FileBase, FileCall, FileFlight, DossiersHeld, DossierCalls
<1>4. PICK w, a : w = k.on /\ a = k.arg
  OBVIOUS
<1>5. /\ w \in Requests /\ dossiers[w] \in Dossier /\ dossiers \in [Requests -> Dossier] /\ given \in [Requests -> Given] /\ FileTyped
  BY <1>3, <1>4 DEF Opened, FileHeld, FileBase, FileTyped
<1>6. a \in Given /\ a.version # None /\ (w \notin doubled => a.version = Live(k.case))
  BY <1>2, <1>3, <1>4 DEF DossierCall
<1>7. Live(k.case) \in Versions \cup {None}
  <2>1. k.case \in Claims
    BY <1>3, OpenedIs DEF FileHeld, FileBase
  <2> QED
    BY <2>1, LiveTyped
<1>8. PICK row : row = [dossiers[w] EXCEPT !.status = "PENDING_ADMIN_REVIEW", !.consented = TRUE, !.fields = a.fields,
                                           !.scopes = a.scopes, !.snapshot = a.version]
  OBVIOUS
<1>9. a.scopes \in SUBSET Scopes /\ a.fields \in BOOLEAN /\ a.version \in Versions \cup {None}
  BY <1>6 DEF Given
<1>10. "PENDING_ADMIN_REVIEW" \in Workflow!Status /\ "PENDING_ADMIN_REVIEW" \notin Gone /\ "moved" \in Event
  BY DEF Workflow!Status, Gone, Workflow!OrganizationVisible, Event
<1>11. row \in Dossier
  BY Zenon, <1>5, <1>8, <1>9, <1>10 DEF Dossier
<1>12. /\ row.of = dossiers[w].of /\ row.status = "PENDING_ADMIN_REVIEW" /\ row.consented /\ row.fields = a.fields
       /\ row.scopes = a.scopes /\ row.snapshot = a.version
  BY <1>5, <1>8 DEF Dossier
<1>13. dossiers' = [dossiers EXCEPT ![w] = Logged(row, "moved")]
  <2>1. PICK l : l = Logged(dossiers[w], "moved")
    OBVIOUS
  <2>2. [l EXCEPT !.status = "PENDING_ADMIN_REVIEW", !.consented = TRUE, !.fields = a.fields,
                  !.scopes = a.scopes, !.snapshot = a.version] = Logged(row, "moved")
    BY Zenon, <1>5, <1>8, <2>1 DEF Logged, Dossier
  <2>3. Log(k.on, "moved") = [dossiers EXCEPT ![w] = l]
    BY <1>4, <2>1 DEF Log
  <2>4. dossiers' = [[dossiers EXCEPT ![w] = l] EXCEPT ![w].status = "PENDING_ADMIN_REVIEW",
           ![w].consented = TRUE, ![w].fields = a.fields, ![w].scopes = a.scopes, ![w].snapshot = a.version]
    BY Zenon, <1>2, <1>4, <2>3
  <2> QED
    BY Zenon, <1>5, <2>2, <2>4
<1>14. /\ dossiers' \in [Requests -> Dossier] /\ \A v \in Requests : v # w => dossiers'[v] = dossiers[v]
       /\ dossiers'[w].of = dossiers[w].of /\ dossiers'[w].status = "PENDING_ADMIN_REVIEW"
       /\ dossiers'[w].consented /\ dossiers'[w].fields = a.fields
       /\ dossiers'[w].scopes = a.scopes /\ dossiers'[w].snapshot = a.version
  <2>1. /\ dossiers' \in [Requests -> Dossier] /\ \A v \in Requests : v # w => dossiers'[v] = dossiers[v]
        /\ dossiers'[w].of = row.of /\ dossiers'[w].status = row.status
        /\ dossiers'[w].consented = row.consented /\ dossiers'[w].fields = row.fields
        /\ dossiers'[w].scopes = row.scopes /\ dossiers'[w].snapshot = row.snapshot
    BY Zenon, <1>5, <1>10, <1>11, <1>13, RowWritten
  <2> QED
    BY Zenon, <1>12, <2>1
<1>15. PICK g : g = [a EXCEPT !.version = Live(k.case)]
  BY Zenon
<1>16. g \in Given /\ g = [scopes |-> a.scopes, fields |-> a.fields, version |-> Live(k.case)]
  BY <1>6, <1>7, <1>15 DEF Given
<1>17. /\ given' \in [Requests -> Given] /\ given'[w] = g /\ \A v \in Requests : v # w => given'[v] = given[v]
  BY <1>2, <1>4, <1>5, <1>15, <1>16
<1>18. DossierOk(w)'
  <2>1. w \notin doubled' => given'[w] = [scopes |-> a.scopes, fields |-> a.fields, version |-> a.version]
    BY <1>2, <1>6, <1>16, <1>17
  <2> QED
    BY <1>6, <1>10, <1>14, <2>1 DEF DossierOk
<1>19. FileTyped'
  BY Zenon, <1>2, <1>5, <1>14, <1>17 DEF FileTyped
<1>20. AttachedOnce'
  BY <1>2 DEF FileHeld, ItemsHeld, AttachedOnce
<1>21. DOMAIN call' = Calls /\ \A e \in Calls : call'[e] = call[e] \/ call'[e].pc = "done"
  BY <1>2, DoneCalls
<1>22. \A d \in Calls : call'[d].pc \notin {"verify", "connecting"}
  BY <1>21, NoConnectorCalls
<1>23. FileSettles(w)
  BY Zenon, <1>2, <1>5, <1>14, <1>17, <1>18, <1>19, <1>20, <1>21, <1>22 DEF FileSettles, FileFlight
<1> QED
  BY <1>23, FileEnds

(* ---- the claim itself ---- *)
LEMMA EditClaimHeld ==
  ASSUME FileHeld, "file" \in parts, NEW c \in Calls, Turn(c), EditClaim(c), UNCHANGED parts
  PROVE FileHeld'
<1>1. \E k : /\ call' = [call EXCEPT ![c] = k]
             /\ \/ k.pc = "update" /\ k.case \in Cases /\ k.arg \in Dates
                \/ k.pc = "edit" /\ k.case \in Studies
  <2>1. CASE UpdateCase(c)
    <3>1. PICK x \in Active, d \in Dates : Begin(c, Call("update", x, x, cases[x], d))
      BY Zenon, <2>1 DEF UpdateCase
    <3>2. PICK k : k = Call("update", x, x, cases[x], d)
      OBVIOUS
    <3>3. call' = [call EXCEPT ![c] = k] /\ k.pc = "update" /\ k.case \in Cases /\ k.arg \in Dates
      BY <3>1, <3>2 DEF Begin, Call, Active
    <3> QED
      BY Zenon, <3>3
  <2>2. CASE EditStudy(c)
    <3>1. PICK s \in Records : OnStudy(c, s, "edit", Recovering(s))
      BY Zenon, <2>2 DEF EditStudy
    <3>2. PICK k : k = Call("edit", s, None, studies[s], Recovering(s))
      OBVIOUS
    <3>3. call' = [call EXCEPT ![c] = k] /\ k.pc = "edit" /\ k.case \in Studies
      BY <3>1, <3>2 DEF OnStudy, Call, Records
    <3> QED
      BY Zenon, <3>3
  <2> QED
    BY <2>1, <2>2 DEF EditClaim
<1>2. PICK k : /\ call' = [call EXCEPT ![c] = k]
               /\ \/ k.pc = "update" /\ k.case \in Cases /\ k.arg \in Dates
                  \/ k.pc = "edit" /\ k.case \in Studies
  BY Zenon, <1>1
<1>3. /\ DOMAIN call' = Calls /\ call'[c] = k /\ \A d \in Calls : d # c => call'[d] = call[d]
  BY <1>2 DEF FileHeld, FileBase
<1>4. UNCHANGED <<dossiers, items, given, cases, studies, parts>>
  BY DEF EditClaim, UpdateCase, EditStudy, OnStudy, studyVars
<1>5. doubled' = doubled \cup {v \in Opened : k.case = dossiers[v].of /\ Met(v) # {}}
  BY <1>3 DEF EditClaim
<1>6. FileBase'
  <2>1. doubled \subseteq doubled' /\ doubled' \subseteq Requests
    BY <1>5 DEF FileHeld, FileBase, FileTyped, Opened
  <2>2. PartsAlone' /\ FileTyped'
    BY <1>4, <2>1 DEF FileHeld, FileBase, PartsAlone, FileTyped
  <2>3. \A d \in Calls : call'[d].pc \in FileFlight => d # c /\ call'[d] = call[d] /\ FileCall(call[d])
    BY <1>2, <1>3 DEF FileHeld, FileBase, FileFlight
  <2>4. \A d \in Calls : call'[d].pc \in FileFlight => FileCall(call[d])'
    BY <1>4, <2>3 DEF FileCall, Opened
  <2>5. FilesApart'
    <3> SUFFICES ASSUME NEW x \in Calls, NEW y \in Calls, x # y, call'[x].pc \in FileFlight
                 PROVE /\ call'[y].pc \in FileFlight /\ call'[y].on = call'[x].on => call'[x].on \in doubled'
                       /\ call'[y].pc \in {"update", "edit"} /\ "file" \in parts /\ call'[y].case = dossiers[call'[x].on].of =>
                            call'[x].on \in doubled'
      BY <1>4 DEF FilesApart
    <3>1. x # c /\ call'[x] = call[x] /\ call[x].on \in Opened
      BY <2>3 DEF FileCall
    <3>2. CASE y # c
      BY <1>3, <2>1, <3>1, <3>2 DEF FileHeld, FileBase, FilesApart
    <3>3. CASE y = c
      <4>1. x \in Flying
        BY <3>1 DEF Flying, FileFlight
      <4>2. call[x].on \in Met(call[x].on)
        BY <4>1 DEF Met
      <4>3. k.case = dossiers[call[x].on].of => call[x].on \in doubled'
        BY <1>5, <3>1, <4>2
      <4>4. k.pc \notin FileFlight
        BY <1>2 DEF FileFlight
      <4> QED
        BY <1>3, <3>1, <3>3, <4>3, <4>4
    <3> QED
      BY <3>2, <3>3
  <2> QED
    BY <1>3, <2>2, <2>4, <2>5 DEF FileBase
<1>7. doubled \subseteq doubled'
  BY <1>5
<1>8. \A v \in Requests : DossierOk(v)'
  BY <1>4, <1>7 DEF FileHeld, DossiersHeld, DossierOk, Opened
<1>9. \A x : Live(x)' = Live(x)
  BY <1>4 DEF Live
<1>10. ASSUME NEW d \in Calls, call'[d].pc \in FileFlight PROVE DossierCall(call[d])' /\ ItemCall(call[d])'
  <2>1. PICK l : l = call'[d]
    OBVIOUS
  <2>2. DossierCall(l) /\ ItemCall(l)
    BY <1>2, <1>3, <1>10, <2>1 DEF FileHeld, DossiersHeld, DossierCalls, ItemsHeld, ItemCalls, FileFlight
  <2>3. DossierCall(l)'
    BY <1>4, <1>7, <1>9, <2>2 DEF DossierCall
  <2>4. ItemCall(l)'
    BY <1>4, <1>7, <2>2 DEF ItemCall, Evidence
  <2> QED
    BY <2>1, <2>3, <2>4 DEF DossierCall, ItemCall
<1>11. AttachedOnce'
  BY <1>4, <1>7 DEF FileHeld, ItemsHeld, AttachedOnce
<1>12. ClaimsDated'
  BY <1>2, <1>3, <1>4 DEF FileHeld, ClaimsDated
<1> QED
  BY <1>6, <1>8, <1>10, <1>11, <1>12 DEF FileHeld, DossiersHeld, DossierCalls, ItemsHeld, ItemCalls

\* A claim that changes is the one of the calls that are marked.
ClaimEnds(c) ==
  /\ call[c].pc \in {"update", "edit"} /\ Finish(c) /\ UNCHANGED <<dossiers, items, given, doubled, parts>>
  /\ cases' \in [Cases -> Case] /\ (\A x \in Cases : cases'[x].there => cases'[x].dates # None)
  /\ studies' \in [Studies -> Study]
  /\ \A x \in Cases \ {call[c].case} : cases'[x] = cases[x]
  /\ \A s \in Studies \ {call[c].case} : studies'[s] = studies[s]
LEMMA ClaimEndsHeld ==
  ASSUME FileHeld, "file" \in parts, NEW c \in Calls, ClaimEnds(c)
  PROVE FileHeld'
<1>1. /\ call[c].pc \in {"update", "edit"} /\ UNCHANGED <<dossiers, items, given, doubled, parts>>
      /\ \A x \in Cases \ {call[c].case} : cases'[x] = cases[x]
      /\ \A s \in Studies \ {call[c].case} : studies'[s] = studies[s]
  BY DEF ClaimEnds
<1>2. /\ DOMAIN call' = Calls /\ call'[c].pc = "done" /\ \A d \in Calls : d # c => call'[d] = call[d]
  BY FinishCalls DEF ClaimEnds, FileHeld, FileBase
<1>3. FileBase'
  <2>1. FileTyped'
    BY <1>1 DEF FileHeld, FileBase, FileTyped
  <2> QED
    BY <1>1, <1>2, <2>1, BaseStays DEF FileHeld, FileFlight
<1>4. \A v \in Requests : DossierOk(v)'
  BY <1>1 DEF FileHeld, DossiersHeld, DossierOk, Opened
<1>5. \A x \in Claims \ {call[c].case} : Live(x)' = Live(x)
  BY <1>1 DEF Live, Claims
<1>6. ASSUME NEW d \in Calls, call'[d].pc \in FileFlight PROVE DossierCall(call[d])' /\ ItemCall(call[d])'
  <2>1. PICK l : l = call'[d]
    OBVIOUS
  <2>2. l = call[d] /\ d # c /\ l.pc \in FileFlight
    BY <1>2, <1>6, <2>1 DEF FileFlight
  <2>3. DossierCall(l) /\ ItemCall(l) /\ l.case = dossiers[l.on].of /\ l.on \in Opened
    BY <2>2 DEF FileHeld, DossiersHeld, DossierCalls, ItemsHeld, ItemCalls, FileBase, FileCall
  <2>4. l.case = call[c].case => l.on \in doubled
    BY Zenon, <1>1, <2>2, <2>3 DEF FileHeld, FileBase, FilesApart
  <2>5. l.case # call[c].case => Live(l.case)' = Live(l.case)
    <3>1. l.case \in Claims
      BY <2>3, OpenedIs DEF FileHeld, FileBase
    <3> QED
      BY <1>5, <3>1
  <2>6. DossierCall(l)'
    BY <1>1, <2>3, <2>4, <2>5 DEF DossierCall
  <2>7. ItemCall(l)'
    BY <1>1, <2>3 DEF ItemCall, Evidence
  <2> QED
    BY <2>1, <2>6, <2>7 DEF DossierCall, ItemCall
<1>7. AttachedOnce'
  BY <1>1 DEF FileHeld, ItemsHeld, AttachedOnce
<1>8. ClaimsDated'
  BY <1>1, <1>2 DEF FileHeld, ClaimsDated, ClaimEnds
<1> QED
  BY <1>3, <1>4, <1>6, <1>7, <1>8 DEF FileHeld, DossiersHeld, DossierCalls, ItemsHeld, ItemCalls

LEMMA CommitClaimHeld ==
  ASSUME FileHeld, "file" \in parts, NEW c \in Calls, CommitClaim(c), UNCHANGED parts
  PROVE FileHeld'
<1>1. PICK k, x : k = call[c] /\ x = call[c].case
  OBVIOUS
<1>2. /\ cases \in [Cases -> Case] /\ \A y \in Cases : cases[y].there => cases[y].dates # None
      /\ studies \in [Studies -> Study]
      /\ k.pc = "update" => x \in Cases /\ k.arg \in Dates
      /\ k.pc = "edit" => x \in Studies
  BY <1>1 DEF FileHeld, ClaimsDated
<1>3. UNCHANGED <<dossiers, items, given, doubled>>
  BY DEF CommitClaim, fileVars
<1>4. CASE CommitUpdate(c) /\ UNCHANGED studyVars
  <2>1. k.pc = "update" /\ Finish(c) /\ studies' = studies
    BY <1>1, <1>4 DEF CommitUpdate, studyVars
  <2>2. PICK d, t : /\ d = (IF k.arg # k.view.dates THEN k.arg ELSE cases[x].dates)
                    /\ t = (IF StartsOver(k.view) /\ k.view.status # "draft" THEN "draft" ELSE cases[x].status)
    OBVIOUS
  <2>3. cases' = [cases EXCEPT ![x].dates = d, ![x].status = t]
    BY <1>1, <1>4, <2>2 DEF CommitUpdate
  <2>4. cases[x] \in Case /\ "draft" \in Status
    BY <1>2, <2>1 DEF Status
  <2>5. d \in Dates \cup {None} /\ t \in Status /\ (cases[x].there => d # None)
    BY <1>2, <2>1, <2>2, <2>4, NullAssumption DEF Case
  <2>6. PICK r : r = [cases[x] EXCEPT !.dates = d, !.status = t]
    OBVIOUS
  <2>7. r \in Case /\ r.dates = d /\ (r.there => d # None)
    BY Zenon, <2>4, <2>5, <2>6 DEF Case
  <2>8. cases' = [cases EXCEPT ![x] = r]
    BY Zenon, <1>2, <2>1, <2>3, <2>6
  <2>9. cases' \in [Cases -> Case] /\ cases'[x] = r /\ \A y \in Cases : y # x => cases'[y] = cases[y]
    BY <1>2, <2>1, <2>7, <2>8
  <2>10. ClaimEnds(c)
    BY <1>1, <1>2, <1>3, <2>1, <2>7, <2>9 DEF ClaimEnds
  <2> QED
    BY <2>10, ClaimEndsHeld
<1>5. CASE CommitEdit(c) /\ UNCHANGED <<cases, files, ghosts>>
  <2>1. k.pc = "edit" /\ Finish(c) /\ cases' = cases
    BY <1>1, <1>5 DEF CommitEdit, Commit
  <2>2. PICK d, t : /\ d = (IF studies[x].version < MaxEdits THEN studies[x].version + 1 ELSE studies[x].version)
                    /\ t = (IF k.arg /\ k.view.status # "draft" THEN "draft" ELSE studies[x].status)
    OBVIOUS
  <2>3. studies' = [studies EXCEPT ![x].version = d, ![x].status = t]
    BY <1>1, <1>5, <2>2 DEF CommitEdit
  <2>4. studies[x] \in Study /\ "draft" \in StudyStatus
    BY <1>2, <2>1 DEF StudyStatus
  <2>5. d \in 1..MaxEdits /\ t \in StudyStatus
    BY <2>2, <2>4, RequestsAssumption DEF Study
  <2>6. PICK r : r = [studies[x] EXCEPT !.version = d, !.status = t]
    OBVIOUS
  <2>7. r \in Study
    BY Zenon, <2>4, <2>5, <2>6 DEF Study
  <2>8. studies' = [studies EXCEPT ![x] = r]
    BY Zenon, <1>2, <2>1, <2>3, <2>6
  <2>9. studies' \in [Studies -> Study] /\ \A y \in Studies : y # x => studies'[y] = studies[y]
    BY <1>2, <2>1, <2>7, <2>8
  <2>10. ClaimEnds(c)
    BY <1>1, <1>2, <1>3, <2>1, <2>9 DEF ClaimEnds
  <2> QED
    BY <2>10, ClaimEndsHeld
<1> QED
  BY <1>4, <1>5 DEF CommitClaim

(* ---- the connectors that verify a request ---- *)
LEMMA VerifyHeld ==
  ASSUME FileHeld, "connectors" \in parts, NEW c \in Calls, Turn(c), Verify(c), UNCHANGED <<cases, studies, parts>>
  PROVE FileHeld'
<1>1. PICK v \in Requests, mode \in {None, "success", "failed", "unavailable"} :
        /\ Within(v)
        /\ \E j \in SelectForRequest(v) : OnFile(c, "verify", v, dossiers[v].status, Attempt(j, mode))
  BY Zenon DEF Verify
<1>2. PICK j \in SelectForRequest(v) : OnFile(c, "verify", v, dossiers[v].status, Attempt(j, mode))
  BY <1>1
<1>3. PICK k : k = Call("verify", dossiers[v].of, v, dossiers[v].status, Attempt(j, mode))
  OBVIOUS
<1>4. k.pc = "verify" /\ k.case = dossiers[v].of /\ k.on = v /\ k.arg.by = j
  BY <1>3 DEF Call, Attempt
<1>5. FileStarts(c, k)
  BY <1>2, <1>3, <1>4 DEF OnFile, FileStarts
<1>6. j \in Catalog
  BY DEF SelectForRequest, Candidates
<1>7. v \in Opened /\ dossiers[v].status \in Workflow!OrganizationVisible /\ dossiers[v].consented
  BY Zenon, <1>1 DEF Within, Gone, FileHeld, DossiersHeld, DossierOk
<1>8. FileCall(k) /\ DossierCall(k) /\ ItemCall(k)
  BY <1>4, <1>6, <1>7 DEF FileCall, DossierCall, ItemCall
<1> QED
  BY <1>4, <1>5, <1>8, FileBegins DEF FileFlight

LEMMA MoveBeginsHeld ==
  ASSUME FileHeld, "connectors" \in parts, NEW c \in Calls, Turn(c), MoveBegins(c), UNCHANGED <<cases, studies, parts>>
  PROVE FileHeld'
<1>1. PICK v \in Opened : \E t \in Passed(v) : OnFile(c, "moving", v, dossiers[v].status, t)
  BY Zenon DEF MoveBegins
<1>2. PICK t \in Passed(v) : OnFile(c, "moving", v, dossiers[v].status, t)
  BY <1>1
<1>3. PICK k : k = Call("moving", dossiers[v].of, v, dossiers[v].status, t)
  OBVIOUS
<1>4. k.pc = "moving" /\ k.case = dossiers[v].of /\ k.on = v /\ k.arg = t
  BY <1>3 DEF Call
<1>5. FileStarts(c, k)
  BY <1>2, <1>3, <1>4 DEF OnFile, FileStarts
<1>6. t \in Workflow!Status /\ (t \in Gone => dossiers[v].consented)
  BY PassedTo
<1>8. FileCall(k) /\ DossierCall(k) /\ ItemCall(k)
  BY <1>4, <1>6 DEF FileCall, DossierCall, ItemCall
<1> QED
  BY <1>4, <1>5, <1>8, FileBegins DEF FileFlight

LEMMA ConnectHeld ==
  ASSUME FileHeld, NEW c \in Calls, Connect(c), UNCHANGED <<cases, studies, parts>>
  PROVE FileHeld'
<1>1. PICK k, l : k = call[c] /\ l = [k EXCEPT !.pc = "connecting"]
  BY Zenon
<1>2. k.pc = "verify" /\ call' = [call EXCEPT ![c] = l] /\ UNCHANGED <<dossiers, items, given, doubled>>
  BY <1>1 DEF Connect, fileVars
<1>3. l.pc = "connecting" /\ l.case = k.case /\ l.on = k.on /\ l.view = k.view /\ l.arg = k.arg
  BY <1>1, <1>2
<1>4. DOMAIN call' = Calls /\ call'[c] = l /\ \A d \in Calls : d # c => call'[d] = call[d]
  BY <1>2 DEF FileHeld, FileBase
<1>5. FileCall(k) /\ DossierCall(k)
  BY <1>1, <1>2 DEF FileHeld, FileBase, DossiersHeld, DossierCalls, FileFlight
<1>6. FileCall(l) /\ DossierCall(l) /\ ItemCall(l)
  BY <1>2, <1>3, <1>5 DEF FileCall, DossierCall, ItemCall
<1>7. ASSUME NEW d \in Calls, call'[d].pc \in FileFlight PROVE FileCall(call[d])' /\ DossierCall(call[d])' /\ ItemCall(call[d])'
  <2>1. PICK m : m = call'[d]
    OBVIOUS
  <2>2. FileCall(m) /\ DossierCall(m) /\ ItemCall(m)
    BY <1>4, <1>6, <1>7, <2>1 DEF FileHeld, FileBase, DossiersHeld, DossierCalls, ItemsHeld, ItemCalls
  <2>3. FileCall(m)'
    BY <1>2, <2>2 DEF FileCall, Opened
  <2>4. DossierCall(m)'
    BY <1>2, <2>2 DEF DossierCall, Live
  <2>5. ItemCall(m)'
    BY <1>2, <2>2 DEF ItemCall, Evidence
  <2> QED
    BY <2>1, <2>3, <2>4, <2>5 DEF FileCall, DossierCall, ItemCall
<1>8. FilesApart'
  <2>1. \A d \in Calls : /\ call'[d].pc \in FileFlight <=> call[d].pc \in FileFlight
                         /\ call'[d].pc \in {"update", "edit"} <=> call[d].pc \in {"update", "edit"}
                         /\ call'[d].on = call[d].on /\ call'[d].case = call[d].case
    BY <1>1, <1>2, <1>3, <1>4 DEF FileFlight
  <2> QED
    BY <1>2, <2>1 DEF FileHeld, FileBase, FilesApart
<1>9. PartsAlone' /\ FileTyped'
  BY <1>2 DEF FileHeld, FileBase, PartsAlone, FileTyped
<1>10. (\A v \in Requests : DossierOk(v)') /\ AttachedOnce'
  BY <1>2 DEF FileHeld, DossiersHeld, DossierOk, Opened, ItemsHeld, AttachedOnce
<1>11. ClaimsDated'
  BY <1>3, <1>4 DEF FileHeld, ClaimsDated
<1> QED
  BY <1>4, <1>7, <1>8, <1>9, <1>10, <1>11 DEF FileHeld, FileBase, DossiersHeld, DossierCalls, ItemsHeld, ItemCalls

\* A call about a request that ends with another status of it.
StatusEnds(c, t) ==
  /\ call[c].pc \in FileFlight /\ Finish(c) /\ UNCHANGED <<items, given, doubled, cases, studies, parts>>
  /\ t \in Workflow!Status /\ (t \in Gone => dossiers[call[c].on].consented)
  /\ dossiers' = [Log(call[c].on, "moved") EXCEPT ![call[c].on].status = t]
LEMMA StatusEndsHeld ==
  ASSUME FileHeld, NEW c \in Calls, NEW t, StatusEnds(c, t)
  PROVE FileHeld' /\ dossiers'[call[c].on].status = t
<1>1. PICK w : w = call[c].on
  OBVIOUS
<1>2. /\ call[c].pc \in FileFlight /\ Finish(c) /\ UNCHANGED <<items, given, doubled, cases, studies, parts>>
      /\ t \in Workflow!Status /\ (t \in Gone => dossiers[w].consented)
      /\ dossiers' = [Log(w, "moved") EXCEPT ![w].status = t]
  BY <1>1 DEF StatusEnds
<1>3. w \in Opened
  BY <1>1, <1>2 DEF FileHeld, FileBase, FileCall
<1>4. /\ w \in Requests /\ dossiers[w] \in Dossier /\ dossiers \in [Requests -> Dossier] /\ FileTyped
  BY <1>3 DEF Opened, FileHeld, FileBase, FileTyped
<1>5. PICK row : row = [dossiers[w] EXCEPT !.status = t]
  BY Zenon
<1>6. /\ row \in Dossier /\ row.status = t /\ row.of = dossiers[w].of /\ row.consented = dossiers[w].consented
      /\ row.fields = dossiers[w].fields /\ row.scopes = dossiers[w].scopes /\ row.snapshot = dossiers[w].snapshot
  BY <1>2, <1>4, <1>5 DEF Dossier
<1>7. dossiers' = [dossiers EXCEPT ![w] = Logged(row, "moved")]
  <2>1. [Logged(dossiers[w], "moved") EXCEPT !.status = t] = Logged(row, "moved")
    BY Zenon, <1>4, <1>5 DEF Logged, Dossier
  <2> QED
    BY Zenon, <1>2, <1>4, <2>1 DEF Log
<1>8. "moved" \in Event
  BY DEF Event
<1>9. /\ dossiers' \in [Requests -> Dossier] /\ \A v \in Requests : v # w => dossiers'[v] = dossiers[v]
      /\ dossiers'[w].of = row.of /\ dossiers'[w].status = row.status
      /\ dossiers'[w].consented = row.consented /\ dossiers'[w].fields = row.fields
      /\ dossiers'[w].scopes = row.scopes /\ dossiers'[w].snapshot = row.snapshot
  BY Zenon, <1>4, <1>6, <1>7, <1>8, RowWritten
<1>10. DossierOk(w)'
  <2>1. DossierOk(w)
    BY <1>4 DEF FileHeld, DossiersHeld
  <2> QED
    BY <1>2, <1>6, <1>9, <2>1 DEF DossierOk, Opened
<1>11. FileTyped'
  BY <1>2, <1>4, <1>9 DEF FileTyped
<1>12. AttachedOnce'
  BY <1>2 DEF FileHeld, ItemsHeld, AttachedOnce
<1>13. DOMAIN call' = Calls /\ \A e \in Calls : call'[e] = call[e] \/ call'[e].pc = "done"
  BY <1>2, DoneCalls
<1>14. \A d \in Calls : call'[d].pc \in FileFlight /\ call'[d].on = w => w \in doubled
  BY <1>1, <1>2, OthersMarked
<1>15. FileSettles(w)
  BY <1>2, <1>4, <1>6, <1>9, <1>10, <1>11, <1>12, <1>13, <1>14 DEF FileSettles, FileFlight
<1> QED
  BY <1>1, <1>6, <1>9, <1>15, FileEnds

LEMMA CommitMoveHeld ==
  ASSUME FileHeld, NEW c \in Calls, CommitMove(c), UNCHANGED <<cases, studies, parts>>
  PROVE FileHeld'
<1>1. PICK k : k = call[c]
  OBVIOUS
<1>2. k.pc = "moving" /\ DossierCall(k)
  BY <1>1 DEF CommitMove, FileHeld, DossiersHeld, DossierCalls, FileFlight
<1>3. StatusEnds(c, k.arg)
  BY <1>1, <1>2 DEF CommitMove, StatusEnds, FileFlight, DossierCall
<1> QED
  BY <1>3, StatusEndsHeld

\* What a connector's answer does: to the request, and to its runs.
AnswerGiven(c, o) ==
  LET k == call[c]  v == k.on  free == {n \in Runs : runs[n] = NoRun} IN
  /\ k.pc = "connecting" /\ Finish(c) /\ UNCHANGED <<catalog, items, given, doubled>>
  /\ IF o = "missing" THEN UNCHANGED runs
     ELSE \E n \in free :
            /\ \A m \in free : n <= m
            /\ runs' = [runs EXCEPT ![n] = RunOf(v, k.arg.by, o)]
  /\ dossiers' = [Log(v, "moved") EXCEPT ![v].status =
       IF Decisive(o) THEN "PENDING_ADMIN_QUALITY_REVIEW" ELSE AfterStart(k, dossiers[v]).status]
  /\ verdict' = IF ~Decisive(o) THEN verdict
                ELSE [verdict EXCEPT ![v] = [said |-> IF o = "verified" THEN "confirmed" ELSE "discrepancy",
                                             by |-> k.arg.by]]
LEMMA AnswersAre ==
  ASSUME NEW c \in Calls, ConnectorAnswers(c)
  PROVE \E o \in Attempted \cup {"missing"} : AnswerGiven(c, o)
<1>1. PICK o \in IF call[c].arg.by \in Implemented THEN AttemptedOf(call[c].on, call[c].arg) ELSE {"missing"} : AnswerGiven(c, o)
  BY Zenon DEF ConnectorAnswers, AnswerGiven
<1>2. AttemptedOf(call[c].on, call[c].arg) \subseteq Attempted
  BY DEF AttemptedOf, Attempted, MockOutcome, ResultStatus
<1> QED
  BY <1>1, <1>2

LEMMA AnswerGivenHeld ==
  ASSUME FileHeld, NEW c \in Calls, NEW o, AnswerGiven(c, o), UNCHANGED <<cases, studies, parts>>
  PROVE FileHeld' /\ (Decisive(o) => dossiers'[call[c].on].status = "PENDING_ADMIN_QUALITY_REVIEW")
<1>1. PICK k : k = call[c]
  OBVIOUS
<1>2. k.pc = "connecting" /\ DossierCall(k) /\ FileCall(k)
  BY <1>1 DEF AnswerGiven, FileHeld, FileBase, DossiersHeld, DossierCalls, FileFlight
<1>3. dossiers[k.on] \in Dossier /\ dossiers[k.on].status \in Workflow!Status
  BY <1>2, OpenedIs DEF FileHeld, FileBase, FileCall
<1>4. PICK t : t = IF Decisive(o) THEN "PENDING_ADMIN_QUALITY_REVIEW" ELSE AfterStart(k, dossiers[k.on]).status
  OBVIOUS
<1>5. t \in Workflow!Status
  BY <1>3, <1>4 DEF AfterStart, Workflow!Status, Dossier
<1>6. StatusEnds(c, t)
  BY <1>1, <1>2, <1>4, <1>5 DEF AnswerGiven, StatusEnds, FileFlight, DossierCall
<1> QED
  BY <1>1, <1>4, <1>6, StatusEndsHeld

(* ---- every step keeps what holds of the files ---- *)
LEMMA FileHeldAside ==
  ASSUME FileHeld, UNCHANGED fileVars, parts' = parts, Steps(Pcs \ FileFlight),
         "file" \in parts => UNCHANGED <<cases, studies>> /\ Steps({"done"})
  PROVE FileHeld'
<1>1. UNCHANGED <<dossiers, items, given, doubled, parts>>
  BY DEF fileVars
<1>2. DOMAIN call' = Calls /\ \A d \in Calls : call'[d] = call[d] \/ call'[d].pc \in Pcs \ FileFlight
  BY AsideCalls DEF FileHeld, FileBase
<1>3. "file" \in parts => \A d \in Calls : call'[d] = call[d] \/ call'[d].pc = "done"
  BY AsideCalls DEF FileHeld, FileBase
<1>4. FileBase'
  <2>1. FileBase /\ FileTyped'
    BY <1>1 DEF FileHeld, FileBase, FileTyped
  <2>2. \A d \in Calls : call'[d] = call[d] \/ (call'[d].pc \notin FileFlight /\ ("file" \in parts => call'[d].pc \notin {"update", "edit"}))
    BY <1>2, <1>3
  <2> QED
    BY <1>1, <1>2, <2>1, <2>2, BaseStays
<1>5. (\A v \in Requests : DossierOk(v)') /\ AttachedOnce'
  BY <1>1 DEF FileHeld, DossiersHeld, DossierOk, Opened, ItemsHeld, AttachedOnce
<1>6. ASSUME NEW d \in Calls, call'[d].pc \in FileFlight PROVE DossierCall(call[d])' /\ ItemCall(call[d])'
  <2>1. PICK l : l = call'[d]
    OBVIOUS
  <2>2. DossierCall(l) /\ ItemCall(l) /\ FileCall(l) /\ l.pc \in FileFlight
    BY <1>2, <1>6, <2>1 DEF FileHeld, FileBase, DossiersHeld, DossierCalls, ItemsHeld, ItemCalls
  <2>3. "file" \in parts => Live(l.case)' = Live(l.case)
    BY <1>1 DEF Live
  <2>4. DossierCall(l)'
    BY <1>1, <2>2, <2>3 DEF DossierCall, FileCall
  <2>5. ItemCall(l)'
    BY <1>1, <2>2 DEF ItemCall, Evidence
  <2> QED
    BY <2>1, <2>4, <2>5 DEF DossierCall, ItemCall
<1>7. ClaimsDated'
  BY <1>1, <1>3 DEF FileHeld, ClaimsDated
<1> QED
  BY <1>4, <1>5, <1>6, <1>7 DEF FileHeld, DossiersHeld, DossierCalls, ItemsHeld, ItemCalls

LEMMA FileStepHeld ==
  ASSUME FileHeld, "file" \in parts, FileNext, UNCHANGED parts
  PROVE FileHeld'
<1> DEFINE Still == UNCHANGED <<cases, files, ghosts, studyVars>>
<1>0. Still => UNCHANGED <<cases, studies, parts>>
  BY DEF studyVars
<1>1. ASSUME NEW c \in Calls, Turn(c), Still,
             \/ AddEvidence(c) \/ UpdateEvidence(c) \/ SendForReview(c) \/ Moves(c)
             \/ AssignReviewer(c) \/ UpdateInternalNote(c) \/ ChangePriority(c) \/ AdminRemark(c)
      PROVE FileHeld'
  BY <1>0, <1>1, AddEvidenceHeld, UpdateEvidenceHeld, SendForReviewHeld, MovesHeld, PutsHeld
<1>2. ASSUME NEW c \in Calls, Turn(c), EditClaim(c)
      PROVE FileHeld'
  BY <1>2, EditClaimHeld
<1>3. ASSUME NEW c \in Calls, CommitClaim(c)
      PROVE FileHeld'
  BY <1>3, CommitClaimHeld
<1>4. ASSUME NEW c \in Calls, Still, CommitEvidence(c) \/ CommitAmendment(c) \/ CommitConsent(c)
      PROVE FileHeld'
  BY <1>0, <1>4, CommitEvidenceHeld, CommitAmendmentHeld, CommitConsentHeld
<1>5. OpenPortal /\ Still => FileHeld'
  BY <1>0, PortalHeld
<1> QED
  BY <1>1, <1>2, <1>3, <1>4, <1>5, Zenon DEF FileNext

LEMMA ConnectorStepHeld ==
  ASSUME FileHeld, "connectors" \in parts, "file" \notin parts, ConnectorsNext, UNCHANGED <<cases, studies, parts>>
  PROVE FileHeld'
<1>1. ASSUME NEW c \in Calls, Turn(c), UpdateConnector(c)
      PROVE FileHeld'
  <2>1. UNCHANGED fileVars /\ Finish(c)
    BY <1>1 DEF UpdateConnector
  <2>2. Steps(Pcs \ FileFlight)
    <3>1. "done" \in Pcs \ FileFlight
      BY DEF Pcs, PipelinePcs, FileFlight
    <3> QED
      BY <1>1, <2>1, <3>1, FinishPuts
  <2> QED
    BY <2>1, <2>2, FileHeldAside
<1>2. ASSUME NEW c \in Calls, ConnectorAnswers(c)
      PROVE FileHeld'
  BY <1>2, AnswersAre, AnswerGivenHeld
<1> QED
  BY <1>1, <1>2, VerifyHeld, MoveBeginsHeld, ConnectHeld, CommitMoveHeld, Zenon DEF ConnectorsNext

LEMMA FileHeldNext ==
  ASSUME FileHeld, [Next]_vars
  PROVE FileHeld'
<1>1. PartsAlone
  BY DEF FileHeld, FileBase
<1> QED
  BY <1>1, FileAside, FileStepHeld, ConnectorStepHeld, FileHeldAside

\* What follows from it of the checked properties.
LEMMA FilesShown ==
  ASSUME FileHeld
  PROVE ShownAsGiven /\ AttachedOnce
<1>1. ASSUME NEW v \in Opened \ doubled, dossiers[v].status \in Workflow!OrganizationVisible
      PROVE /\ dossiers[v].consented
            /\ ClaimToOrganization(v) = IF given[v].fields THEN given[v].version ELSE None
            /\ \A i \in EvidenceToOrganization(v) : items[i].scope \in given[v].scopes
  <2>1. v \in Requests /\ DossierOk(v)
    BY DEF FileHeld, DossiersHeld, Opened
  <2>2. dossiers[v].consented /\ dossiers[v].snapshot # None
    BY <1>1, <2>1 DEF DossierOk, Gone
  <2>3. given[v] = [scopes |-> dossiers[v].scopes, fields |-> dossiers[v].fields, version |-> dossiers[v].snapshot]
    BY <2>1 DEF DossierOk
  <2>4. given[v].scopes = dossiers[v].scopes /\ given[v].fields = dossiers[v].fields /\ given[v].version = dossiers[v].snapshot
    BY <2>3
  <2> QED
    BY <2>2, <2>4 DEF ClaimToOrganization, Snapshot, EvidenceToOrganization
<1> QED
  BY <1>1 DEF ShownAsGiven, FileHeld, ItemsHeld

(* ---- the runs of the connectors, and what their verdicts say ---- *)
\* What the last response to a request says was found by the newest deciding run about it.
FoundBy(n, v) ==
  /\ n \in NewestOf({m \in Verdicts : runs[m].of = v}) /\ runs[n].by = verdict[v].by
  /\ runs[n].status = IF verdict[v].said = "confirmed" THEN "succeeded" ELSE "failed"
RunsHeld ==
  /\ runs \in [Runs -> Run] /\ verdict \in [Requests -> Verdict]
  /\ \A m, n \in Runs : m < n /\ runs[n] # NoRun => runs[m] # NoRun
  /\ \A n \in Runs : runs[n] = NoRun \/ (runs[n].of # None /\ runs[n].status # "started")
  /\ \A v \in Requests : verdict[v].said # None => \E n \in Runs : FoundBy(n, v)

\* The next step lets a verdict count only in the organization's turn, which it ends.
DecidedInTurn ==
  \A n \in Runs : runs'[n] # runs[n] /\ runs'[n].result \in {"verified", "failed"} =>
    LET v == runs'[n].of IN
    v \in doubled \/ (dossiers[v].status \in Workflow!OrganizationVisible
                      /\ dossiers'[v].status = "PENDING_ADMIN_QUALITY_REVIEW")

LEMMA RunsKept ==
  ASSUME RunsHeld, UNCHANGED <<runs, verdict>>
  PROVE RunsHeld' /\ DecidedInTurn
<1>1. DecidedInTurn
  BY DEF DecidedInTurn
<1>2. RunsHeld'
  BY DEF RunsHeld, FoundBy, NewestOf, Verdicts
<1> QED
  BY <1>1, <1>2

LEMMA VerdictWithdrawn ==
  ASSUME RunsHeld, NEW w \in Requests, UNCHANGED runs, verdict' = [verdict EXCEPT ![w] = NoVerdict]
  PROVE RunsHeld' /\ DecidedInTurn
<1>1. DecidedInTurn
  BY DEF DecidedInTurn
<1>2. verdict' \in [Requests -> Verdict] /\ verdict'[w].said = None /\ \A v \in Requests : v # w => verdict'[v] = verdict[v]
  BY DEF RunsHeld, NoVerdict, Verdict
<1>3. ASSUME NEW v \in Requests, verdict'[v].said # None PROVE \E n \in Runs : FoundBy(n, v)'
  <2>1. v # w /\ verdict'[v] = verdict[v]
    BY <1>2, <1>3
  <2>2. PICK n \in Runs : FoundBy(n, v)
    BY <1>3, <2>1 DEF RunsHeld
  <2>3. FoundBy(n, v)'
    BY <2>1, <2>2 DEF FoundBy, NewestOf, Verdicts
  <2> QED
    BY <2>3
<1> QED
  BY <1>1, <1>2, <1>3 DEF RunsHeld

\* A run that is made is the newest one.
MakesRun(v, by, o, n) ==
  /\ v \in Requests /\ by \in Catalog /\ o \in Attempted /\ n \in Runs /\ runs[n] = NoRun
  /\ \A m \in Runs : runs[m] = NoRun => n <= m
  /\ runs' = [runs EXCEPT ![n] = RunOf(v, by, o)]
LEMMA RunIsMade ==
  ASSUME RunsHeld, NEW v, NEW by, NEW o, NEW n, MakesRun(v, by, o, n)
  PROVE /\ runs' \in [Runs -> Run] /\ runs'[n] = RunOf(v, by, o)
        /\ runs'[n].of = v /\ runs'[n].by = by /\ runs'[n].status = StatusAfter(o) /\ runs'[n].status # "started"
        /\ runs'[n].result \in {"verified", "failed"} => Decisive(o) /\ runs'[n].result = o
        /\ Decisive(o) => runs'[n].result = o
        /\ \A m \in Runs : m # n => runs'[m] = runs[m]
        /\ \A m \in Runs : runs'[m] # NoRun => m <= n
        /\ \A l, m \in Runs : l < m /\ runs'[m] # NoRun => runs'[l] # NoRun
        /\ \A m \in Runs : runs'[m] = NoRun \/ (runs'[m].of # None /\ runs'[m].status # "started")
<1>0. /\ v \in Requests /\ by \in Catalog /\ o \in Attempted /\ n \in Runs /\ runs[n] = NoRun
      /\ \A m \in Runs : runs[m] = NoRun => n <= m
      /\ runs' = [runs EXCEPT ![n] = RunOf(v, by, o)]
  BY DEF MakesRun
<1>1. PICK r : r = RunOf(v, by, o)
  OBVIOUS
<1>2. StatusAfter(o) \in RunStatus \ {"started"}
  BY DEF StatusAfter, RunStatus
<1>3. PICK res : res = IF o \in ResultStatus THEN o ELSE None
  OBVIOUS
<1>4. r = [of |-> v, by |-> by, status |-> StatusAfter(o), result |-> res]
  BY <1>1, <1>3 DEF RunOf
<1>5. res \in ResultStatus \cup {None}
  BY <1>3
<1>6. r \in Run /\ r.of = v /\ r.by = by /\ r.status = StatusAfter(o) /\ r.result = res
  BY <1>0, <1>2, <1>4, <1>5 DEF Run
<1>7. /\ res \in {"verified", "failed"} => Decisive(o) /\ res = o
      /\ Decisive(o) => res = o
  BY <1>3, NullAssumption DEF Decisive, ResultStatus
<1>8. runs' \in [Runs -> Run] /\ runs'[n] = r /\ \A m \in Runs : m # n => runs'[m] = runs[m]
  BY <1>0, <1>1, <1>6 DEF RunsHeld
<1>9. v # None
  BY <1>0, NullAssumption
<1>10. r # NoRun
  BY <1>6, <1>9 DEF NoRun
<1>11. n \in Nat /\ \A m \in Runs : m \in Nat
  BY <1>0, CatalogAssumption
<1>12. ASSUME NEW m \in Runs, runs[m] # NoRun PROVE m < n
  <2>1. ~(n < m) /\ m # n
    BY <1>0, <1>12 DEF RunsHeld
  <2> QED
    BY <1>11, <2>1
<1>13. \A m \in Runs : runs'[m] # NoRun => m <= n
  BY <1>8, <1>11, <1>12
<1>14. ASSUME NEW l \in Runs, NEW m \in Runs, l < m, runs'[m] # NoRun PROVE runs'[l] # NoRun
  <2>1. l < n
    BY <1>11, <1>13, <1>14
  <2>2. runs[l] # NoRun
    BY <1>0, <1>11, <2>1
  <2> QED
    BY <1>8, <1>11, <2>1, <2>2
<1>15. \A m \in Runs : runs'[m] = NoRun \/ (runs'[m].of # None /\ runs'[m].status # "started")
  BY <1>2, <1>6, <1>8, <1>9 DEF RunsHeld
<1> QED
  BY <1>1, <1>2, <1>6, <1>7, <1>8, <1>13, <1>14, <1>15

LEMMA AnswerCounts ==
  ASSUME FileHeld, RunsHeld, NEW c \in Calls, NEW o \in Attempted \cup {"missing"}, AnswerGiven(c, o), UNCHANGED <<cases, studies, parts>>
  PROVE RunsHeld' /\ DecidedInTurn
<1>1. PICK k, v : k = call[c] /\ v = call[c].on
  OBVIOUS
<1>2. k.pc = "connecting" /\ k.on = v /\ DossierCall(k) /\ FileCall(k)
  BY <1>1 DEF AnswerGiven, FileHeld, FileBase, DossiersHeld, DossierCalls, FileFlight
<1>3. v \in Requests /\ k.arg.by \in Catalog
  BY <1>2 DEF FileCall, DossierCall, Opened
<1>4. CASE o = "missing"
  <2>1. ~Decisive(o)
    BY <1>4 DEF Decisive
  <2>2. UNCHANGED <<runs, verdict>>
    BY <1>4, <2>1 DEF AnswerGiven
  <2> QED
    BY <2>2, RunsKept
<1>5. CASE o # "missing"
  <2>1. o \in Attempted
    BY <1>5
  <2>2. \E n \in {m \in Runs : runs[m] = NoRun} : (\A m \in {l \in Runs : runs[l] = NoRun} : n <= m)
                 /\ runs' = [runs EXCEPT ![n] = RunOf(v, k.arg.by, o)]
    BY <1>1, <1>5, Zenon DEF AnswerGiven
  <2>3. PICK n \in Runs : runs[n] = NoRun /\ (\A m \in Runs : runs[m] = NoRun => n <= m)
                 /\ runs' = [runs EXCEPT ![n] = RunOf(v, k.arg.by, o)]
    BY Zenon, <2>2
  <2>4. PICK by \in Catalog : by = k.arg.by
    BY <1>3
  <2>5. /\ runs' \in [Runs -> Run]
        /\ runs'[n].of = v /\ runs'[n].by = by /\ runs'[n].status = StatusAfter(o)
        /\ runs'[n].result \in {"verified", "failed"} => Decisive(o)
        /\ Decisive(o) => runs'[n].result = o
        /\ \A m \in Runs : m # n => runs'[m] = runs[m]
        /\ \A m \in Runs : runs'[m] # NoRun => m <= n
        /\ \A l, m \in Runs : l < m /\ runs'[m] # NoRun => runs'[l] # NoRun
        /\ \A m \in Runs : runs'[m] = NoRun \/ (runs'[m].of # None /\ runs'[m].status # "started")
    <3>1. MakesRun(v, by, o, n)
      BY <1>3, <2>1, <2>3, <2>4 DEF MakesRun
    <3> QED
      BY <3>1, RunIsMade
  <2>6. verdict' = IF ~Decisive(o) THEN verdict
                   ELSE [verdict EXCEPT ![v] = [said |-> IF o = "verified" THEN "confirmed" ELSE "discrepancy", by |-> by]]
    BY <1>1, <2>4 DEF AnswerGiven
  <2>7. DecidedInTurn
    <3> SUFFICES ASSUME NEW m \in Runs, runs'[m] # runs[m], runs'[m].result \in {"verified", "failed"}
                 PROVE runs'[m].of \in doubled \/ (dossiers[runs'[m].of].status \in Workflow!OrganizationVisible
                         /\ dossiers'[runs'[m].of].status = "PENDING_ADMIN_QUALITY_REVIEW")
      BY Zenon DEF DecidedInTurn
    <3>1. m = n /\ Decisive(o) /\ runs'[m].of = v
      BY <2>5
    <3>2. v \notin doubled => dossiers[v].status \in Workflow!OrganizationVisible
      BY <1>2 DEF DossierCall
    <3>3. dossiers'[v].status = "PENDING_ADMIN_QUALITY_REVIEW"
      BY <1>1, <3>1, AnswerGivenHeld
    <3> QED
      BY <3>1, <3>2, <3>3
  <2>8. verdict' \in [Requests -> Verdict] /\ \A w \in Requests : w # v => verdict'[w] = verdict[w]
    BY <1>3, <2>6 DEF RunsHeld, Verdict
  <2>9. ASSUME NEW w \in Requests, w # v \/ ~Decisive(o), verdict'[w].said # None PROVE \E m \in Runs : FoundBy(m, w)'
    <3>1. verdict'[w] = verdict[w]
      BY <2>6, <2>8, <2>9
    <3>2. PICK m \in Runs : FoundBy(m, w)
      BY <2>9, <3>1 DEF RunsHeld
    <3>3. ~(runs'[n].result \in {"verified", "failed"} /\ runs'[n].of = w)
      BY <2>5, <2>9
    <3>4. ~(runs[n].of = w)
      BY <2>3, NullAssumption DEF NoRun
    <3>5. {l \in Verdicts : runs[l].of = w}' = {l \in Verdicts : runs[l].of = w}
      BY <2>5, <3>3, <3>4 DEF Verdicts
    <3>6. m \in NewestOf({l \in Verdicts : runs[l].of = w})' /\ m # n
      BY <3>2, <3>4, <3>5 DEF FoundBy, NewestOf
    <3>7. FoundBy(m, w)'
      BY <2>5, <3>1, <3>2, <3>6 DEF FoundBy
    <3> QED
      BY <3>7
  <2>10. ASSUME Decisive(o) PROVE FoundBy(n, v)'
    <3>1. verdict'[v].by = by /\ verdict'[v].said = IF o = "verified" THEN "confirmed" ELSE "discrepancy"
      BY <1>3, <2>6, <2>10 DEF RunsHeld
    <3>2. runs'[n].status = IF o = "verified" THEN "succeeded" ELSE "failed"
      BY <2>5, <2>10 DEF StatusAfter, Decisive
    <3>3. \A m \in Runs : runs'[m].of = v => m <= n
      BY <1>3, <2>5, NullAssumption DEF NoRun
    <3>4. n \in {m \in Runs : runs'[m].result \in {"verified", "failed"}} /\ runs'[n].of = v
      BY <2>5, <2>10 DEF Decisive
    <3>5. n \in NewestOf({m \in Verdicts : runs[m].of = v})'
      BY <3>3, <3>4 DEF NewestOf, Verdicts
    <3>6. runs'[n].status = IF verdict'[v].said = "confirmed" THEN "succeeded" ELSE "failed"
      BY <3>1, <3>2
    <3> QED
      BY <2>5, <3>1, <3>5, <3>6 DEF FoundBy
  <2> QED
    BY <2>5, <2>7, <2>8, <2>9, <2>10 DEF RunsHeld
<1> QED
  BY <1>4, <1>5

LEMMA RunsHeldNext ==
  ASSUME FileHeld, RunsHeld, [Next]_vars
  PROVE RunsHeld' /\ DecidedInTurn
<1>0. PartsAlone
  BY DEF FileHeld, FileBase
<1>1. UNCHANGED connectorVars => RunsHeld' /\ DecidedInTurn
  BY RunsKept DEF connectorVars
<1>2. CASE ConnectorsNext /\ UNCHANGED <<cases, studies, parts>>
  <2>1. ASSUME NEW c \in Calls, Verify(c) \/ MoveBegins(c) \/ UpdateConnector(c) \/ Connect(c)
        PROVE RunsHeld' /\ DecidedInTurn
    <3>1. UNCHANGED <<runs, verdict>>
      BY <2>1 DEF Verify, MoveBegins, UpdateConnector, Connect, connectorVars
    <3> QED
      BY <3>1, RunsKept
  <2>2. ASSUME NEW c \in Calls, ConnectorAnswers(c)
        PROVE RunsHeld' /\ DecidedInTurn
    BY <1>2, <2>2, AnswersAre, AnswerCounts
  <2>3. ASSUME NEW c \in Calls, CommitMove(c)
        PROVE RunsHeld' /\ DecidedInTurn
    <3>1. call[c].on \in Requests
      BY <2>3 DEF CommitMove, FileHeld, FileBase, FileCall, FileFlight, Opened
    <3>2. UNCHANGED runs /\ (UNCHANGED verdict \/ verdict' = [verdict EXCEPT ![call[c].on] = NoVerdict])
      BY <2>3 DEF CommitMove
    <3> QED
      BY <3>1, <3>2, RunsKept, VerdictWithdrawn
  <2> QED
    BY <1>2, <2>1, <2>2, <2>3, Zenon DEF ConnectorsNext
<1>3. \/ UNCHANGED connectorVars
      \/ ConnectorsNext /\ UNCHANGED <<cases, studies, parts>>
  BY <1>0, FileAside
<1> QED
  BY <1>1, <1>2, <1>3

\* What follows from it of the checked properties.
LEMMA RunsFollow ==
  ASSUME RunsHeld
  PROVE RunsTell /\ RunsShown
<1>0. Opened \subseteq Requests
  BY DEF Opened
<1>1. \A n \in Runs : runs[n].of # None => runs[n].status # "started"
  BY DEF RunsHeld, NoRun
<1>2. ASSUME NEW v \in Opened, verdict[v].said # None
      PROVE \E n \in Runs : FoundBy(n, v) /\ runs[n].of = v
  <2>1. PICK n \in Runs : FoundBy(n, v)
    BY <1>0, <1>2 DEF RunsHeld
  <2> QED
    BY <2>1 DEF FoundBy, NewestOf
<1>3. RunsTell
  <2> SUFFICES ASSUME NEW v \in Opened, verdict[v].said # None
               PROVE \E n \in NewestOf({m \in Verdicts : runs[m].of = v}) :
                       n \in RunHistory(verdict[v].by) /\ ((verdict[v].said = "confirmed") <=> (runs[n].status = "succeeded"))
    BY <1>1, Zenon DEF RunsTell
  <2>1. PICK n \in Runs : FoundBy(n, v)
    BY <1>2
  <2>2. n \in NewestOf({m \in Verdicts : runs[m].of = v}) /\ n \in RunHistory(verdict[v].by)
    BY <2>1 DEF FoundBy, RunHistory
  <2>3. (verdict[v].said = "confirmed") <=> (runs[n].status = "succeeded")
    BY <2>1 DEF FoundBy
  <2> QED
    BY Zenon, <2>2, <2>3
<1>4. ConnectorWorkload.pending + ConnectorWorkload.processing = 0
  <2>1. RunsIn({"queued"}) = {} /\ RunsIn({"running", "processing"}) = {}
    BY DEF RunsHeld, RunsIn, Run, RunStatus
  <2>2. ConnectorWorkload.pending = Cardinality({}) /\ ConnectorWorkload.processing = Cardinality({})
    BY <2>1 DEF ConnectorWorkload
  <2> QED
    BY <2>2, NoneCounted
<1>5. ASSUME NEW v \in Opened, verdict[v].said # None
      PROVE /\ <<v, verdict[v].by, IF verdict[v].said = "confirmed" THEN "succeeded" ELSE "failed">> \in ConnectorActivity
            /\ verdict[v].said = "discrepancy" => <<v, verdict[v].by>> \in ConnectorFailures
  <2>1. PICK n \in Runs : FoundBy(n, v) /\ runs[n].of = v
    BY <1>2, <1>5
  <2>2. /\ runs[n].of = v /\ runs[n].by = verdict[v].by
        /\ runs[n].status = IF verdict[v].said = "confirmed" THEN "succeeded" ELSE "failed"
    BY <2>1 DEF FoundBy
  <2>3. v # None
    BY <1>0, NullAssumption
  <2>4. n \in RunsIn({"failed", "succeeded"}) /\ (verdict[v].said = "discrepancy" => n \in RunsIn({"failed"}))
    BY <2>2, <2>3 DEF RunsIn
  <2> QED
    BY <2>2, <2>4 DEF ConnectorActivity, ConnectorFailures
<1>6. ASSUME NEW v \in Opened, verdict[v].said # None
      PROVE \E t \in ConnectorActivity : t[1] = v /\ t[2] = verdict[v].by /\ t[3] = (IF verdict[v].said = "confirmed" THEN "succeeded" ELSE "failed")
  <2>1. PICK st : st = IF verdict[v].said = "confirmed" THEN "succeeded" ELSE "failed"
    OBVIOUS
  <2>2. <<v, verdict[v].by, st>> \in ConnectorActivity
    BY Zenon, <1>5, <1>6, <2>1
  <2>3. <<v, verdict[v].by, st>>[1] = v /\ <<v, verdict[v].by, st>>[2] = verdict[v].by /\ <<v, verdict[v].by, st>>[3] = st
    OBVIOUS
  <2> QED
    BY <2>1, <2>2, <2>3
<1>7. \A v \in Opened : verdict[v].said = "discrepancy" => verdict[v].said # None
  BY NullAssumption
<1> QED
  BY <1>3, <1>4, <1>5, <1>6, <1>7, Zenon DEF RunsShown

(* ---- what is private stays so ---- *)
\* The next step shows the candidate nothing of what the organization keeps to itself, and neither of them an internal remark.
PrivateOf(v) ==
  /\ \/ dossiers'[v].assignee # dossiers[v].assignee
     \/ dossiers'[v].note # dossiers[v].note
     => ToCandidate(v)' = ToCandidate(v)
  /\ dossiers'[v].log \ dossiers[v].log = {"remarked"}
     => ToCandidate(v)' = ToCandidate(v) /\ ToOrganization(v)' = ToOrganization(v)
PrivateKept == \A v \in Opened : PrivateOf(v)
OthersKept(w) == \A v \in Requests : v # w => dossiers'[v] = dossiers[v]
LEMMA OthersPrivate ==
  ASSUME NEW w, OthersKept(w), w \in Opened => PrivateOf(w)
  PROVE PrivateKept
<1>1. ASSUME NEW v \in Opened, v # w PROVE PrivateOf(v)
  <2>1. dossiers'[v] = dossiers[v]
    BY <1>1 DEF OthersKept, Opened
  <2> QED
    BY <2>1 DEF PrivateOf
<1> QED
  BY <1>1 DEF PrivateKept

\* What is neither the organization's own nor a remark.
PlainlyWritten(w, e) ==
  /\ OthersKept(w) /\ e # "remarked"
  /\ dossiers'[w].assignee = dossiers[w].assignee /\ dossiers'[w].note = dossiers[w].note
  /\ dossiers'[w].log = dossiers[w].log \cup {e}
LEMMA PlainPrivate ==
  ASSUME NEW w, NEW e, PlainlyWritten(w, e)
  PROVE PrivateKept
<1>1. PrivateOf(w)
  BY DEF PlainlyWritten, PrivateOf
<1> QED
  BY <1>1, OthersPrivate DEF PlainlyWritten

\* The row of a request is written with an event.
LEMMA PlainWritten ==
  ASSUME FileTyped, NEW w \in Requests, NEW row \in Dossier, NEW e \in Event, dossiers' = [dossiers EXCEPT ![w] = Logged(row, e)],
         row.assignee = dossiers[w].assignee, row.note = dossiers[w].note, row.log = dossiers[w].log, e # "remarked"
  PROVE PrivateKept
<1>0. /\ \A v \in Requests : v # w => dossiers'[v] = dossiers[v]
      /\ dossiers'[w].assignee = row.assignee /\ dossiers'[w].note = row.note
      /\ dossiers'[w].log = row.log \cup {e}
  BY Zenon, RowWritten
<1>1. PlainlyWritten(w, e)
  BY <1>0, Zenon DEF PlainlyWritten, OthersKept
<1> QED
  BY <1>1, PlainPrivate

\* What is put in a row: the organization's own is private, a remark is for nobody, and a priority is plain.
PutsWhat(v, e, row) ==
  \/ e = "assigned" /\ \E p \in Staff \cup {None} : row = [dossiers[v] EXCEPT !.assignee = p]
  \/ e = "noted" /\ \E n \in BOOLEAN : row = [dossiers[v] EXCEPT !.note = n]
  \/ e \in {"hurried", "urged"} /\ \E n \in BOOLEAN : row = [dossiers[v] EXCEPT !.urgent = n]
  \/ e = "remarked" /\ row = dossiers[v]
LEMMA PutPrivate ==
  ASSUME FileHeld, NEW c, NEW v \in Opened, NEW e, NEW row, Put(c, v, e, row), PutsWhat(v, e, row),
         UNCHANGED <<cases, studies>>
  PROVE PrivateKept
<1>1. /\ v \in Requests /\ dossiers[v] \in Dossier /\ FileTyped /\ dossiers' = [dossiers EXCEPT ![v] = Logged(row, e)]
      /\ UNCHANGED items
  BY OpenedIs DEF FileHeld, FileBase, Put
<1>2. /\ row \in Dossier /\ row.status = dossiers[v].status /\ row.of = dossiers[v].of /\ row.fields = dossiers[v].fields
      /\ row.scopes = dossiers[v].scopes /\ row.snapshot = dossiers[v].snapshot /\ row.log = dossiers[v].log
      /\ e \notin {"assigned", "noted"} => row.assignee = dossiers[v].assignee /\ row.note = dossiers[v].note
  <2>1. CASE e = "assigned" /\ \E p \in Staff \cup {None} : row = [dossiers[v] EXCEPT !.assignee = p]
    BY <1>1, <2>1 DEF Dossier
  <2>2. CASE e = "noted" /\ \E n \in BOOLEAN : row = [dossiers[v] EXCEPT !.note = n]
    BY <1>1, <2>2 DEF Dossier
  <2>3. CASE \E n \in BOOLEAN : row = [dossiers[v] EXCEPT !.urgent = n]
    BY <1>1, <2>3 DEF Dossier
  <2>4. CASE row = dossiers[v]
    BY <1>1, <2>4
  <2> QED
    BY <2>1, <2>2, <2>3, <2>4 DEF PutsWhat
<1>3. e \in {"assigned", "noted", "hurried", "urged", "remarked"} /\ e \in Event
  BY DEF PutsWhat, Event
<1>4. CASE e \in {"hurried", "urged"}
  BY Zenon, <1>1, <1>2, <1>3, <1>4, PlainWritten
<1>5. CASE e \in {"assigned", "noted", "remarked"}
  <2>1. /\ OthersKept(v) /\ dossiers'[v].of = dossiers[v].of /\ dossiers'[v].status = dossiers[v].status
        /\ dossiers'[v].fields = dossiers[v].fields /\ dossiers'[v].scopes = dossiers[v].scopes
        /\ dossiers'[v].snapshot = dossiers[v].snapshot /\ dossiers'[v].log = dossiers[v].log \cup {e}
        /\ dossiers'[v].assignee = row.assignee /\ dossiers'[v].note = row.note
    <3>1. /\ \A u \in Requests : u # v => dossiers'[u] = dossiers[u]
          /\ dossiers'[v].of = row.of /\ dossiers'[v].status = row.status
          /\ dossiers'[v].fields = row.fields /\ dossiers'[v].scopes = row.scopes
          /\ dossiers'[v].snapshot = row.snapshot /\ dossiers'[v].log = row.log \cup {e}
          /\ dossiers'[v].assignee = row.assignee /\ dossiers'[v].note = row.note
      BY Zenon, <1>1, <1>2, <1>3, RowWritten
    <3> QED
      BY <1>2, <3>1, Zenon DEF OthersKept
  <2>2. Evidence(v)' = Evidence(v) /\ {items[i] : i \in Evidence(v)}' = {items[i] : i \in Evidence(v)}
    BY <1>1 DEF Evidence
  <2>3. Snapshot(v)' = Snapshot(v)
    BY <2>1 DEF Snapshot, Live
  <2>4. ToCandidate(v)' = ToCandidate(v)
    <3>1. TimelineToCandidate(v)' = TimelineToCandidate(v)
      BY <1>5, <2>1 DEF TimelineToCandidate, Private
    <3> QED
      BY Zenon, <2>1, <2>2, <2>3, <3>1 DEF ToCandidate
  <2>5. e = "remarked" => ToOrganization(v)' = ToOrganization(v)
    <3> SUFFICES ASSUME e = "remarked" PROVE ToOrganization(v)' = ToOrganization(v)
      OBVIOUS
    <3>1. TimelineToOrganization(v)' = TimelineToOrganization(v)
      BY <2>1 DEF TimelineToOrganization
    <3>2. ClaimToOrganization(v)' = ClaimToOrganization(v)
      BY <2>1, <2>3 DEF ClaimToOrganization
    <3>3. EvidenceToOrganization(v)' = EvidenceToOrganization(v)
      BY <1>1, <2>1, <2>2 DEF EvidenceToOrganization
    <3>4. {items[i] : i \in EvidenceToOrganization(v)}' = {items[i] : i \in EvidenceToOrganization(v)}
      BY <1>1, <3>3
    <3>5. dossiers'[v].assignee = dossiers[v].assignee /\ dossiers'[v].note = dossiers[v].note
      BY <1>2, <2>1
    <3> QED
      BY Zenon, <2>1, <3>1, <3>2, <3>4, <3>5 DEF ToOrganization
  <2>6. e # "remarked" => dossiers'[v].log \ dossiers[v].log # {"remarked"}
    BY <2>1
  <2> QED
    BY <2>1, <2>4, <2>5, <2>6, OthersPrivate DEF PrivateOf
<1> QED
  BY <1>3, <1>4, <1>5

LEMMA PutsPrivate ==
  ASSUME FileHeld, NEW c, UNCHANGED <<cases, studies>>,
         AssignReviewer(c) \/ UpdateInternalNote(c) \/ ChangePriority(c) \/ AdminRemark(c)
  PROVE PrivateKept
<1>1. CASE AssignReviewer(c)
  BY <1>1, PutPrivate DEF AssignReviewer, Within, PutsWhat
<1>2. CASE UpdateInternalNote(c)
  BY <1>2, PutPrivate DEF UpdateInternalNote, Within, PutsWhat
<1>3. CASE ChangePriority(c)
  BY Zenon, <1>3, PutPrivate DEF ChangePriority, PutsWhat
<1>4. CASE AdminRemark(c)
  BY <1>4, PutPrivate DEF AdminRemark, PutsWhat
<1> QED
  BY <1>1, <1>2, <1>3, <1>4

LEMMA LogIs ==
  ASSUME FileTyped, NEW w \in Requests, NEW e \in Event
  PROVE \E r \in Dossier :
          /\ Log(w, e) = [dossiers EXCEPT ![w] = r]
          /\ r.assignee = dossiers[w].assignee /\ r.note = dossiers[w].note /\ r.log = dossiers[w].log \cup {e}
<1>1. PICK r : r = Logged(dossiers[w], e)
  OBVIOUS
<1>2. dossiers[w] \in Dossier
  BY DEF FileTyped
<1>3. r \in Dossier /\ r.assignee = dossiers[w].assignee /\ r.note = dossiers[w].note /\ r.log = dossiers[w].log \cup {e}
  BY <1>1, <1>2 DEF Logged, Dossier
<1>4. Log(w, e) = [dossiers EXCEPT ![w] = r]
  BY <1>1 DEF Log
<1> QED
  BY Zenon, <1>3, <1>4

\* So is every other event of a request plain.
LEMMA LoggedPrivate ==
  ASSUME FileTyped, NEW w \in Requests, NEW e \in Event, e # "remarked",
         \/ dossiers' = Log(w, e)
         \/ \E t : dossiers' = [Log(w, e) EXCEPT ![w].status = t]
         \/ dossiers' = [Log(w, e) EXCEPT ![w].opened = TRUE]
         \/ \E a : dossiers' = [Log(w, e) EXCEPT ![w].status = "PENDING_ADMIN_REVIEW",
              ![w].consented = TRUE, ![w].fields = a.fields, ![w].scopes = a.scopes, ![w].snapshot = a.version]
  PROVE PrivateKept
<1>1. PICK g : g = Log(w, e)
  BY Zenon
<1>2. PICK r \in Dossier :
        /\ g = [dossiers EXCEPT ![w] = r]
        /\ r.assignee = dossiers[w].assignee /\ r.note = dossiers[w].note /\ r.log = dossiers[w].log \cup {e}
  BY Zenon, <1>1, LogIs
<1>3. g \in [Requests -> Dossier] /\ g[w] = r /\ \A v \in Requests : v # w => g[v] = dossiers[v]
  BY Zenon, <1>2 DEF FileTyped
<1>4. r.assignee = dossiers[w].assignee /\ r.note = dossiers[w].note /\ r.log = dossiers[w].log \cup {e}
  BY Zenon, <1>2
<1>5. ASSUME NEW q, q.assignee = r.assignee, q.note = r.note, q.log = r.log, dossiers' = [g EXCEPT ![w] = q]
      PROVE PrivateKept
  <2>1. dossiers'[w] = q /\ \A v \in Requests : v # w => dossiers'[v] = dossiers[v]
    BY Zenon, <1>3, <1>5
  <2>2. PlainlyWritten(w, e)
    BY Zenon, <1>4, <1>5, <2>1 DEF PlainlyWritten, OthersKept
  <2> QED
    BY Zenon, <2>2, PlainPrivate
<1>6. CASE dossiers' = g
  <2>1. dossiers' = [g EXCEPT ![w] = r]
    BY Zenon, <1>3, <1>6
  <2> QED
    BY Zenon, <1>5, <2>1
<1>7. CASE \E t : dossiers' = [g EXCEPT ![w].status = t]
  <2>1. PICK t : dossiers' = [g EXCEPT ![w].status = t]
    BY Zenon, <1>7
  <2>2. PICK q : q = [r EXCEPT !.status = t]
    BY Zenon
  <2>3. q.assignee = r.assignee /\ q.note = r.note /\ q.log = r.log
    BY Zenon, <1>2, <2>2 DEF Dossier
  <2>4. dossiers' = [g EXCEPT ![w] = q]
    BY Zenon, <1>3, <2>1, <2>2
  <2> QED
    BY Zenon, <1>5, <2>3, <2>4
<1>8. CASE dossiers' = [g EXCEPT ![w].opened = TRUE]
  <2>2. PICK q : q = [r EXCEPT !.opened = TRUE]
    BY Zenon
  <2>3. q.assignee = r.assignee /\ q.note = r.note /\ q.log = r.log
    BY Zenon, <1>2, <2>2 DEF Dossier
  <2>4. dossiers' = [g EXCEPT ![w] = q]
    BY Zenon, <1>3, <1>8, <2>2
  <2> QED
    BY Zenon, <1>5, <2>3, <2>4
<1>9. CASE \E a : dossiers' = [g EXCEPT ![w].status = "PENDING_ADMIN_REVIEW",
             ![w].consented = TRUE, ![w].fields = a.fields, ![w].scopes = a.scopes, ![w].snapshot = a.version]
  <2>1. PICK a : dossiers' = [g EXCEPT ![w].status = "PENDING_ADMIN_REVIEW",
             ![w].consented = TRUE, ![w].fields = a.fields, ![w].scopes = a.scopes, ![w].snapshot = a.version]
    BY Zenon, <1>9
  <2>2. PICK q : q = [r EXCEPT !.status = "PENDING_ADMIN_REVIEW", !.consented = TRUE, !.fields = a.fields,
                               !.scopes = a.scopes, !.snapshot = a.version]
    BY Zenon
  <2>3. q.assignee = r.assignee /\ q.note = r.note /\ q.log = r.log
    BY Zenon, <1>2, <2>2 DEF Dossier
  <2>4. dossiers' = [g EXCEPT ![w] = q]
    BY Zenon, <1>3, <2>1, <2>2
  <2> QED
    BY Zenon, <1>5, <2>3, <2>4
<1> QED
  BY Zenon, <1>1, <1>6, <1>7, <1>8, <1>9

LEMMA PrivateHeldNext ==
  ASSUME FileHeld, [Next]_vars
  PROVE PrivateKept
<1>1. FileTyped /\ PartsAlone /\ \A c \in Calls : call[c].pc \in FileFlight => call[c].on \in Requests
  BY DEF FileHeld, FileBase, FileCall, Opened
<1>2. {"moved", "edited", "opened"} \subseteq Event
  BY DEF Event
<1>3. UNCHANGED dossiers => PrivateKept
  BY DEF PrivateKept, PrivateOf
<1>4. ASSUME NEW c \in Calls, AddEvidence(c) \/ UpdateEvidence(c) \/ SendForReview(c) \/ EditClaim(c) \/ CommitClaim(c)
      PROVE PrivateKept
  <2>1. UNCHANGED dossiers
    BY <1>4, Zenon DEF AddEvidence, UpdateEvidence, SendForReview, EditClaim, CommitClaim, OnFile, fileVars
  <2> QED
    BY <1>3, <2>1
<1>5. ASSUME NEW c \in Calls, CommitEvidence(c) \/ CommitAmendment(c)
      PROVE PrivateKept
  <2>1. dossiers' = Log(call[c].on, "edited") /\ call[c].pc \in FileFlight
    BY <1>5 DEF CommitEvidence, CommitAmendment, FileFlight
  <2> QED
    BY Zenon, <1>1, <1>2, <2>1, LoggedPrivate
<1>6. ASSUME NEW c \in Calls, CommitConsent(c)
      PROVE PrivateKept
  <2>1. PICK k, a : k = call[c] /\ a = call[c].arg
    OBVIOUS
  <2>2. /\ k.pc = "consent"
        /\ dossiers' = [Log(k.on, "moved") EXCEPT ![k.on].status = "PENDING_ADMIN_REVIEW",
             ![k.on].consented = TRUE, ![k.on].fields = a.fields, ![k.on].scopes = a.scopes, ![k.on].snapshot = a.version]
    BY <1>6, <2>1 DEF CommitConsent
  <2>3. k.on \in Requests
    BY <1>1, <2>1, <2>2 DEF FileFlight
  <2> QED
    BY Zenon, <1>1, <1>2, <2>2, <2>3, LoggedPrivate
<1>7. ASSUME NEW c \in Calls, Moves(c)
      PROVE PrivateKept
  <2>1. PICK v \in Opened : \E t \in Passed(v) : dossiers' = [Log(v, "moved") EXCEPT ![v].status = t]
    BY <1>7, Zenon DEF Moves
  <2>2. v \in Requests
    BY DEF Opened
  <2> QED
    BY Zenon, <1>1, <1>2, <2>1, <2>2, LoggedPrivate
<1>8. OpenPortal => PrivateKept
  <2> SUFFICES ASSUME OpenPortal PROVE PrivateKept
    OBVIOUS
  <2>1. PICK v \in Requests : dossiers' = [Log(v, "opened") EXCEPT ![v].opened = TRUE]
    BY Zenon DEF OpenPortal
  <2> QED
    BY Zenon, <1>1, <1>2, <2>1, LoggedPrivate
<1>9. ASSUME NEW c \in Calls, Verify(c) \/ MoveBegins(c) \/ UpdateConnector(c) \/ Connect(c)
      PROVE PrivateKept
  <2>1. UNCHANGED dossiers
    BY <1>9, Zenon DEF Verify, MoveBegins, UpdateConnector, Connect, OnFile, fileVars
  <2> QED
    BY <1>3, <2>1
<1>10. ASSUME NEW c \in Calls, ConnectorAnswers(c)
       PROVE PrivateKept
  <2>1. PICK o : AnswerGiven(c, o)
    BY <1>10, AnswersAre
  <2>2. call[c].pc \in FileFlight /\ \E t : dossiers' = [Log(call[c].on, "moved") EXCEPT ![call[c].on].status = t]
    BY <2>1, Zenon DEF AnswerGiven, FileFlight
  <2> QED
    BY Zenon, <1>1, <1>2, <2>2, LoggedPrivate
<1>11. ASSUME NEW c \in Calls, CommitMove(c)
       PROVE PrivateKept
  <2>1. call[c].pc \in FileFlight /\ \E t : dossiers' = [Log(call[c].on, "moved") EXCEPT ![call[c].on].status = t]
    BY <1>11, Zenon DEF CommitMove, FileFlight
  <2> QED
    BY Zenon, <1>1, <1>2, <2>1, LoggedPrivate
<1>12. CASE FileNext
  <2>1. ASSUME NEW c \in Calls, UNCHANGED <<cases, files, ghosts, studyVars>>,
               AssignReviewer(c) \/ UpdateInternalNote(c) \/ ChangePriority(c) \/ AdminRemark(c)
        PROVE PrivateKept
    BY <2>1, PutsPrivate DEF studyVars
  <2> QED
    BY <1>4, <1>5, <1>6, <1>7, <1>8, <1>12, <2>1, Zenon DEF FileNext
<1>13. CASE ConnectorsNext
  BY <1>9, <1>10, <1>11, <1>13, Zenon DEF ConnectorsNext
<1>14. UNCHANGED fileVars => PrivateKept
  BY <1>3 DEF fileVars
<1> QED
  BY <1>1, <1>12, <1>13, <1>14, FileAside

(* ---- an answer about a record stands ---- *)
AnswersStand == \A e \in Entries \ twice : confirmations[e].response # "pending" =>
  confirmations'[e].response = confirmations[e].response
LEMMA AnswersStandNext ==
  ASSUME RecordsHeld, [Next]_vars
  PROVE AnswersStand
<1>1. UNCHANGED confirmations => AnswersStand
  BY DEF AnswersStand
<1>2. UNCHANGED recordVars => AnswersStand
  BY <1>1 DEF recordVars
<1>3. CASE ConfirmationLapses
  <2>1. PICK e \in Entries : confirmations' = [confirmations EXCEPT ![e].lapsed = TRUE]
    BY <1>3, Zenon DEF ConfirmationLapses
  <2>2. confirmations \in [Entries -> Confirmation] /\ confirmations[e] \in Confirmation
    BY DEF RecordsHeld, RecordsTyped
  <2>3. \A x \in Entries : confirmations'[x].response = confirmations[x].response
    BY <2>1, <2>2 DEF Confirmation
  <2> QED
    BY <2>3 DEF AnswersStand
<1>4. ASSUME NEW c \in Calls, RecordStart(c)
      PROVE AnswersStand
  <2>1. UNCHANGED confirmations
    BY <1>4, Zenon DEF RecordStart, AddEntry, EditEntry, DeleteEntry, MarkUploaded, SheetIntent, SheetComplete, SheetDelete,
      AnnounceFile, ConfirmRecord, recordVars
  <2> QED
    BY <1>1, <2>1
<1>5. ASSUME NEW c \in Calls, CommitRecord(c) \/ CommitSheet(c)
      PROVE AnswersStand
  <2>1. UNCHANGED confirmations
    BY <1>5 DEF CommitRecord, CommitSheet
  <2> QED
    BY <1>1, <2>1
<1>6. ASSUME NEW c \in Calls, CommitDecision(c)
      PROVE AnswersStand
  <2>1. PICK k : k = call[c]
    OBVIOUS
  <2>2. k.pc = "confirming" /\ confirmations' = [confirmations EXCEPT ![k.on].response = k.arg]
    BY <1>6, <2>1 DEF CommitDecision
  <2>3. k.on \notin twice => confirmations[k.on].response = "pending"
    BY <2>1, <2>2 DEF RecordsHeld, RecordCalls, AnswerHeld
  <2>4. \A x \in Entries : x # k.on => confirmations'[x] = confirmations[x]
    BY <2>2 DEF RecordsHeld, RecordsTyped
  <2> QED
    BY <2>3, <2>4 DEF AnswersStand
<1> QED
  BY <1>2, <1>3, <1>4, <1>5, <1>6, RecordsAside, RecordActs, Zenon DEF RecordCommit

(* ---- from the start on ---- *)
LEMMA StudiesBegin ==
  ASSUME Init
  PROVE StudiesHeld
<1>1. PICK s \in Starts :
        /\ studies = s.studies /\ asks = s.asks /\ links = s.links
        /\ call = [c \in Calls |-> IF c \in s.calls THEN Blank ELSE Over]
  BY DEF Init
<1>2. heard = {} /\ muddled = {}
  BY DEF Init
<1>3. DOMAIN call = Calls /\ \A c \in Calls : call[c].pc \in {"idle", "done"}
  BY <1>1 DEF Blank, Over, Call
<1>4. StudiesTyped
  BY <1>1, <1>2, StartsAssumption DEF StudiesTyped
<1>5. StudiesBegun(s)
  BY StartsAssumption
<1>6. \A v \in Requests :
       /\ asks[v].study # None => \A w \in Requests : w < v => asks[w].study # None
       /\ asks[v].status \in Workflow!PostApproval => asks[v].approved /\ asks[v].snapshot > 0
       /\ asks[v].status \in Workflow!OrganizationVisible => asks[v].approved /\ asks[v].snapshot > 0 /\ asks[v].org /\ links[v].token > 0
       /\ asks[v].status \notin {"PENDING_ADMIN_QUALITY_REVIEW", "VERIFIED"} /\ (asks[v].outreach => asks[v].org)
       /\ links[v].token > 0 <=> asks[v].study # None /\ asks[v].outreach
       /\ links[v].token = 0 => links[v].answer = "none"
  BY <1>1, <1>5 DEF StudiesBegun
<1>7. \A x \in Studies : {v \in Requests : asks[v].study = x /\ \A w \in Requests : asks[w].study = x => w <= v} = LastAsk(x)
  BY NullAssumption DEF LastAsk, RequestsOf, Asked
<1>8. \A x \in Studies :
       /\ studies[x].status # "verified"
       /\ studies[x].there /\ studies[x].status = "pending" => \E v \in LastAsk(x) : asks[v].status # "WITHDRAWN_BY_CANDIDATE"
       /\ \A v \in Requests : asks[v].study = x => LastAsk(x) # {} /\ (v \in LastAsk(x) \/ asks[v].status \in Workflow!Terminal)
  <2> SUFFICES ASSUME NEW x \in Studies
               PROVE /\ studies[x].status # "verified"
                     /\ studies[x].there /\ studies[x].status = "pending" => \E v \in LastAsk(x) : asks[v].status # "WITHDRAWN_BY_CANDIDATE"
                     /\ \A v \in Requests : asks[v].study = x => LastAsk(x) # {} /\ (v \in LastAsk(x) \/ asks[v].status \in Workflow!Terminal)
    OBVIOUS
  <2>1. PICK newest : newest = {v \in Requests : s.asks[v].study = x /\ \A w \in Requests : s.asks[w].study = x => w <= v}
    BY Zenon
  <2>2. /\ s.studies[x].status # "verified"
        /\ s.studies[x].there /\ s.studies[x].status = "pending" => \E v \in newest : s.asks[v].status # "WITHDRAWN_BY_CANDIDATE"
        /\ \A v \in Requests : s.asks[v].study = x => newest # {} /\ (v \in newest \/ s.asks[v].status \in Workflow!Terminal)
    BY <1>5, <2>1 DEF StudiesBegun
  <2>3. newest = LastAsk(x)
    BY <1>1, <1>7, <2>1
  <2> QED
    BY <1>1, <2>2, <2>3
<1>9. \A v \in Requests : Told(v)
  BY <1>6 DEF Told, Out, WithInstitution, Asked
<1>10. Numbered
  BY <1>6, <1>8 DEF Numbered, Asked, RequestsOf
<1>11. \A x \in Studies : Follows(x)
  <2> SUFFICES ASSUME NEW x \in Studies PROVE Follows(x)
    OBVIOUS
  <2>1. \A v \in LastAsk(x) : asks[v].status # "VERIFIED"
    BY <1>6 DEF LastAsk, RequestsOf, Asked
  <2> QED
    BY <1>8, <2>1 DEF Follows, Records, Unsettled, RequestsOf, Asked
<1> QED
  BY <1>3, <1>4, <1>9, <1>10, <1>11 DEF StudiesHeld, StudyCalls, StudiesApart, StudyFlight

LEMMA FilesBegin ==
  ASSUME Init
  PROVE FileHeld
<1>1. PICK s \in Starts :
        /\ cases = s.cases /\ studies = s.studies /\ dossiers = s.dossiers /\ items = s.items /\ parts = s.parts
        /\ call = [c \in Calls |-> IF c \in s.calls THEN Blank ELSE Over]
  BY DEF Init
<1>2. /\ doubled = {}
      /\ given = [v \in Requests |-> [scopes |-> dossiers[v].scopes, fields |-> dossiers[v].fields, version |-> dossiers[v].snapshot]]
  BY DEF Init
<1>3. DOMAIN call = Calls /\ \A c \in Calls : call[c].pc \in {"idle", "done"}
  BY <1>1 DEF Blank, Over, Call
<1>4. /\ cases \in [Cases -> Case] /\ studies \in [Studies -> Study] /\ dossiers \in [Requests -> Dossier] /\ items \in [Items -> Exhibit]
      /\ FilesBegun(s)
  BY <1>1, StartsAssumption
<1>5. given \in [Requests -> Given]
  <2> SUFFICES ASSUME NEW v \in Requests
               PROVE [scopes |-> dossiers[v].scopes, fields |-> dossiers[v].fields, version |-> dossiers[v].snapshot] \in Given
    BY <1>2
  <2>1. dossiers[v] \in Dossier
    BY <1>4
  <2> QED
    BY <2>1 DEF Dossier, Given
<1>6. FileBase
  <2>1. PartsAlone
    BY <1>1, <1>4 DEF FilesBegun, PartsAlone
  <2> QED
    BY <1>2, <1>3, <1>4, <1>5, <2>1 DEF FileBase, FileTyped, FilesApart, FileFlight
<1>7. \A v \in Requests : DossierOk(v)
  <2> SUFFICES ASSUME NEW v \in Requests PROVE DossierOk(v)
    OBVIOUS
  <2>1. /\ dossiers[v].consented => dossiers[v].snapshot # None
        /\ dossiers[v].of # None /\ dossiers[v].status \in Gone => dossiers[v].consented
    BY <1>1, <1>4 DEF FilesBegun, Gone
  <2> QED
    BY <1>2, <2>1 DEF DossierOk, Opened
<1>8. AttachedOnce
  BY <1>1, <1>4, Zenon DEF FilesBegun, AttachedOnce
<1>9. ClaimsDated
  BY <1>1, <1>3, <1>4 DEF ClaimsDated, FilesBegun
<1> QED
  BY <1>3, <1>6, <1>7, <1>8, <1>9 DEF FileHeld, DossiersHeld, DossierCalls, ItemsHeld, ItemCalls, FileFlight

LEMMA RunsBegin ==
  ASSUME Init
  PROVE RunsHeld
<1>1. runs = [n \in Runs |-> NoRun] /\ verdict = [v \in Requests |-> NoVerdict]
  BY DEF Init
<1>2. NoRun \in Run /\ NoVerdict \in Verdict /\ NoVerdict.said = None
  BY DEF NoRun, Run, RunStatus, NoVerdict, Verdict
<1> QED
  BY <1>1, <1>2 DEF RunsHeld

\* What holds of a candidate's records from the start on.
CareerHeld == ProfileHeld /\ StudiesHeld /\ FileHeld /\ RunsHeld
LEMMA CareerGoesOn ==
  ASSUME CareerHeld, [Next]_vars
  PROVE CareerHeld'
BY ProfileGoesOn, StudiesHeldNext, FileHeldNext, RunsHeldNext DEF CareerHeld
LEMMA AlwaysHeld == Spec => []CareerHeld
<1>1. Init => CareerHeld
  BY ProfileBegins, StudiesBegin, FilesBegin, RunsBegin DEF CareerHeld
<1>2. CareerHeld /\ [Next]_vars => CareerHeld'
  BY CareerGoesOn
<1> QED
  BY <1>1, <1>2, PTL DEF Spec

\* An education record shows what became of its newest request, the file of a request shows an organization what was given for it, and a verdict is what the connector that is named found (EducationVerification, RequestFile, Connectors), whatever calls overlap, but for what StudiesInOrder excepts: the records, requests and claims two calls met on, for all parts of it but VerifiedOnAnswer, RunsTell and RunsShown.
THEOREM StudiesKept == Spec => []StudiesInOrder
<1>1. CareerHeld => StudiesInOrder
  BY StudiesFollow, FilesShown, RunsFollow DEF CareerHeld, StudiesInOrder
<1> QED
  BY <1>1, AlwaysHeld, PTL

\* No step takes an answer back, shows anybody what is not for them, scores without consent, forgets who visited or lets a verdict count out of turn, whatever calls overlap, but for what StandsAndStays excepts: answers to one link, calls on one record or request, and visits from one address, at the same time, and a calculation under way when consent is withdrawn.
THEOREM StandsKept == Spec => StandsAndStays
<1>1. CareerHeld /\ [Next]_vars =>
        [\A v \in Asked : asks[v].study \notin muddled' =>
           /\ links[v].token > 0 => links'[v].token = links[v].token
           /\ links[v].answer # "none" => links'[v].answer = links[v].answer]_<<asks, links, muddled>>
  BY StudiesHeldNext DEF CareerHeld, LinksStand
<1>2. CareerHeld /\ [Next]_vars =>
        [\A v \in Opened :
           /\ \/ dossiers'[v].assignee # dossiers[v].assignee
              \/ dossiers'[v].note # dossiers[v].note
              => ToCandidate(v)' = ToCandidate(v)
           /\ dossiers'[v].log \ dossiers[v].log = {"remarked"}
              => ToCandidate(v)' = ToCandidate(v) /\ ToOrganization(v)' = ToOrganization(v)]_dossiers
  BY PrivateHeldNext DEF CareerHeld, PrivateKept, PrivateOf
<1>3. CareerHeld /\ [Next]_vars =>
        [\A e \in Entries \ twice : confirmations[e].response # "pending" =>
           confirmations'[e].response = confirmations[e].response]_confirmations
  BY AnswersStandNext DEF CareerHeld, ProfileHeld, AnswersStand
<1>4. CareerHeld /\ [Next]_vars =>
        [\A n \in Snapshots : snapshots'[n] # snapshots[n] /\ snapshots'[n].result.status # "consent_required" =>
           consent # 0 \/ snapshots'[n].at \in late]_<<snapshots, consent>>
  BY ScoresHeldNext DEF CareerHeld, ProfileHeld, ScoredWith
<1>5. CareerHeld /\ [Next]_vars =>
        [\A n \in Visits : visits[n].who # None /\ visits[n].from \notin hustled =>
           visits'[n].who = visits[n].who]_visits
  BY VisitsHeldNext DEF CareerHeld, ProfileHeld
<1>6. CareerHeld /\ [Next]_vars =>
        [\A n \in Runs : runs'[n] # runs[n] /\ runs'[n].result \in {"verified", "failed"} =>
           LET v == runs'[n].of IN
           v \in doubled \/ (dossiers[v].status \in Workflow!OrganizationVisible
                             /\ dossiers'[v].status = "PENDING_ADMIN_QUALITY_REVIEW")]_<<runs, dossiers>>
  BY RunsHeldNext DEF CareerHeld, DecidedInTurn
<1> QED
  BY <1>1, <1>2, <1>3, <1>4, <1>5, <1>6, AlwaysHeld, PTL
  DEF Spec, StandsAndStays, AnswerStands, PrivateStays, ConfirmationStands, NothingScoredWithout, KnownViewer, VerdictEndsTurn
================================================================================
