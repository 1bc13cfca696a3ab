------------------------- MODULE AsyncSubmitProofs -------------------------
(* Proofs about the end of a frame on Android, for any surroundings and    *)
(* any number of images.                                                   *)
EXTENDS AsyncSubmit, SequenceTheorems, TLAPS

Owners == {"video", "job", "left"}

(* The type invariant, its parts apart, and what the pending frame makes   *)
(* inductive of it: the video thread draws and submits only when there is  *)
(* none, and a frame that is queued has an image to release.               *)
FlagTypes ==
  /\ setup \in Setups
  /\ running \in BOOLEAN /\ lost \in BOOLEAN /\ waited \in BOOLEAN
  /\ shouldRender \in BOOLEAN /\ failed \in BOOLEAN /\ left \in BOOLEAN
  /\ open \in {"none", "video", "job"}
PresentTypes ==
  /\ begun \in BOOLEAN /\ started \in BOOLEAN
  /\ part \in {"start", "next"}
  /\ pc \in {"game", "poll", "begin", "render", "submit"}
ImageTypes ==
  /\ imageWaited \in BOOLEAN /\ acquired \in BOOLEAN
  /\ images \in Seq(Owners) /\ Len(images) <= NumImages
JobTypes == job \in {NoJob} \cup Job
JobInv ==
  /\ pc = "submit" => job = NoJob
  /\ acquired => job = NoJob /\ imageWaited /\ images # <<>>
  /\ job.at = "queued" => imageWaited /\ images # <<>>
Types == FlagTypes /\ PresentTypes /\ ImageTypes /\ JobTypes /\ JobInv

LEMMA JobsApart ==
  /\ NoJob.at = "none"
  /\ \A j \in Job : j # NoJob /\ j.at \in {"queued", "released", "ended"} /\ j.ok \in BOOLEAN
BY DEF NoJob, Job

\* Images that are left or handed over stay as many.
LEMMA AsManyImages ==
  ASSUME NEW s \in Seq(Owners), NEW t \in [1..Len(s) -> Owners]
  PROVE  /\ t \in Seq(Owners) /\ Len(t) = Len(s)
         /\ s # <<>> => t # <<>>
         /\ s = <<>> => t = <<>>
<1>1. Len(s) \in Nat
  BY LenProperties
<1>2. t \in Seq(Owners)
  BY <1>1, SeqDef
<1>3. Len(t) = Len(s)
  BY <1>1, <1>2, LenProperties
<1>4. QED
  BY <1>1, <1>2, <1>3, EmptySeq

LEMMA LeavesTypes ==
  ASSUME ImageTypes, Leaves
  PROVE  /\ images' \in Seq(Owners) /\ Len(images') = Len(images)
         /\ images # <<>> => images' # <<>>
         /\ images = <<>> => images' = <<>>
<1>1. images' \in [1..Len(images) -> Owners]
  BY DEF Leaves, Owners
<1>2. images \in Seq(Owners)
  BY DEF ImageTypes
<1>3. QED
  BY <1>1, <1>2, AsManyImages

LEMMA QueuesTypes ==
  ASSUME ImageTypes, SubmitQueues
  PROVE  /\ images' \in Seq(Owners) /\ Len(images') = Len(images)
         /\ images # <<>> => images' # <<>>
<1>1. images' \in [1..Len(images) -> Owners]
  BY DEF SubmitQueues, Owners
<1>2. images \in Seq(Owners)
  BY DEF ImageTypes
<1>3. QED
  BY <1>1, <1>2, AsManyImages

LEMMA RenderTypes ==
  ASSUME ImageTypes, RenderXFB
  PROVE  \/ ImageTypes' /\ (acquired' => imageWaited' /\ images' # <<>>)
         \/ UNCHANGED imageVars
<1>1. CASE UNCHANGED imageVars
  BY <1>1
<1>2. CASE /\ Len(images) < NumImages
           /\ images' = IF imageWaited THEN Tail(Append(images, "video"))
                                       ELSE Append(images, "video")
           /\ imageWaited' = ~imageWaited /\ acquired' = ~imageWaited
  <2>1. /\ images \in Seq(Owners) /\ "video" \in Owners /\ imageWaited \in BOOLEAN
        /\ NumImages \in Nat /\ Len(images) \in Nat
    BY AsyncSubmitAssumption, LenProperties DEF ImageTypes, Owners
  <2> DEFINE more == Append(images, "video")
  <2>2. more \in Seq(Owners) /\ Len(more) = Len(images) + 1
    BY <2>1, AppendProperties
  <2>3. more # <<>>
    BY <2>1, <2>2, EmptySeq
  <2>4. Tail(more) \in Seq(Owners) /\ Len(Tail(more)) = Len(images)
    BY <2>1, <2>2, <2>3, HeadTailProperties
  <2> HIDE DEF more
  <2>5. CASE imageWaited
    BY <1>2, <2>1, <2>4, <2>5 DEF ImageTypes, more
  <2>6. CASE ~imageWaited
    <3>1. images' = more /\ imageWaited' = TRUE /\ acquired' = TRUE
      BY <1>2, <2>1, <2>6 DEF more
    <3>2. QED
      BY <3>1, <1>2, <2>1, <2>2, <2>3 DEF ImageTypes
  <2>7. QED
    BY <2>5, <2>6
<1>3. QED
  BY <1>1, <1>2 DEF RenderXFB

LEMMA FrameDecidedTypes ==
  ASSUME PresentTypes, NEW ok \in BOOLEAN, FrameDecided(ok)
  PROVE  PresentTypes' /\ pc' \in {"render", "game"}
BY DEF FrameDecided, PresentTypes

\* Each case of SubmitFrame: at most one frame is on its way, and what it
\* takes along is the video thread's no more.
LEMMA SubmitTypes ==
  ASSUME Types, SubmitFrame
  PROVE  /\ ImageTypes' /\ JobTypes' /\ JobInv'
         /\ failed' \in BOOLEAN /\ left' \in BOOLEAN /\ open' \in {"none", "video", "job"}
<1> USE DEF Types
<1>1. /\ pc = "submit" /\ pc' = "poll" /\ job = NoJob /\ UNCHANGED <<imageWaited, shouldRender>>
      /\ images \in Seq(Owners) /\ Len(images) <= NumImages /\ shouldRender \in BOOLEAN
  BY DEF SubmitFrame, JobInv, ImageTypes, FlagTypes
<1>2. CASE SubmitRefuses \/ SubmitSkipped
  <2>1. Leaves /\ UNCHANGED <<open, job, acquired>> /\ failed' \in BOOLEAN
    BY <1>2 DEF SubmitRefuses, SubmitSkipped, FlagTypes
  <2>2. left' \in BOOLEAN
    BY <2>1 DEF Leaves
  <2>3. QED
    BY <1>1, <2>1, <2>2, LeavesTypes, JobsApart DEF ImageTypes, JobTypes, JobInv, FlagTypes
<1>3. CASE SubmitWithoutViews
  <2>1. Leaves /\ UNCHANGED <<job, acquired, failed>> /\ open' \in {open, "none"}
    BY <1>3 DEF SubmitWithoutViews, EndsItself
  <2>2. left' \in BOOLEAN
    BY <2>1 DEF Leaves
  <2>3. QED
    BY <1>1, <2>1, <2>2, LeavesTypes, JobsApart DEF ImageTypes, JobTypes, JobInv, FlagTypes
<1>4. CASE SubmitQueues
  <2>1. /\ acquired /\ job' = [at |-> "queued", layers |-> shouldRender, ok |-> TRUE]
        /\ acquired' = FALSE /\ open' \in {open, "job"} /\ UNCHANGED <<failed, left>>
    BY <1>4 DEF SubmitQueues
  <2>2. job' \in Job
    BY <1>1, <2>1 DEF Job
  <2>3. QED
    BY <1>1, <1>4, <2>1, <2>2, QueuesTypes, JobsApart
       DEF ImageTypes, JobTypes, JobInv, FlagTypes
<1>5. CASE SubmitEnds
  BY <1>1, <1>5, JobsApart DEF SubmitEnds, EndsItself, ImageTypes, JobTypes, JobInv, FlagTypes
<1>6. QED
  BY <1>2, <1>3, <1>4, <1>5 DEF SubmitFrame

\* Each step of the submit thread.
LEMMA WorkerTypes ==
  ASSUME Types, SubmitThread
  PROVE  /\ ImageTypes' /\ JobTypes' /\ JobInv'
         /\ failed' \in BOOLEAN /\ open' \in {"none", "video", "job"}
         /\ UNCHANGED <<setup, running, lost, waited, shouldRender, left, presentVars>>
<1> USE DEF Types
<1>1. CASE WorkerReleases
  <2>1. /\ job \in Job /\ job.at = "queued" /\ ~acquired /\ pc # "submit"
        /\ images \in Seq(Owners) /\ images # <<>>
    BY <1>1, JobsApart DEF WorkerReleases, JobTypes, JobInv, ImageTypes
  <2>2. job' \in Job /\ job'.at = "released"
    BY <1>1, <2>1 DEF WorkerReleases, Job
  <2>3. /\ acquired' = acquired /\ pc' = pc
        /\ \/ images' = Tail(images) /\ imageWaited' = FALSE
           \/ UNCHANGED <<images, imageWaited>>
    BY <1>1 DEF WorkerReleases, presentVars
  <2>4. Tail(images) \in Seq(Owners) /\ Len(Tail(images)) = Len(images) - 1
    BY <2>1, HeadTailProperties
  <2>5. Len(images) \in Nat /\ NumImages \in Nat
    BY <2>1, LenProperties, AsyncSubmitAssumption
  <2>6. ImageTypes'
    <3>1. CASE images' = Tail(images) /\ imageWaited' = FALSE
      <4>1. images' \in Seq(Owners) /\ Len(images') = Len(images) - 1
        BY <2>4, <3>1
      <4>2. /\ imageWaited' \in BOOLEAN /\ acquired' \in BOOLEAN /\ Len(images) <= NumImages
        BY <2>3, <3>1 DEF ImageTypes
      <4>3. QED
        BY <2>5, <4>1, <4>2 DEF ImageTypes
    <3>2. CASE UNCHANGED <<images, imageWaited>>
      BY <2>3, <3>2 DEF ImageTypes
    <3>3. QED
      BY <2>3, <3>1, <3>2
  <2>7. QED
    BY <1>1, <2>1, <2>2, <2>3, <2>6, JobsApart
       DEF WorkerReleases, JobTypes, JobInv, FlagTypes, frameVars
<1>2. CASE WorkerEnds
  <2>1. job \in Job /\ ~acquired /\ pc # "submit"
    BY <1>2, JobsApart DEF WorkerEnds, JobTypes, JobInv
  <2>2. CanEnd \in BOOLEAN
    BY DEF CanEnd
  <2>3. job' \in Job /\ job'.at = "ended"
    BY <1>2, <2>1, <2>2 DEF WorkerEnds, Job
  <2>4. UNCHANGED <<imageVars, failed, presentVars>> /\ open' \in {open, "none"}
    BY <1>2 DEF WorkerEnds
  <2>5. ImageTypes'
    BY <2>4 DEF ImageTypes, imageVars
  <2>6. QED
    BY <1>2, <2>1, <2>3, <2>4, <2>5, JobsApart
       DEF WorkerEnds, JobTypes, JobInv, FlagTypes, imageVars, presentVars
<1>3. CASE WorkerIsDone
  <2>1. job \in Job /\ ~acquired /\ pc # "submit"
    BY <1>3, JobsApart DEF WorkerIsDone, JobTypes, JobInv
  <2>2. failed' \in BOOLEAN
    BY <1>3 DEF WorkerIsDone
  <2>3. QED
    BY <1>3, <2>1, <2>2, JobsApart
       DEF WorkerIsDone, JobTypes, JobInv, ImageTypes, FlagTypes, imageVars, frameVars, presentVars
<1>4. QED
  BY <1>1, <1>2, <1>3 DEF SubmitThread

LEMMA TypesHold == Spec => []Types
<1>1. Init => Types
  <2>1. Len(<<>>) = 0 /\ <<>> \in Seq(Owners) /\ NumImages \in Nat
    BY EmptySeq, AsyncSubmitAssumption
  <2> SUFFICES ASSUME Init PROVE Types
    OBVIOUS
  <2>2. FlagTypes /\ PresentTypes
    BY DEF Init, FlagTypes, PresentTypes
  <2>3. ImageTypes
    <3>1. /\ images \in Seq(Owners) /\ Len(images) = 0
          /\ imageWaited \in BOOLEAN /\ acquired \in BOOLEAN
      BY <2>1 DEF Init
    <3>2. QED
      BY <2>1, <3>1 DEF ImageTypes
  <2>4. JobTypes /\ JobInv
    BY JobsApart DEF Init, JobTypes, JobInv
  <2>5. QED
    BY <2>2, <2>3, <2>4 DEF Types
<1>2. Types /\ [Next]_vars => Types'
  <2> SUFFICES ASSUME Types, [Next]_vars PROVE Types'
    OBVIOUS
  <2> USE DEF Types
  <2>1. CASE RenderXFB
    <3>1. /\ job = NoJob /\ job' = job /\ pc' = "submit"
      BY <2>1 DEF RenderXFB
    <3>2. FlagTypes' /\ PresentTypes' /\ JobTypes'
      BY <2>1 DEF RenderXFB, FlagTypes, PresentTypes, JobTypes, frameVars
    <3>3. ImageTypes' /\ (acquired' => imageWaited' /\ images' # <<>>)
      BY <2>1, RenderTypes DEF ImageTypes, JobInv, imageVars
    <3>4. QED
      BY <3>1, <3>2, <3>3, JobsApart DEF JobInv
  <2>2. CASE SubmitFrame
    BY <2>2, SubmitTypes DEF SubmitFrame, FlagTypes, PresentTypes
  <2>3. CASE SubmitThread
    BY <2>3, WorkerTypes DEF FlagTypes, PresentTypes, presentVars
  <2>4. CASE \/ RuntimeLoses \/ PresentBegins \/ PollReady \/ PollStopping \/ NoFrame
             \/ WaitFrame \/ BeginFrame \/ UNCHANGED vars
    <3>1. UNCHANGED <<imageVars, job>>
      BY <2>4 DEF RuntimeLoses, PresentBegins, PollReady, PollStopping, NoFrame, WaitFrame,
                  BeginFrame, vars
    <3>2. FlagTypes'
      BY <2>4 DEF RuntimeLoses, PresentBegins, PollReady, PollStopping, NoFrame, WaitFrame,
                  BeginFrame, vars, FlagTypes, frameVars
    <3>3. PresentTypes' /\ (pc' = "submit" => pc = "submit")
      BY <2>4, FrameDecidedTypes
         DEF RuntimeLoses, PresentBegins, PollReady, PollStopping, NoFrame, WaitFrame,
             BeginFrame, vars, PresentTypes, presentVars
    <3>4. QED
      BY <3>1, <3>2, <3>3 DEF ImageTypes, JobTypes, JobInv, imageVars
  <2>5. QED
    BY <2>1, <2>2, <2>3, <2>4 DEF Next, VideoThread
<1>3. QED
  BY <1>1, <1>2, PTL DEF Spec

\* For any number of images: no more are held than there are, the video thread
\* never keeps images of a frame it handed over, and m_image_acquired names an
\* image that is held and was waited for.
THEOREM TypeCorrect == Spec => []TypeOK
<1>1. Types => TypeOK
  BY DEF Types, FlagTypes, PresentTypes, ImageTypes, JobTypes, JobInv, TypeOK, Owners
<1>2. QED
  BY <1>1, TypesHold, PTL

-----------------------------------------------------------------------------
(* Whose picture is shown.  As long as nothing was left behind there is at *)
(* most one image: the one just drawn, or that of the frame on its way.    *)
(* A queued frame whose image could not be released has lost its session.  *)
LeftInv ==
  ~left =>
    /\ acquired => pc = "submit"
    /\ imageWaited => images # <<>>
    /\ \/ images = <<>>
       \/ images = <<"video">> /\ acquired
       \/ images = <<"job">> /\ ~acquired /\ (job.at = "queued" \/ lost)

\* Handing over the only image.
LEMMA OnlyImage ==
  ASSUME images = <<"video">>, SubmitQueues
  PROVE  images' = <<"job">>
<1>1. Len(images) = 1
  OBVIOUS
<1>2. images' = [i \in 1..1 |-> IF i = 1 THEN "job" ELSE "left"]
  BY <1>1 DEF SubmitQueues
<1>3. images \in Seq(Owners) /\ "job" \in Owners
  BY DEF Owners
<1>4. images' \in [1..Len(images) -> Owners] /\ images'[1] = "job"
  BY <1>1, <1>2 DEF Owners
<1>5. images' \in Seq(Owners) /\ Len(images') = 1
  BY <1>1, <1>3, <1>4, AsManyImages
<1>6. <<"job">> \in Seq(Owners) /\ Len(<<"job">>) = 1 /\ <<"job">>[1] = "job"
  BY <1>3
<1>7. QED
  BY <1>4, <1>5, <1>6, SeqEqual

LEMMA LeftKnown == Spec => []LeftInv
<1>1. Init => LeftInv
  BY DEF Init, LeftInv
<1>2. Types /\ LeftInv /\ [Next]_vars => LeftInv'
  <2> SUFFICES ASSUME Types, LeftInv, [Next]_vars, ~left' PROVE LeftInv'
    BY DEF LeftInv
  <2>0. /\ ImageTypes /\ JobInv /\ job \in {NoJob} \cup Job
        /\ imageWaited \in BOOLEAN /\ acquired \in BOOLEAN /\ left \in BOOLEAN
    BY DEF Types, ImageTypes, FlagTypes, JobTypes
  <2>1. CASE RenderXFB
    <3>1. /\ pc = "render" /\ pc' = "submit" /\ job = NoJob /\ job.at # "queued" /\ ~left
          /\ UNCHANGED <<job, lost>>
      BY <2>1, JobsApart DEF RenderXFB
    <3>2. CASE UNCHANGED imageVars
      BY <3>1, <3>2 DEF LeftInv, imageVars
    <3>3. CASE ~UNCHANGED imageVars
      <4>1. /\ ~lost /\ imageWaited' = ~imageWaited /\ acquired' = ~imageWaited
            /\ images' = IF imageWaited THEN Tail(Append(images, "video"))
                                        ELSE Append(images, "video")
        BY <2>1, <3>3 DEF RenderXFB
      <4>2. images = <<>> /\ ~imageWaited
        BY <3>1, <4>1 DEF LeftInv
      <4>3. images' = <<"video">> /\ acquired' = TRUE
        <5>1. images' = Append(images, "video") /\ acquired' = TRUE
          BY <4>1, <4>2, <2>0
        <5>2. Append(<<>>, "video") = <<"video">>
          OBVIOUS
        <5>3. QED
          BY <4>2, <5>1, <5>2, Zenon
      <4>4. QED
        BY <3>1, <4>3 DEF LeftInv
    <3>4. QED
      BY <3>2, <3>3
  <2>2. CASE SubmitFrame
    <3>1. /\ pc = "submit" /\ job = NoJob /\ job.at # "queued"
          /\ UNCHANGED <<lost, imageWaited>>
      BY <2>0, <2>2, JobsApart DEF SubmitFrame, JobInv
    <3>2. CASE SubmitRefuses \/ SubmitWithoutViews \/ SubmitSkipped
      <4>1. Leaves /\ UNCHANGED acquired /\ (acquired \/ SubmitSkipped)
            /\ (job' = job)
        BY <3>2 DEF SubmitRefuses, SubmitWithoutViews, SubmitSkipped, EndsItself
      <4>2. images = <<>> /\ ~left
        BY <4>1, <2>0, Zenon DEF Leaves
      <4>3. images' = <<>> /\ ~acquired
        BY <2>0, <4>1, <4>2, LeavesTypes DEF JobInv
      <4>4. QED
        BY <3>1, <4>1, <4>2, <4>3 DEF LeftInv
    <3>3. CASE SubmitQueues
      <4>1. /\ acquired /\ acquired' = FALSE /\ ~left
            /\ job' = [at |-> "queued", layers |-> shouldRender, ok |-> TRUE]
        BY <3>3 DEF SubmitQueues
      <4>2. images = <<"video">>
        BY <2>0, <4>1 DEF LeftInv, JobInv
      <4>3. images' = <<"job">> /\ images' # <<>>
        <5>1. images' = <<"job">>
          BY <3>3, <4>2, OnlyImage
        <5>2. QED
          BY <5>1
      <4>4. job'.at = "queued"
        BY <4>1
      <4>5. QED
        BY <4>1, <4>3, <4>4 DEF LeftInv
    <3>4. CASE SubmitEnds
      BY <3>1, <3>4 DEF SubmitEnds, EndsItself, LeftInv
    <3>5. QED
      BY <2>2, <3>2, <3>3, <3>4 DEF SubmitFrame
  <2>3. CASE WorkerReleases
    <3>1. /\ job.at = "queued" /\ imageWaited /\ images # <<>> /\ ~acquired /\ ~left
          /\ UNCHANGED <<lost, acquired, pc>>
      BY <2>0, <2>3, JobsApart DEF WorkerReleases, JobInv, presentVars
    <3>2. images = <<"job">>
      BY <3>1 DEF LeftInv
    <3>3. CASE lost
      BY <2>3, <3>1, <3>2, <3>3 DEF WorkerReleases, LeftInv
    <3>4. CASE ~lost
      <4>1. images' = Tail(images) /\ imageWaited' = FALSE
        BY <2>3, <3>1, <3>4 DEF WorkerReleases
      <4>2. images' = <<>>
        BY <3>2, <4>1
      <4>3. QED
        BY <3>1, <4>1, <4>2 DEF LeftInv
    <3>5. QED
      BY <3>3, <3>4
  <2>4. CASE WorkerEnds \/ WorkerIsDone
    <3>1. UNCHANGED <<imageVars, pc, lost, left>> /\ job.at # "queued"
      BY <2>4 DEF WorkerEnds, WorkerIsDone, presentVars
    <3>2. QED
      BY <3>1 DEF LeftInv, imageVars
  <2>5. CASE \/ RuntimeLoses \/ PresentBegins \/ PollReady \/ PollStopping \/ NoFrame
             \/ WaitFrame \/ BeginFrame \/ UNCHANGED vars
    <3>1. UNCHANGED <<imageVars, job, left>> /\ lost' \in {lost, TRUE}
      BY <2>5 DEF RuntimeLoses, PresentBegins, PollReady, PollStopping, NoFrame, WaitFrame,
                  BeginFrame, vars
    <3>2. pc = "submit" => pc' = pc
      BY <2>5 DEF RuntimeLoses, PresentBegins, PollReady, PollStopping, NoFrame, WaitFrame,
                  BeginFrame, Polls, vars, presentVars
    <3>3. QED
      BY <3>1, <3>2 DEF LeftInv, imageVars
  <2>6. QED
    BY <2>1, <2>2, <2>3, <2>4, <2>5 DEF Next, VideoThread, SubmitThread
<1>3. QED
  BY <1>1, <1>2, TypesHold, PTL DEF Spec

\* However the two threads, stops and losses interleave, the image the submit
\* thread releases for a frame is the one drawn for it, unless an image was
\* left behind before.
THEOREM OwnPictureShown == Spec => OwnPictureIsShown
<1> DEFINE Own == job.at = "queued" /\ images' # images /\ ~left => Head(images) = "job"
<1>1. Types /\ LeftInv /\ [Next]_vars => [Own]_vars
  <2> SUFFICES ASSUME Types, LeftInv, job.at = "queued", ~left PROVE Head(images) = "job"
    OBVIOUS
  <2>1. images # <<>> /\ ~acquired
    BY JobsApart DEF Types, JobInv
  <2>2. images = <<"job">>
    BY <2>1 DEF LeftInv
  <2>3. QED
    BY <2>2
<1>2. QED
  BY <1>1, LeftKnown, TypesHold, PTL DEF Spec, OwnPictureIsShown

-----------------------------------------------------------------------------
(* A prompt submit thread.  It works only while Present is at the poll, so *)
(* that a session on its way to be ended has no frame; and each place of   *)
(* Present knows whose the open frame is, unless the session is lost.      *)
PromptInv ==
  /\ pc \in {"poll", "begin"} => ~begun
  /\ setup.prompt =>
       /\ job # NoJob => pc = "poll"
       /\ ~lost =>
            /\ waited => pc = "begin"
            /\ pc = "begin" => waited /\ running /\ open = "none"
            /\ pc = "poll" /\ job.at \in {"none", "ended"} => open = "none"
            /\ job.at \in {"queued", "released"} => running /\ open = "job"
            /\ begun \/ (pc \in {"render", "submit"} /\ started) => running /\ open = "video"
            /\ (pc = "game" /\ ~begun) \/ (pc \in {"render", "submit"} /\ ~started)
                 => open = "none"
            /\ ~failed /\ (job # NoJob => job.ok)

LEMMA PromptKnown == Spec => []PromptInv
<1>1. Init => PromptInv
  BY JobsApart DEF Init, PromptInv
<1>2. Types /\ PromptInv /\ [Next]_vars => PromptInv'
  <2> SUFFICES ASSUME Types, PromptInv, [Next]_vars PROVE PromptInv'
    OBVIOUS
  <2>0. /\ JobInv /\ job \in {NoJob} \cup Job
        /\ running \in BOOLEAN /\ lost \in BOOLEAN /\ waited \in BOOLEAN /\ failed \in BOOLEAN
        /\ begun \in BOOLEAN /\ started \in BOOLEAN /\ part \in {"start", "next"}
        /\ pc \in {"game", "poll", "begin", "render", "submit"}
    BY DEF Types, JobTypes, FlagTypes, PresentTypes
  <2>1. CASE RuntimeLoses
    BY <2>1 DEF RuntimeLoses, PromptInv, presentVars
  <2>2. CASE PresentBegins
    BY <2>0, <2>2, JobsApart DEF PresentBegins, PromptInv, frameVars
  <2>3. CASE PollReady \/ PollStopping
    BY <2>0, <2>3, JobsApart DEF PollReady, PollStopping, Polls, PromptInv, presentVars
  <2>4. CASE NoFrame
    BY <2>0, <2>4, JobsApart DEF NoFrame, Polls, FrameDecided, PromptInv, frameVars
  <2>5. CASE WaitFrame
    BY <2>0, <2>5, JobsApart DEF WaitFrame, Polls, FrameDecided, PromptInv, frameVars
  <2>6. CASE BeginFrame
    BY <2>0, <2>6, JobsApart DEF BeginFrame, FrameDecided, PromptInv, frameVars
  <2>7. CASE RenderXFB
    BY <2>0, <2>7, JobsApart DEF RenderXFB, PromptInv, frameVars
  <2>8. CASE SubmitFrame
    BY <2>0, <2>8, JobsApart DEF SubmitFrame, SubmitRefuses, SubmitWithoutViews, SubmitQueues, SubmitEnds,
           SubmitSkipped, EndsItself, CanEnd, JobInv, PromptInv
  <2>9. CASE WorkerReleases
    <3>1. /\ job \in Job /\ job.at = "queued" /\ imageWaited
          /\ UNCHANGED <<setup, running, lost, frameVars, failed, presentVars>>
      BY <2>0, <2>9, JobsApart DEF WorkerReleases, JobInv
    <3>2. job'.at = "released" /\ (~lost => job'.ok = job.ok)
      BY <2>9, <3>1 DEF WorkerReleases, Job
    <3>3. job # NoJob /\ job'.at # "queued"
      BY <3>1, <3>2, JobsApart
    <3>4. QED
      BY <3>1, <3>2, <3>3 DEF PromptInv, presentVars, frameVars
  <2>10. CASE WorkerEnds
    BY <2>0, <2>10, JobsApart DEF WorkerEnds, CanEnd, PromptInv, presentVars
  <2>11. CASE WorkerIsDone
    BY <2>0, <2>11, JobsApart DEF WorkerIsDone, PromptInv, presentVars, frameVars
  <2>12. CASE UNCHANGED vars
    BY <2>12 DEF vars, PromptInv, presentVars, frameVars
  <2>13. QED
    BY <2>1, <2>2, <2>3, <2>4, <2>5, <2>6, <2>7, <2>8, <2>9, <2>10, <2>11, <2>12
       DEF Next, VideoThread, SubmitThread
<1>3. QED
  BY <1>1, <1>2, TypesHold, PTL DEF Spec

\* With a prompt submit thread, and until the session is lost, the runtime
\* sees the calls of both threads in the order it expects, whatever the views,
\* the images and the stops: each step is one call or none.
THEOREM PromptCalls == Spec => PromptCallsInOrder
<1> USE DEF Calls!vars
<1>1. Types /\ PromptInv /\ [Next]_vars => [setup.prompt => [Calls!Next]_(Calls!vars)]_vars
  <2> SUFFICES ASSUME Types, PromptInv, [Next]_vars, setup.prompt
               PROVE  [Calls!Next]_(Calls!vars)
    OBVIOUS
  <2> USE DEF Calls!Next
  <2>0. /\ JobInv /\ job \in {NoJob} \cup Job
        /\ running \in BOOLEAN /\ lost \in BOOLEAN /\ waited \in BOOLEAN
    BY DEF Types, JobTypes, FlagTypes
  <2>1. CASE RuntimeLoses
    BY <2>1 DEF RuntimeLoses, frameVars, Calls!Lose
  <2>2. CASE PollReady
    BY <2>0, <2>2, JobsApart DEF PollReady, Polls, PromptInv, Calls!BeginSession
  <2>3. CASE PollStopping
    BY <2>0, <2>3, JobsApart DEF PollStopping, Polls, PromptInv, Calls!EndSession
  <2>4. CASE WaitFrame
    BY <2>0, <2>4, JobsApart DEF WaitFrame, Polls, PromptInv, Calls!WaitFrame, Calls!Goes
  <2>5. CASE BeginFrame
    BY <2>0, <2>5 DEF BeginFrame, PromptInv, frameVars, Calls!BeginFrame, Calls!Goes
  <2>6. CASE SubmitFrame
    BY <2>0, <2>6 DEF SubmitFrame, SubmitRefuses, SubmitWithoutViews, SubmitQueues, SubmitEnds,
                      SubmitSkipped, EndsItself, CanEnd, PromptInv, Calls!EndFrame, Calls!Goes
  <2>7. CASE WorkerEnds
    BY <2>0, <2>7, JobsApart DEF WorkerEnds, CanEnd, PromptInv, Calls!EndFrame, Calls!Goes
  <2>8. CASE UNCHANGED <<running, waited, open, lost>>
    BY <2>8
  <2>9. \/ RuntimeLoses \/ PollReady \/ PollStopping \/ WaitFrame \/ BeginFrame
        \/ SubmitFrame \/ WorkerEnds \/ UNCHANGED <<running, waited, open, lost>>
    BY DEF Next, VideoThread, SubmitThread, PresentBegins, NoFrame, RenderXFB, WorkerReleases,
           WorkerIsDone, frameVars, vars
  <2>10. QED
    BY <2>1, <2>2, <2>3, <2>4, <2>5, <2>6, <2>7, <2>8, <2>9
<1>2. QED
  BY <1>1, PromptKnown, TypesHold, PTL DEF Spec, PromptCallsInOrder

-----------------------------------------------------------------------------
(* Where it is sound.  If a session is also hidden before it stops, what   *)
(* is drawn belongs to a frame that was begun, and its image goes along    *)
(* with it.                                                                *)
SoundInv ==
  setup.prompt /\ setup.hidesFirst /\ ~setup.viewsFail /\ ~lost =>
    /\ ~left
    /\ shouldRender => running
    /\ pc \in {"render", "submit"} /\ ~started => ~running
    /\ acquired => shouldRender

LEMMA SoundKnown == Spec => []SoundInv
<1>1. Init => SoundInv
  BY DEF Init, SoundInv
<1>2. Types /\ LeftInv /\ PromptInv /\ SoundInv /\ [Next]_vars => SoundInv'
  <2> SUFFICES ASSUME Types, LeftInv, PromptInv, SoundInv, [Next]_vars,
                      setup'.prompt, setup'.hidesFirst, ~setup'.viewsFail, ~lost'
               PROVE  SoundInv'
    BY DEF SoundInv
  <2>0. /\ JobInv /\ job \in {NoJob} \cup Job /\ images \in Seq(Owners)
        /\ running \in BOOLEAN /\ shouldRender \in BOOLEAN /\ left \in BOOLEAN
        /\ begun \in BOOLEAN /\ started \in BOOLEAN /\ acquired \in BOOLEAN
    BY DEF Types, JobTypes, FlagTypes, PresentTypes, ImageTypes
  <2>1. /\ setup' = setup /\ setup.prompt /\ setup.hidesFirst /\ ~setup.viewsFail /\ ~lost
    <3>1. setup' = setup /\ (lost' = lost \/ lost' = TRUE)
      BY DEF Next, VideoThread, SubmitThread, RuntimeLoses, PresentBegins, PollReady, PollStopping,
             NoFrame, WaitFrame, BeginFrame, RenderXFB, SubmitFrame, WorkerReleases, WorkerEnds,
             WorkerIsDone, vars
    <3>2. lost' = lost
      BY <3>1
    <3>3. ~lost
      BY <3>2, Zenon
    <3>4. QED
      BY <3>1, <3>3
  <2>2. /\ ~left /\ (shouldRender => running) /\ (acquired => shouldRender)
        /\ pc \in {"render", "submit"} /\ ~started => ~running
    BY <2>1 DEF SoundInv
  <2>3. CASE PresentBegins
    BY <2>2, <2>3 DEF PresentBegins, SoundInv, imageVars
  <2>4. CASE PollReady \/ PollStopping
    BY <2>1, <2>2, <2>4 DEF PollReady, PollStopping, Polls, SoundInv, imageVars, presentVars
  <2>5. CASE NoFrame
    BY <2>2, <2>5 DEF NoFrame, Polls, FrameDecided, SoundInv, imageVars
  <2>6. CASE WaitFrame
    <3>1. UNCHANGED <<running, imageVars, left>> /\ running /\ pc' = "begin" /\ pc = "poll"
      BY <2>1, <2>6 DEF WaitFrame, Polls
    <3>2. ~acquired
      BY <2>2, <3>1 DEF LeftInv
    <3>3. QED
      BY <2>2, <3>1, <3>2 DEF SoundInv, imageVars
  <2>7. CASE BeginFrame
    BY <2>1, <2>2, <2>7 DEF BeginFrame, FrameDecided, SoundInv, imageVars
  <2>8. CASE RenderXFB
    BY <2>2, <2>8 DEF RenderXFB, SoundInv, imageVars
  <2>9. CASE SubmitFrame
    <3>1. /\ pc = "submit" /\ pc' = "poll" /\ UNCHANGED <<running, shouldRender>>
          /\ acquired' \in {acquired, FALSE}
      BY <2>9 DEF SubmitFrame, SubmitRefuses, SubmitWithoutViews, SubmitQueues, SubmitEnds,
                  SubmitSkipped
    <3>2. left' = left
      <4>1. CASE started
        <5>1. ~failed
          BY <2>1 DEF PromptInv
        <5>2. SubmitQueues \/ SubmitEnds
          BY <2>1, <2>9, <4>1, <5>1 DEF SubmitFrame, SubmitRefuses, SubmitWithoutViews
        <5>3. QED
          BY <5>2 DEF SubmitQueues, SubmitEnds
      <4>2. CASE ~started
        <5>1. ~acquired /\ job.at # "queued"
          BY <2>0, <2>2, <3>1, <4>2, JobsApart DEF JobInv
        <5>2. images = <<>>
          BY <2>1, <2>2, <5>1 DEF LeftInv
        <5>3. left' = (left \/ images # <<>>)
          BY <2>9, <4>2 DEF SubmitFrame, SubmitSkipped, Leaves
        <5>4. QED
          BY <2>0, <2>2, <5>2, <5>3
      <4>3. QED
        BY <4>1, <4>2
    <3>3. QED
      BY <2>2, <3>1, <3>2 DEF SoundInv
  <2>10. CASE SubmitThread
    BY <2>2, <2>10 DEF SubmitThread, WorkerReleases, WorkerEnds, WorkerIsDone, SoundInv, imageVars,
                       presentVars
  <2>11. CASE RuntimeLoses \/ UNCHANGED vars
    BY <2>2, <2>11 DEF RuntimeLoses, vars, SoundInv, imageVars, presentVars
  <2>12. QED
    BY <2>3, <2>4, <2>5, <2>6, <2>7, <2>8, <2>9, <2>10, <2>11 DEF Next, VideoThread
<1>3. QED
  BY <1>1, <1>2, TypesHold, LeftKnown, PromptKnown, PTL DEF Spec

\* With a prompt submit thread, views that are always located and a session
\* that is hidden before it stops, no image is held once Present and the frame
\* it queued are over, until the session is lost.
THEOREM ImagesGivenBackWhenSound == Spec => []NoImageLeftHeldWhenSound
<1>1. Types /\ LeftInv /\ SoundInv => NoImageLeftHeldWhenSound
  <2> SUFFICES ASSUME Types, LeftInv, SoundInv, setup.prompt, setup.hidesFirst, ~setup.viewsFail,
                      ~lost, pc = "game", job = NoJob
               PROVE  images = <<>>
    BY DEF NoImageLeftHeldWhenSound, NoImageLeftHeld
  <2>1. ~left /\ job.at # "queued"
    BY JobsApart DEF SoundInv
  <2>2. QED
    BY <2>1 DEF LeftInv
<1>2. QED
  BY <1>1, TypesHold, LeftKnown, SoundKnown, PTL
=============================================================================
