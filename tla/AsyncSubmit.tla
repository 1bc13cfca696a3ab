---------------------------- MODULE AsyncSubmit ----------------------------
(***************************************************************************)
(* The end of a frame on Android: SubmitFrame of the Vulkan backend hands  *)
(* the eye images and xrEndFrame over to the command buffers' submit       *)
(* thread, and Present waits for and begins the next frame meanwhile.      *)
(* The loop around it, with the runtime's events and the poses, is module  *)
(* XrFrame; here a session comes and goes when Present asks.               *)
(*                                                                         *)
(* The video thread waits for the submit thread before it draws, so that   *)
(* at most one frame is on its way.  What it learns of a frame that could  *)
(* not be ended is a flag, which makes the next SubmitFrame refuse.        *)
(*                                                                         *)
(* Both eyes and the layered swapchain go the same way: one is modelled.   *)
(* The runtime ends the frame that was begun last, whoever asks; a frame   *)
(* that is begun before the last one was ended discards it.                *)
(***************************************************************************)
EXTENDS Naturals, Sequences

CONSTANTS
  Setups,    \* the behaviours of the surroundings considered
  NumImages  \* images in the swapchain

\* prompt: the submit thread is done, or submission is not threaded at all,
\* before Present goes on to the next frame.  viewsFail: the views may not be
\* located.  hidesFirst: a session is stopped only after a frame that is not to
\* be rendered.  mayLose: the runtime may lose the session.
ASSUME AsyncSubmitAssumption ==
  /\ Setups \subseteq [prompt : BOOLEAN, viewsFail : BOOLEAN, hidesFirst : BOOLEAN,
                       mayLose : BOOLEAN]
  /\ NumImages \in Nat \ {0}

VARIABLES
  setup,        \* one of the setups
  running,      \* m_session_running
  lost,         \* the runtime has lost the session
  waited,       \* xrWaitFrame was called for a frame that is not yet begun
  open,         \* whose the frame is that was begun and not ended
  shouldRender, \* m_frame_state.shouldRender
  images,       \* the images held, oldest first, as whose picture they have
  imageWaited,  \* the oldest was waited for
  acquired,     \* m_image_acquired
  job,          \* the pending frame on the submit thread; as long as there is
                \* one, m_async_frame_finalization_in_flight
  failed,       \* m_async_frame_finalization_failed
  begun,        \* m_vr_frame_begun
  started,      \* vr_frame_started
  part,         \* which of Present's two blocks begins a frame
  pc,           \* where the video thread is
  left          \* history: Present left images behind

frameVars == <<waited, open>>
imageVars == <<images, imageWaited, acquired>>
presentVars == <<begun, started, part, pc>>
vars == <<setup, running, lost, frameVars, shouldRender, imageVars, job, failed,
          presentVars, left>>

NoJob == [at |-> "none"]
Job == [at : {"queued", "released", "ended"}, layers : BOOLEAN, ok : BOOLEAN]

Init ==
  /\ setup \in Setups
  /\ running = FALSE /\ lost = FALSE /\ waited = FALSE /\ open = "none"
  /\ shouldRender = FALSE
  /\ images = <<>> /\ imageWaited = FALSE /\ acquired = FALSE
  /\ job = NoJob /\ failed = FALSE
  /\ begun = FALSE /\ started = FALSE /\ part = "start" /\ pc = "game"
  /\ left = FALSE

----------------------------------------------------------------------------
(* The runtime *)

RuntimeLoses ==
  /\ setup.mayLose /\ ~lost
  /\ lost' = TRUE
  /\ UNCHANGED <<setup, running, frameVars, shouldRender, imageVars, job, failed,
                 presentVars, left>>

\* What xrEndFrame needs to be accepted.
CanEnd == running /\ ~lost /\ open # "none"

----------------------------------------------------------------------------
(* The video thread *)

PresentBegins ==
  /\ pc = "game"
  /\ started' = begun /\ part' = "start"
  /\ pc' = IF begun THEN "render" ELSE "poll"
  /\ UNCHANGED <<setup, running, lost, frameVars, shouldRender, imageVars, job, failed,
                 begun, left>>

FrameDecided(ok) ==
  \/ part = "start" /\ started' = ok /\ pc' = "render" /\ UNCHANGED <<begun, part>>
  \/ part = "next" /\ begun' = ok /\ pc' = "game" /\ UNCHANGED <<started, part>>

Polls == pc = "poll" /\ (setup.prompt => job = NoJob)

\* PollEvents finds that the session is ready.
PollReady ==
  /\ Polls /\ ~running /\ ~lost
  /\ running' = TRUE /\ waited' = FALSE /\ open' = "none"
  /\ UNCHANGED <<setup, lost, shouldRender, imageVars, job, failed, presentVars, left>>

\* PollEvents finds that it is to stop, and ends it.
PollStopping ==
  /\ Polls /\ running /\ (setup.hidesFirst => ~shouldRender)
  /\ running' = FALSE /\ waited' = FALSE /\ open' = "none"
  /\ UNCHANGED <<setup, lost, shouldRender, imageVars, job, failed, presentVars, left>>

NoFrame ==
  /\ Polls /\ ~running
  /\ FrameDecided(FALSE)
  /\ UNCHANGED <<setup, running, lost, frameVars, shouldRender, imageVars, job, failed, left>>

WaitFrame ==
  /\ Polls /\ running
  /\ IF lost
       THEN /\ shouldRender' = FALSE
            /\ FrameDecided(FALSE) /\ UNCHANGED waited
       ELSE /\ shouldRender' \in BOOLEAN
            /\ waited' = TRUE /\ pc' = "begin"
            /\ UNCHANGED <<begun, started, part>>
  /\ UNCHANGED <<setup, running, lost, open, imageVars, job, failed, left>>

BeginFrame ==
  /\ pc = "begin"
  /\ IF lost
       THEN FrameDecided(FALSE) /\ UNCHANGED frameVars
       ELSE /\ waited' = FALSE /\ open' = "video"
            /\ FrameDecided(TRUE)
  /\ UNCHANGED <<setup, running, lost, shouldRender, imageVars, job, failed, left>>

\* Mutant: BindBackbuffer does not wait for the submit thread.
RenderXFBAtOnce ==
  /\ pc = "render"
  /\ pc' = "submit"
  /\ \/ /\ shouldRender /\ ~lost /\ Len(images) < NumImages
        /\ images' = IF imageWaited THEN Tail(Append(images, "video"))
                                    ELSE Append(images, "video")
        /\ imageWaited' = ~imageWaited /\ acquired' = ~imageWaited
     \/ UNCHANGED imageVars
  /\ UNCHANGED <<setup, running, lost, frameVars, shouldRender, job, failed, begun,
                 started, part, left>>

\* BindBackbuffer waits for the submit thread; then the eye is drawn if there
\* is an image of the window to draw to as well.  An image that cannot be
\* waited for is released again: what is released is the oldest.
RenderXFB ==
  /\ pc = "render" /\ job = NoJob
  /\ pc' = "submit"
  /\ \/ /\ shouldRender /\ ~lost /\ Len(images) < NumImages
        /\ images' = IF imageWaited THEN Tail(Append(images, "video"))
                                    ELSE Append(images, "video")
        /\ imageWaited' = ~imageWaited /\ acquired' = ~imageWaited
     \/ UNCHANGED imageVars
  /\ UNCHANGED <<setup, running, lost, frameVars, shouldRender, job, failed, begun,
                 started, part, left>>

\* The images that are held stay so.
Leaves ==
  /\ images' = [i \in 1..Len(images) |-> "left"]
  /\ left' = (left \/ images # <<>>)

\* EndFrame on the video thread.
EndsItself ==
  /\ open' = IF CanEnd THEN "none" ELSE open
  /\ UNCHANGED job

\* Mutant: the flag is read and not taken down.
SubmitRefusesForGood ==
  /\ acquired /\ failed
  /\ Leaves
  /\ UNCHANGED <<open, job, acquired, failed>>

\* The last frame could not be ended: neither is this one.
SubmitRefuses ==
  /\ acquired /\ failed
  /\ failed' = FALSE
  /\ Leaves
  /\ UNCHANGED <<open, job, acquired>>

\* Without valid views the frame is ended without layers, images held or not.
SubmitWithoutViews ==
  /\ setup.viewsFail /\ acquired /\ ~failed
  /\ EndsItself
  /\ Leaves
  /\ UNCHANGED <<acquired, failed>>

\* Mutant: m_image_acquired is copied and not reset.
SubmitQueuesKeepsFlag ==
  /\ acquired /\ ~failed
  /\ job' = [at |-> "queued", layers |-> shouldRender, ok |-> TRUE]
  /\ open' = IF open = "video" THEN "job" ELSE open
  /\ images' = [i \in 1..Len(images) |-> IF i = Len(images) THEN "job" ELSE "left"]
  /\ UNCHANGED <<acquired, failed, left>>

\* The frame goes to the submit thread with the image drawn last.
SubmitQueues ==
  /\ acquired /\ ~failed
  /\ job' = [at |-> "queued", layers |-> shouldRender, ok |-> TRUE]
  /\ open' = IF open = "video" THEN "job" ELSE open
  /\ images' = [i \in 1..Len(images) |-> IF i = Len(images) THEN "job" ELSE "left"]
  /\ acquired' = FALSE
  /\ UNCHANGED <<failed, left>>

\* Mutant: a frame without images is not ended.
SubmitEndsNothing ==
  /\ ~acquired
  /\ UNCHANGED <<open, job, images, acquired, failed, left>>

\* Without images it is ended at once.
SubmitEnds ==
  /\ ~acquired
  /\ EndsItself
  /\ UNCHANGED <<images, acquired, failed, left>>

\* A frame that was not begun is not submitted.
SubmitSkipped ==
  /\ Leaves
  /\ UNCHANGED <<open, job, acquired, failed>>

SubmitFrame ==
  /\ pc = "submit" /\ pc' = "poll" /\ part' = "next" /\ begun' = FALSE
  /\ IF started
       THEN SubmitRefuses \/ SubmitWithoutViews \/ SubmitQueues \/ SubmitEnds
       ELSE SubmitSkipped
  /\ UNCHANGED <<setup, running, lost, waited, shouldRender, imageWaited, started>>

----------------------------------------------------------------------------
(* The submit thread: FinalizePendingXRFrame *)

\* The oldest image is released, which is the frame's own if none was left.
WorkerReleases ==
  /\ job.at = "queued"
  /\ IF imageWaited /\ ~lost
       THEN /\ images' = Tail(images) /\ imageWaited' = FALSE
            /\ job' = [job EXCEPT !.at = "released"]
       ELSE /\ job' = [job EXCEPT !.at = "released", !.ok = FALSE]
            /\ UNCHANGED <<images, imageWaited>>
  /\ UNCHANGED <<setup, running, lost, frameVars, shouldRender, acquired, failed,
                 presentVars, left>>

WorkerEnds ==
  /\ job.at = "released"
  /\ open' = IF CanEnd THEN "none" ELSE open
  /\ job' = [job EXCEPT !.at = "ended", !.ok = @ /\ CanEnd]
  /\ UNCHANGED <<setup, running, lost, waited, shouldRender, imageVars, failed,
                 presentVars, left>>

\* The failure is told of before the frame is over.
WorkerIsDone ==
  /\ job.at = "ended"
  /\ failed' = (failed \/ ~job.ok)
  /\ job' = NoJob
  /\ UNCHANGED <<setup, running, lost, frameVars, shouldRender, imageVars,
                 presentVars, left>>

----------------------------------------------------------------------------
VideoThread == \/ PollReady \/ PollStopping \/ NoFrame \/ WaitFrame \/ BeginFrame
               \/ RenderXFB \/ SubmitFrame
SubmitThread == WorkerReleases \/ WorkerEnds \/ WorkerIsDone

Next == RuntimeLoses \/ PresentBegins \/ VideoThread \/ SubmitThread

Spec == Init /\ [][Next]_vars

\* Both threads go on, a session that was stopped gets ready again, and frames
\* are not for ever denied by the runtime, left without an image of the window,
\* or without located views just when they are to be rendered.
Fairness ==
  /\ WF_vars(PresentBegins) /\ WF_vars(VideoThread) /\ WF_vars(SubmitThread)
  /\ SF_vars(PollReady)
  /\ SF_vars(WaitFrame /\ shouldRender')
  /\ SF_vars(RenderXFB /\ imageVars' # imageVars)
  /\ SF_vars(SubmitFrame /\ job' # job /\ shouldRender)

FairSpec == Spec /\ Fairness

----------------------------------------------------------------------------
(* Properties *)

\* The variables stay in their sets, no more images are held than there are,
\* and the images of a pending frame are no longer the video thread's.
TypeOK ==
  /\ setup \in Setups
  /\ {running, lost, waited, shouldRender, imageWaited, acquired, failed, begun,
      started, left} \subseteq BOOLEAN
  /\ open \in {"none", "video", "job"}
  /\ images \in Seq({"video", "job", "left"}) /\ Len(images) <= NumImages
  /\ acquired => imageWaited /\ images # <<>>
  /\ job \in {NoJob} \cup Job
  /\ part \in {"start", "next"}
  /\ pc \in {"game", "poll", "begin", "render", "submit"}

\* With a submit thread that is done before Present goes on, the runtime sees
\* the calls of both threads in the order it expects: they implement XrCalls.
Calls == INSTANCE XrCalls
  WITH frame <- IF waited THEN "waited" ELSE IF open # "none" THEN "begun" ELSE "none"
PromptCallsInOrder == [][setup.prompt => [Calls!Next]_(Calls!vars)]_vars

\* The image the submit thread releases for a frame is the one drawn for it,
\* unless an image was left behind before: from then on the headset would show
\* every frame with the picture of another.
OwnPictureIsShown ==
  [][job.at = "queued" /\ images' # images /\ ~left => Head(images) = "job"]_vars

\* "Must be paired with ReleaseEyeTexture() after rendering is complete.": no
\* image is held once Present and the frame it queued are over.
NoImageLeftHeld == pc = "game" /\ job = NoJob => images = <<>>

\* It holds where the submit thread is prompt, views are always located and a
\* session is hidden before it stops, until the session is lost.
NoImageLeftHeldWhenSound ==
  setup.prompt /\ setup.hidesFirst /\ ~setup.viewsFail /\ ~lost => NoImageLeftHeld

\* In a session that goes on frames are ended again and again, whatever was
\* refused, discarded or left behind before, and with a prompt submit thread
\* layers are shown.  (With a slow one the wait for the next frame may discard
\* every frame that has some.)
SettledFramesAreShown ==
  <>[][~PollStopping]_vars /\ <>[]~lost
    => /\ []<><<open # "none" /\ open' = "none">>_vars
       /\ setup.prompt => []<>(job.at = "released" /\ CanEnd /\ job.layers)
=============================================================================
