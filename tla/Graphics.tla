------------------------------ MODULE Graphics ------------------------------
(***************************************************************************)
(* The graphics application: the threads of the tiles draw their images    *)
(* by handing some work over to the thread of the graphics event loop      *)
(* (image_grid::submit and the dispatcher), then decide together in        *)
(* is_done_barrier whether the window has been closed.  The frame loop     *)
(* is the one of the programs using it: update_tile_data_image, then       *)
(* is_done_barrier, until the latter returns true.  Then the data          *)
(* validation, two other threads of the application.                       *)
(***************************************************************************)
EXTENDS Integers, Sequences, FiniteSets

CONSTANTS MaxPainters,  \* the number of tiles of the largest grid, nx*ny
          MaxFrames     \* frames a tile draws at most

ASSUME GraphicsAssumption == MaxPainters \in Nat \ {0} /\ MaxFrames \in Nat

Painters  == 1 .. MaxPainters  \* the threads of the tiles
NoPainter == 0                 \* no work to dispatch

VARIABLES tiles,     \* the threads of the grid
          gpc,       \* next step of each painter
          frame,     \* frames each painter has begun
          sleeping,  \* painters asleep in cv
          job,       \* work_to_dispatch: the painter whose image is to be drawn
          emitted,   \* dispatcher.emit() calls not handled yet
          handler,   \* the dispatcher callback: idle, or about to notify_one
          loop,      \* the event loop of Gtk::Application::run
          is_done, sampled, snapshot,
          arrived,   \* painters waiting in done_barrier
          drawn,     \* the number of images of each painter drawn (ghost)
          answers    \* what is_done_barrier returned to each painter (ghost)

gvars == <<tiles, gpc, frame, sleeping, job, emitted, handler, loop, is_done, sampled,
           snapshot, arrived, drawn, answers>>
submission == <<sleeping, job, emitted, drawn>>
eventloop  == <<handler, loop, is_done>>
agreement  == <<sampled, snapshot, arrived, answers>>

\* No constructor gives done_snapshot a value
GInit == /\ tiles \in {1 .. n : n \in 1 .. MaxPainters}
         /\ gpc = [p \in Painters |-> "frame"]
         /\ frame = [p \in Painters |-> 0]
         /\ sleeping = {} /\ job = NoPainter /\ emitted = 0
         /\ handler = "idle" /\ loop = "run" /\ is_done = FALSE
         /\ sampled = FALSE /\ snapshot \in {"yes", "no"} /\ arrived = {}
         /\ drawn = [p \in Painters \union {NoPainter} |-> 0] /\ answers = [p \in Painters |-> <<>>]

PainterAt(p, l) == gpc' = [gpc EXCEPT ![p] = l]

\* update_tile_data_image renders the data, then calls submit
BeginFrame(p) == /\ p \in tiles /\ gpc[p] = "frame" /\ frame[p] < MaxFrames
                 /\ frame' = [frame EXCEPT ![p] = @ + 1]
                 /\ PainterAt(p, "submit")
                 /\ UNCHANGED <<tiles, submission, eventloop, agreement>>

MaySubmit == job = NoPainter \/ is_done

\* submit, under dispatch_protection: the predicate of the wait holds
SubmitWork(p) == /\ gpc[p] = "submit" /\ p \notin sleeping
                 /\ MaySubmit
                 /\ IF is_done THEN UNCHANGED <<job, emitted>>
                    ELSE job' = p /\ emitted' = emitted + 1
                 /\ PainterAt(p, "test_and_set")
                 /\ UNCHANGED <<tiles, frame, sleeping, drawn, eventloop, agreement>>

SleepInSubmit(p) == /\ gpc[p] = "submit" /\ p \notin sleeping
                    /\ ~MaySubmit
                    /\ sleeping' = sleeping \union {p}
                    /\ UNCHANGED <<tiles, gpc, frame, job, emitted, drawn, eventloop, agreement>>

WakeSpuriously(p) == /\ p \in sleeping
                     /\ sleeping' = sleeping \ {p}
                     /\ UNCHANGED <<tiles, gpc, frame, job, emitted, drawn, eventloop, agreement>>

\* Mutation: a closed window is drawn and the job left in place
HandleWork_kept == /\ loop \in {"run", "drain"} /\ handler = "idle" /\ emitted > 0
                   /\ emitted' = emitted - 1 /\ drawn' = [drawn EXCEPT ![job] = @ + 1]
                   /\ handler' = "notify"
                   /\ UNCHANGED <<tiles, gpc, frame, sleeping, job, loop, is_done, agreement>>

\* The callback of the dispatcher, its section under dispatch_protection
HandleWork == /\ loop \in {"run", "drain"} /\ handler = "idle" /\ emitted > 0
              /\ emitted' = emitted - 1
              /\ IF is_done THEN sleeping' = {} /\ UNCHANGED drawn
                 ELSE drawn' = [drawn EXCEPT ![job] = @ + 1] /\ UNCHANGED sleeping
              /\ job' = NoPainter
              /\ handler' = "notify"
              /\ UNCHANGED <<tiles, gpc, frame, loop, is_done, agreement>>

\* cv.notify_one() once the mutex is released
NotifySubmitter == /\ handler = "notify" /\ handler' = "idle"
                   /\ \/ sleeping = {} /\ UNCHANGED sleeping
                      \/ \E p \in sleeping : sleeping' = sleeping \ {p}
                   /\ UNCHANGED <<tiles, gpc, frame, job, emitted, drawn, loop, is_done, agreement>>

\* The close button hides the window, which ends the event loop, and calls
\* close_action
CloseButton == /\ loop = "run" /\ handler = "idle"
               /\ loop' = "drain" /\ is_done' = TRUE
               /\ UNCHANGED <<tiles, gpc, frame, submission, handler, agreement>>

\* The window manager closes the window: no close_action
CloseWindow == /\ loop = "run" /\ handler = "idle"
               /\ loop' = "drain"
               /\ UNCHANGED <<tiles, gpc, frame, submission, handler, is_done, agreement>>

\* Gtk::Application::run returns when no event is pending
RunReturns == /\ loop = "drain" /\ handler = "idle" /\ emitted = 0
              /\ loop' = "ended"
              /\ UNCHANGED <<tiles, gpc, frame, submission, handler, is_done, agreement>>

\* "Advertise that the graphics is shutting down", and the thread ends
AdvertiseDone == /\ loop = "ended" /\ loop' = "gone" /\ is_done' = TRUE
                 /\ UNCHANGED <<tiles, gpc, frame, submission, handler, agreement>>

\* is_done_barrier: done_has_been_sampled.test_and_set() decides who samples
TestAndSet(p) == /\ gpc[p] = "test_and_set"
                 /\ PainterAt(p, IF sampled THEN "sample" ELSE "arrive")
                 /\ sampled' = TRUE
                 /\ UNCHANGED <<tiles, frame, submission, eventloop, snapshot, arrived, answers>>

SampleDone(p) == /\ gpc[p] = "sample" /\ PainterAt(p, "arrive")
                 /\ snapshot' = IF is_done THEN "yes" ELSE "no"
                 /\ UNCHANGED <<tiles, frame, submission, eventloop, sampled, arrived, answers>>

\* done_barrier.count_down_and_wait(): the last one frees everybody
CountDown(p) == /\ gpc[p] = "arrive"
                /\ LET all == arrived \union {p} = tiles
                   IN /\ arrived' = IF all THEN {} ELSE arrived \union {p}
                      /\ gpc' = [q \in Painters |->
                                   IF all /\ q \in arrived \union {p} THEN "clear"
                                   ELSE IF q = p THEN "blocked" ELSE gpc[q]]
                /\ UNCHANGED <<tiles, frame, submission, eventloop, sampled, snapshot, answers>>

ClearSampled(p) == /\ gpc[p] = "clear" /\ PainterAt(p, "return")
                   /\ sampled' = FALSE
                   /\ UNCHANGED <<tiles, frame, submission, eventloop, snapshot, arrived, answers>>

ReturnDone(p) ==
  /\ gpc[p] = "return"
  /\ answers' = [answers EXCEPT ![p] = Append(@, snapshot)]
  /\ PainterAt(p, IF snapshot = "yes" THEN "left" ELSE "frame")
  /\ UNCHANGED <<tiles, frame, submission, eventloop, sampled, snapshot, arrived>>

PainterStep(p) == \/ BeginFrame(p) \/ SubmitWork(p) \/ SleepInSubmit(p)
                  \/ TestAndSet(p) \/ SampleDone(p) \/ CountDown(p)
                  \/ ClearSampled(p) \/ ReturnDone(p)

GraphicsThread == HandleWork \/ NotifySubmitter \/ RunReturns \/ AdvertiseDone

\* Nobody draws any more
Painted == /\ \A p \in tiles : \/ gpc[p] \in {"left", "blocked"}
                               \/ gpc[p] = "frame" /\ frame[p] = MaxFrames
                               \/ p \in sleeping
           /\ UNCHANGED gvars

GNext == \/ \E p \in Painters : PainterStep(p) \/ WakeSpuriously(p)
         \/ GraphicsThread \/ CloseButton \/ CloseWindow \/ Painted

GSpec == GInit /\ [][GNext]_gvars
-----------------------------------------------------------------------------
GTypeOK == /\ gpc \in [Painters -> {"frame", "submit", "test_and_set", "sample", "arrive",
                                    "blocked", "clear", "return", "left"}]
           /\ job \in Painters \union {NoPainter} /\ emitted \in 0 .. 1
           /\ sleeping \subseteq {p \in Painters : gpc[p] = "submit"}
           /\ snapshot \in {"yes", "no"} /\ tiles \subseteq Painters

(* dispatcher callback: it never calls an empty work_to_dispatch, draws       *)
(* every image once, and only the shutdown makes it skip one.                 *)
EveryImageDrawnOnce ==
  LET Posted(p) == frame[p] - (IF gpc[p] = "submit" THEN 1 ELSE 0)
  IN /\ drawn[NoPainter] = 0
     /\ ~is_done => \A p \in tiles : Posted(p) = drawn[p] + (IF job = p THEN 1 ELSE 0)

(* is_done_barrier: the tiles are told to stop only when the window is        *)
(* closed, and two tiles get the same answer.  test_and_set returns false to  *)
(* the first tile, so that all the others sample: the tile of a grid of one   *)
(* gets what done_snapshot held from the start, and in a grid of three a tile *)
(* slow to return may get what another sampled in its next call.              *)
StopsOnlyWhenClosed ==
  /\ Cardinality(tiles) > 1 =>
       \A p \in tiles : \A i \in 1 .. Len(answers[p]) : answers[p][i] = "yes" => is_done
  /\ Cardinality(tiles) <= 2 =>
       \A p, q \in tiles : \A i \in 1 .. Len(answers[p]) :
         i <= Len(answers[q]) => answers[p][i] = answers[q][i]

(* submit: while the window is open a call returns, however many tiles wait   *)
(* and whichever of them notify_one wakes up.                                 *)
SubmitsReturnWhileOpen ==
  \A p \in Painters : (gpc[p] = "submit") ~> (gpc[p] # "submit" \/ is_done)

-----------------------------------------------------------------------------
(***************************************************************************)
(* The data validation of the graphics application: the images received    *)
(* from the device by the handler of the image updates are compared with   *)
(* those computed by a thread of the host.  Both threads meet twice per    *)
(* frame in data_validation::barrier, a boost::barrier of two.             *)
(***************************************************************************)
CONSTANTS CellCount,  \* number of tiles, nx*ny
          LastFrame,  \* frames drawn by each tile
          InStep      \* the tiles draw their frames together

ASSUME FrameAssumption == CellCount \in Nat \ {0} /\ LastFrame \in Nat /\ InStep \in BOOLEAN

VARIABLES sent,        \* updates of each tile handled by the host: td.counter
          host, dev,   \* frame of the data stored for each tile
          host_tile_counter, dev_tile_counter,
          frame_counter,
          hstep, dstep \* where the validating thread and the handler stand

fcvars == <<sent, host, dev, host_tile_counter, dev_tile_counter, frame_counter, hstep, dstep>>

Cells == 1 .. CellCount

FCInit == /\ sent = [c \in Cells |-> 0]
          /\ host = [c \in Cells |-> 0] /\ dev = [c \in Cells |-> 0]
          /\ host_tile_counter = 0 /\ dev_tile_counter = 0
          /\ frame_counter = 0 /\ hstep = "fill" /\ dstep = "fill"

\* validate_tile_data_image, called by the host program for each tile in turn
Validate(c) == /\ hstep = "fill" /\ c = host_tile_counter + 1 /\ frame_counter < LastFrame
               /\ host' = [host EXCEPT ![c] = frame_counter + 1]
               /\ host_tile_counter' = c % CellCount
               /\ hstep' = IF c = CellCount THEN "meet" ELSE "fill"
               /\ UNCHANGED <<sent, dev, dev_tile_counter, frame_counter, dstep>>

\* The handler of an update of a tile, with maybe_validate_data
UpdateFrame(c) ==
  /\ dstep = "fill" /\ sent[c] < LastFrame
  /\ InStep => \A d \in Cells : sent[c] <= sent[d]
  /\ sent' = [sent EXCEPT ![c] = @ + 1]
  /\ dev' = [dev EXCEPT ![c] = sent[c] + 1]
  /\ dev_tile_counter' = (dev_tile_counter + 1) % CellCount
  /\ dstep' = IF dev_tile_counter + 1 = CellCount THEN "meet" ELSE "fill"
  /\ UNCHANGED <<host, host_tile_counter, frame_counter, hstep>>

\* Both wait in the barrier: the handler goes on to its second wait
MeetToCompare == /\ hstep = "meet" /\ hstep' = "compare"
                 /\ dstep = "meet" /\ dstep' = "again"
                 /\ UNCHANGED <<sent, host, dev, host_tile_counter, dev_tile_counter,
                                frame_counter>>

\* Every tile's data is compared
Compare == /\ hstep = "compare" /\ hstep' = "again"
           /\ frame_counter' = frame_counter + 1
           /\ UNCHANGED <<sent, host, dev, host_tile_counter, dev_tile_counter, dstep>>

MeetAgain == /\ hstep = "again" /\ dstep = "again" /\ hstep' = "fill" /\ dstep' = "fill"
             /\ UNCHANGED <<sent, host, dev, host_tile_counter, dev_tile_counter,
                            frame_counter>>

FramesDone == frame_counter = LastFrame /\ hstep = "fill" /\ UNCHANGED fcvars

FCNext == \/ \E c \in Cells : Validate(c) \/ UpdateFrame(c)
          \/ MeetToCompare \/ Compare \/ MeetAgain \/ FramesDone

FCSpec == FCInit /\ [][FCNext]_fcvars
-----------------------------------------------------------------------------
(* validate_tile_data_image: while the tiles are compared, the data of the    *)
(* host and of the device are those of the same frame for every tile.         *)
SameFrameCompared ==
  hstep = "compare" => \A c \in Cells : host[c] = frame_counter + 1 /\ dev[c] = frame_counter + 1
=============================================================================
