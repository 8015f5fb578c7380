------------------------------- MODULE MCHost -------------------------------
(***************************************************************************)
(* The components of the host runtime that have a state of their own and   *)
(* the pure algorithms, side by side: `which' tells the one that runs,     *)
(* chosen in the initial state, the others keep their initial states.      *)
(***************************************************************************)
EXTENDS FiberPool, Graphics, Coherence, ObjectCache, KernelLaunch, ScopeStorage,
        RuntimeObjects, BufferData, PipeFacade, Errors, ImageService, Algorithms, TLC

VARIABLE which

Parts == {"pipe", "pool", "graphics", "frames", "coherence", "cache", "access",
          "launch", "scope", "objects", "buffer", "facade", "errors", "images",
          "algorithm"}

\* The second work gets the future of the first
MCNeeds == ("a" :> {}) @@ ("b" :> {"a"})

\* Two readers of what the first group writes; a writer between two readers; a
\* chain of producers and consumers over two buffers
ReadOf(b)  == [buffer |-> b, write |-> FALSE]
WriteOf(b) == [buffer |-> b, write |-> TRUE]
MCPrograms == { <<<<WriteOf("x")>>, <<ReadOf("x")>>, <<ReadOf("x")>>>>,
                <<<<ReadOf("x")>>, <<WriteOf("x")>>, <<ReadOf("x")>>>>,
                <<<<WriteOf("x")>>, <<WriteOf("y"), ReadOf("x")>>, <<ReadOf("y")>>>> }

allvars == <<which, vars, pvars, gvars, fcvars, cvars, ocvars, pavars, klvars,
             scvars, rovars, bdvars, fvars, evars, isvars, input>>

MCInit == /\ which \in Parts
          /\ Init /\ PInit
          /\ which # "pool" => algo = "round_robin"
          /\ GInit /\ FCInit /\ CInit /\ OCInit /\ PAInit
          /\ which # "access" => \A a \in Opens : acc[a].mode = "read"
          /\ KLInit
          /\ which # "launch" => /\ kind = [g \in CGs |-> "outlined"]
                                  /\ accessors = CHOOSE a \in Programs : TRUE
          /\ SCInit /\ ROInit /\ BDInit
          /\ which # "buffer" => made = "range"
          /\ FInit
          /\ which # "facade" => target = "pipe"
          /\ EInit
          /\ which # "errors" => emode = "threads" /\ equeue = "host" /\ edeps = {} /\ eclause = "exception"
          /\ which # "graphics" => tiles = Painters /\ snapshot = "no"
          /\ ISInit
          /\ AlgInit

OnlyPipe      == UNCHANGED <<which, pvars, gvars, fcvars, cvars, ocvars, pavars, klvars, scvars,
                             rovars, bdvars, fvars, evars, isvars, input>>
OnlyPool      == UNCHANGED <<which, vars, gvars, fcvars, cvars, ocvars, pavars, klvars, scvars,
                             rovars, bdvars, fvars, evars, isvars, input>>
OnlyGraphics  == UNCHANGED <<which, vars, pvars, fcvars, cvars, ocvars, pavars, klvars, scvars,
                             rovars, bdvars, fvars, evars, isvars, input>>
OnlyFrames    == UNCHANGED <<which, vars, pvars, gvars, cvars, ocvars, pavars, klvars, scvars,
                             rovars, bdvars, fvars, evars, isvars, input>>
OnlyCoherence == UNCHANGED <<which, vars, pvars, gvars, fcvars, ocvars, pavars, klvars, scvars,
                             rovars, bdvars, fvars, evars, isvars, input>>
OnlyCache     == UNCHANGED <<which, vars, pvars, gvars, fcvars, cvars, pavars, klvars, scvars,
                             rovars, bdvars, fvars, evars, isvars, input>>
OnlyAccess    == UNCHANGED <<which, vars, pvars, gvars, fcvars, cvars, ocvars, klvars, scvars,
                             rovars, bdvars, fvars, evars, isvars, input>>
OnlyLaunch    == UNCHANGED <<which, vars, pvars, gvars, fcvars, cvars, ocvars, pavars, scvars,
                             rovars, bdvars, fvars, evars, isvars, input>>
OnlyScope     == UNCHANGED <<which, vars, pvars, gvars, fcvars, cvars, ocvars, pavars, klvars,
                             rovars, bdvars, fvars, evars, isvars, input>>
OnlyObjects   == UNCHANGED <<which, vars, pvars, gvars, fcvars, cvars, ocvars, pavars, klvars,
                             scvars, bdvars, fvars, evars, isvars, input>>
OnlyBuffer    == UNCHANGED <<which, vars, pvars, gvars, fcvars, cvars, ocvars, pavars, klvars,
                             scvars, rovars, fvars, evars, isvars, input>>
OnlyFacade    == UNCHANGED <<which, vars, pvars, gvars, fcvars, cvars, ocvars, pavars, klvars,
                             scvars, rovars, bdvars, evars, isvars, input>>
OnlyErrors    == UNCHANGED <<which, vars, pvars, gvars, fcvars, cvars, ocvars, pavars, klvars,
                             scvars, rovars, bdvars, fvars, isvars, input>>
OnlyImages    == UNCHANGED <<which, vars, pvars, gvars, fcvars, cvars, ocvars, pavars, klvars,
                             scvars, rovars, bdvars, fvars, evars, input>>
OnlyAlgorithm == UNCHANGED <<which, vars, pvars, gvars, fcvars, cvars, ocvars, pavars, klvars,
                             scvars, rovars, bdvars, fvars, evars, isvars>>

\* The kernels may stop using the pipe
PipeLeft == UNCHANGED vars

MCNext == \/ which = "pipe" /\ (Next \/ PipeLeft) /\ OnlyPipe
          \/ which = "pool" /\ PNext /\ OnlyPool
          \/ which = "graphics" /\ GNext /\ OnlyGraphics
          \/ which = "frames" /\ FCNext /\ OnlyFrames
          \/ which = "coherence" /\ CNext /\ OnlyCoherence
          \/ which = "cache" /\ OCNext /\ OnlyCache
          \/ which = "access" /\ PANext /\ OnlyAccess
          \/ which = "launch" /\ KLNext /\ OnlyLaunch
          \/ which = "scope" /\ SCNext /\ OnlyScope
          \/ which = "objects" /\ RONext /\ OnlyObjects
          \/ which = "buffer" /\ BDNext /\ OnlyBuffer
          \/ which = "facade" /\ FNext /\ OnlyFacade
          \/ which = "errors" /\ ENext /\ OnlyErrors
          \/ which = "images" /\ ISNext /\ OnlyImages
          \/ which = "algorithm" /\ AlgNext /\ OnlyAlgorithm

\* The threads of the system run.  A fiber that yields is resumed, so that one
\* which can end its work again and again does.
MCFairness ==
  /\ WF_allvars(which = "pipe" /\ move_write_reservation_forward /\ OnlyPipe)
  /\ WF_allvars(which = "pipe" /\ move_read_reservation_forward /\ OnlyPipe)
  /\ \A t \in Threads : WF_allvars(which = "pool" /\ ThreadStep(t) /\ OnlyPool)
  /\ WF_allvars(which = "pool" /\ MainStep /\ OnlyPool)
  /\ WF_allvars(which = "pool" /\ Join /\ OnlyPool)
  /\ \A w \in Works :
       SF_allvars(which = "pool" /\ (\E t \in Threads : cur[t] = w /\ Finish(t)) /\ OnlyPool)
  /\ \A p \in Painters : WF_allvars(which = "graphics" /\ PainterStep(p) /\ OnlyGraphics)
  /\ WF_allvars(which = "graphics" /\ GraphicsThread /\ OnlyGraphics)

MCSpec == MCInit /\ [][MCNext]_allvars /\ MCFairness
-----------------------------------------------------------------------------
(* What is drawn is what the tiles computed: every image once, its own one, whole and    *)
(* in its place, and the tiles stop only when the window is closed (graphics.hpp).       *)
PicturesShown == /\ GTypeOK /\ EveryImageDrawnOnce /\ StopsOnlyWhenClosed /\ SameFrameCompared
                 /\ OwnImageShown /\ PaletteKeysUndo /\ ImageInPlace

(* One implementation object per OpenCL handle, with balanced references, and one        *)
(* storage per scope, both alive as long as they are used (cache, opencl_context,        *)
(* opencl_queue, opencl_kernel, scope::queue).                                           *)
ObjectsShared == /\ OneAliveObject /\ WrapsLive /\ OneImplementation /\ ReferencesBalance
                 /\ OneStorage /\ ScopesAlive

(* A kernel is found in the images of the program and runs with its own arguments        *)
(* (program_manager, handler, opencl_kernel).                                            *)
KernelsFound == /\ KernelsRegistered /\ SymbolsFound /\ SourceKeepsFile
                /\ OwnArguments /\ ArgumentsHaveBuffers

(* Committed reservations are released, a closed pool is joined, and a submit to an open *)
(* window returns.                                                                       *)
HostProgress == CommitsReleased /\ JoinReturns /\ SubmitsReturnWhileOpen
=============================================================================
