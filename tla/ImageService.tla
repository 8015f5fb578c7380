---------------------------- MODULE ImageService ----------------------------
(****************************************************************************)
(* The graphics service of the aie library: a tile asks for its image to be *)
(* drawn and is told whether to stop.  One graphic_buffer serves all tiles, *)
(* one request after the other: on hardware in the loop of wait_all, in the *)
(* emulation in the fibers of the tiles, which share the one thread of the  *)
(* pool and are not suspended inside act_on_data.  The window is drawn by   *)
(* the graphics thread, later than the request it is drawn for.             *)
(****************************************************************************)
EXTENDS Integers

CONSTANTS ImageTiles,  \* the tiles that draw
          MaxImages    \* bound on the images of one tile

ASSUME ImageAssumption == MaxImages \in Nat

VARIABLES ipc,             \* where each tile stands in its request
          computed,        \* the number of the image each tile has computed
          graphic_buffer,  \* the image copied from the device last
          posted,          \* the work handed over to the graphics thread
          image,           \* the image the window shows for each tile
          closed_window,   \* the window has been closed
          stopped          \* the tiles told to stop

isvars == <<ipc, computed, graphic_buffer, posted, image, closed_window, stopped>>

NoImage == [tile |-> "none", frame |-> 0]
NoPost  == [place |-> "none", pixels |-> NoImage]

ISInit == /\ ipc = [t \in ImageTiles |-> "compute"]
          /\ computed = [t \in ImageTiles |-> 0]
          /\ graphic_buffer = NoImage /\ posted = NoPost
          /\ image = [t \in ImageTiles |-> NoImage]
          /\ closed_window = FALSE /\ stopped = {}

\* add_to_service_api::update_image: a request with the address of the pixels
update_image(t) == /\ ipc[t] = "compute" /\ t \notin stopped /\ computed[t] < MaxImages
                   /\ computed' = [computed EXCEPT ![t] = @ + 1]
                   /\ ipc' = [ipc EXCEPT ![t] = "asked"]
                   /\ UNCHANGED <<graphic_buffer, posted, image, closed_window, stopped>>

\* The host takes up a request when it is done with the one before
MayServe(t) == ipc[t] = "asked" /\ \A u \in ImageTiles : ipc[u] \notin {"copied", "drawn"}

\* act_on_data: the pixels are copied to the buffer of the service
CopyPixels(t) == /\ MayServe(t)
                 /\ graphic_buffer' = [tile |-> t, frame |-> computed[t]]
                 /\ ipc' = [ipc EXCEPT ![t] = "copied"]
                 /\ UNCHANGED <<computed, posted, image, closed_window, stopped>>

\* update_tile_data_image renders the buffer into memory of its own, which it
\* hands over to the graphics thread once the work before has been taken up
DrawBuffer(t) == /\ ipc[t] = "copied" /\ (posted = NoPost \/ closed_window)
                 /\ posted' = IF closed_window THEN posted
                              ELSE [place |-> t, pixels |-> graphic_buffer]
                 /\ ipc' = [ipc EXCEPT ![t] = "drawn"]
                 /\ UNCHANGED <<computed, graphic_buffer, image, closed_window, stopped>>

\* The graphics thread takes the work up, and draws it in an open window
ShowPosted == /\ posted # NoPost /\ posted' = NoPost
              /\ image' = IF closed_window THEN image
                          ELSE [image EXCEPT ![posted.place] = posted.pixels]
              /\ UNCHANGED <<ipc, computed, graphic_buffer, closed_window, stopped>>

\* The tile gets its answer: application::is_done
AnswerRequest(t) == /\ ipc[t] = "drawn"
                    /\ stopped' = IF closed_window THEN stopped \union {t} ELSE stopped
                    /\ ipc' = [ipc EXCEPT ![t] = "compute"]
                    /\ UNCHANGED <<computed, graphic_buffer, posted, image, closed_window>>

\* The user closes the window
CloseImages == /\ ~closed_window /\ closed_window' = TRUE
               /\ UNCHANGED <<ipc, computed, graphic_buffer, posted, image, stopped>>

AllDrawn == /\ closed_window
            /\ \A t \in ImageTiles : ipc[t] = "compute" /\ (t \in stopped \/ computed[t] = MaxImages)
            /\ UNCHANGED isvars

ISNext == \/ \E t \in ImageTiles : update_image(t) \/ CopyPixels(t) \/ DrawBuffer(t) \/ AnswerRequest(t)
          \/ ShowPosted
          \/ CloseImages
          \/ AllDrawn
ISSpec == ISInit /\ [][ISNext]_isvars
-----------------------------------------------------------------------------
(* The place of a tile shows images of that tile only, although the graphics thread  *)
(* draws them after graphic_buffer has gone to another tile; and while the window is *)
(* open the image of an answered request is shown, or is the next to be              *)
(* (graphics_service::act_on_data, image_grid::update_tile_data_image).              *)
OwnImageShown ==
  \A t \in ImageTiles :
    LET latest == [tile |-> t, frame |-> computed[t]]
    IN /\ image[t] = NoImage \/ image[t].tile = t
       /\ ipc[t] = "compute" /\ computed[t] > 0 /\ ~closed_window =>
            image[t] = latest \/ posted = [place |-> t, pixels |-> latest]
=============================================================================
