----------------------------- MODULE Coherence -----------------------------
(***************************************************************************)
(* The copies of a buffer in the OpenCL contexts: buffer_base keeps the    *)
(* set of contexts where the data is up-to-date and a cache of the         *)
(* cl_mem of each context, and update_buffer_state moves the data when a   *)
(* kernel on an OpenCL queue starts, when a host accessor is built and     *)
(* when the buffer is destroyed.  Kernels on the same buffer follow each   *)
(* other as TaskGraph describes.                                           *)
(***************************************************************************)
EXTENDS Integers

CONSTANTS Devices,     \* OpenCL contexts
          Host,        \* the host context
          MaxVersion   \* kernels and host accesses that modify the data

ASSUME CoherenceAssumption == Host \notin Devices /\ MaxVersion \in Nat

VARIABLES fresh,       \* fresh_ctx
          cached,      \* the contexts with a cl_mem in buffer_cache
          content,     \* version of the data in each context, -1 for garbage
          newest,      \* version last written (ghost)
          stale,       \* some access has read another version (ghost)
          bypassed,    \* a host kernel went past the copy of a device (ghost)
          open         \* the buffer is not destroyed yet

cvars == <<fresh, cached, content, newest, stale, bypassed, open>>

Contexts == Devices \union {Host}
Reads    == {"read", "write", "read_write", "atomic"}
Discards == {"discard_write", "discard_read_write"}
Modes    == Reads \union Discards

CInit == /\ fresh = {Host} /\ cached = {}
         /\ content = [c \in Contexts |-> IF c = Host THEN 0 ELSE -1]
         /\ newest = 0 /\ stale = FALSE /\ bypassed = FALSE /\ open = TRUE

\* State of the data of the buffer: what update_buffer_state works on
Data == [fresh |-> fresh, cached |-> cached, content |-> content]

is_data_up_to_date(s, c) == c \in s.fresh

\* sync_with_host: the first context of the unordered set is any of them
sync_with_host(s) ==
  IF is_data_up_to_date(s, Host) \/ s.fresh = {} THEN {s}
  ELSE {[s EXCEPT !.content[Host] = s.content[c], !.fresh = @ \union {Host}] : c \in s.fresh}

\* Creation of the cl_mem with CL_MEM_COPY_HOST_PTR, or enqueue_write_buffer
CopyIn(s, c) == IF c = Host THEN s
                ELSE [s EXCEPT !.cached = @ \union {c}, !.content[c] = s.content[Host]]

update_on_read(s, c) ==
  IF is_data_up_to_date(s, c) THEN {s}
  ELSE {[CopyIn(h, c) EXCEPT !.fresh = @ \union {c}] : h \in sync_with_host(s)}

\* Mutation: the context is not filled before the write
update_on_write_blind(s, c, mode) == {[s EXCEPT !.cached = @ \union ({c} \ {Host}), !.fresh = {c}]}

update_on_write(s, c, mode) ==
  LET filled == IF is_data_up_to_date(s, c) THEN {s}
                ELSE IF mode \in Reads THEN {CopyIn(h, c) : h \in sync_with_host(s)}
                ELSE {[s EXCEPT !.cached = @ \union ({c} \ {Host})]}
  IN {[f EXCEPT !.fresh = {c}] : f \in filled}

update_buffer_state(s, c, mode) ==
  IF mode = "read" THEN update_on_read(s, c) ELSE update_on_write(s, c, mode)

\* A kernel or a host accessor reads what it may read, then writes all the data
Touch(s, c, mode) ==
  /\ stale' = (stale \/ (mode \in Reads /\ s.content[c] # newest))
  /\ newest' = IF mode = "read" THEN newest ELSE newest + 1
  /\ content' = IF mode = "read" THEN s.content ELSE [s.content EXCEPT ![c] = newest']
  /\ fresh' = s.fresh /\ cached' = s.cached

\* The prelude of a task on an OpenCL queue, copy_in_cl_buffer, then its kernel;
\* or the construction of a host accessor and its use, at once: a host accessor
\* waits for the kernels only when it is built, and what happens when it is used
\* beside later accesses is left open
AccessIn(c, mode) == /\ open /\ (mode # "read" => newest < MaxVersion)
                     /\ \E s \in update_buffer_state(Data, c, mode) : Touch(s, c, mode)
                     /\ UNCHANGED <<bypassed, open>>

\* register_accessor adds no prelude to a task on the host queue: its kernel
\* uses the host memory as it is
HostKernel(mode) ==
  /\ open /\ (mode # "read" => newest < MaxVersion)
  /\ Touch(Data, Host, mode)
  /\ bypassed' = (bypassed \/ Host \notin fresh \/ (mode # "read" /\ fresh # {Host}))
  /\ UNCHANGED open

\* ~buffer: the data is synchronized with the host before the write-back
DestroyBuffer == /\ open /\ open' = FALSE
                 /\ \E s \in update_buffer_state(Data, Host, "read") : Touch(s, Host, "read")
                 /\ UNCHANGED bypassed

BufferGone == ~open /\ UNCHANGED cvars

CNext == \/ \E c \in Contexts, mode \in Modes : AccessIn(c, mode)
         \/ \E mode \in Modes : HostKernel(mode)
         \/ DestroyBuffer \/ BufferGone

CSpec == CInit /\ [][CNext]_cvars
-----------------------------------------------------------------------------
CTypeOK == /\ fresh \subseteq Contexts /\ cached \subseteq Devices
           /\ content \in [Contexts -> -1 .. MaxVersion]
           /\ newest \in 0 .. MaxVersion

(* update_buffer_state: "To track contexts in which the data is up-to-date":  *)
(* the contexts of fresh_ctx hold the newest data, there is one, and those on *)
(* a device have their cl_mem; as long as no kernel of a host queue uses the  *)
(* buffer while a device holds newer data, or writes it while one has a copy. *)
FreshIsNewest == ~bypassed => /\ fresh # {} /\ fresh \ {Host} \subseteq cached
                              /\ \A c \in fresh : content[c] = newest

(* Under the same condition every kernel, every host accessor and the         *)
(* write-back of the destructor read the data of the last modification.       *)
ReadsNewest == ~bypassed => ~stale

(* update_buffer_state: both of the above.                                    *)
CoherentCopies == FreshIsNewest /\ ReadsNewest
=============================================================================
