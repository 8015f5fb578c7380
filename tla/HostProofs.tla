----------------------------- MODULE HostProofs -----------------------------
(***************************************************************************)
(* Proofs about the runtime of the host: the copies of the data of buffers *)
(* in the OpenCL contexts (Coherence), where these data lie from their     *)
(* construction to the write-back at their destruction (BufferData), and   *)
(* the kernels that throw (Errors).                                        *)
(***************************************************************************)
EXTENDS Coherence, BufferData, Errors, TLAPS

-----------------------------------------------------------------------------
(***************************************************************************)
(* Proof, for any set of OpenCL contexts and any number of modifications,  *)
(* that fresh_ctx names the contexts with the newest data and that every   *)
(* access reads it, as long as no kernel of a host queue bypasses the      *)
(* copies.  The invariant is that of fresh_ctx itself; each of the three   *)
(* functions under update_buffer_state has a lemma about what it returns.  *)
(***************************************************************************)

Versions == -1 .. MaxVersion

(* The states of the data update_buffer_state works on *)
DataStates == [fresh : SUBSET Contexts, cached : SUBSET Devices, content : [Contexts -> Versions]]

(* fresh_ctx is not empty, its contexts hold version n and have their cl_mem *)
Good(s, n) == /\ s.fresh # {} /\ s.fresh \ {Host} \subseteq s.cached
              /\ \A c \in s.fresh : s.content[c] = n

CFlags == stale \in BOOLEAN /\ bypassed \in BOOLEAN /\ open \in BOOLEAN

CInv == CTypeOK /\ CFlags /\ FreshIsNewest /\ ReadsNewest
-----------------------------------------------------------------------------
(* sync_with_host: fresh_ctx keeps naming copies of version n, and the host has one. *)
LEMMA SyncWithHost ==
  ASSUME NEW s \in DataStates, NEW h \in sync_with_host(s)
  PROVE  /\ h \in DataStates
         /\ \A n : Good(s, n) => Good(h, n) /\ Host \in h.fresh
<1> USE CoherenceAssumption DEF DataStates, Contexts
<1>1. CASE is_data_up_to_date(s, Host) \/ s.fresh = {}
      BY Zenon, <1>1 DEF sync_with_host, Good, is_data_up_to_date
<1>2. CASE ~(is_data_up_to_date(s, Host) \/ s.fresh = {})
  <2>1. PICK c \in s.fresh :
          h = [s EXCEPT !.content[Host] = s.content[c], !.fresh = @ \union {Host}]
        BY Zenon, <1>2 DEF sync_with_host
  <2>2. c \in Contexts /\ s.content[c] \in Versions OBVIOUS
  <2>3. h = [fresh |-> s.fresh \union {Host}, cached |-> s.cached,
             content |-> [s.content EXCEPT ![Host] = s.content[c]]]
        BY Zenon, <2>1
  <2>4. h \in DataStates BY <2>2, <2>3
  <2>5. \A n : Good(s, n) => Good(h, n) /\ Host \in h.fresh
        BY <2>2, <2>3 DEF Good
  <2>6. QED BY <2>4, <2>5
<1>3. QED BY <1>1, <1>2

(* The creation of the cl_mem of c, or the transfer to it, gives c the data of the   *)
(* host and changes no other context.                                                *)
LEMMA CopyInGives ==
  ASSUME NEW s \in DataStates, NEW c \in Contexts
  PROVE  /\ CopyIn(s, c) \in DataStates
         /\ CopyIn(s, c).fresh = s.fresh
         /\ s.cached \subseteq CopyIn(s, c).cached /\ (c # Host => c \in CopyIn(s, c).cached)
         /\ CopyIn(s, c).content[c] = s.content[Host]
         /\ \A d \in Contexts \ {c} : CopyIn(s, c).content[d] = s.content[d]
<1> USE CoherenceAssumption DEF DataStates, Contexts
<1>1. CASE c = Host BY <1>1 DEF CopyIn
<1>2. CASE c # Host
  <2>1. CopyIn(s, c) = [fresh |-> s.fresh, cached |-> s.cached \union {c},
                        content |-> [s.content EXCEPT ![c] = s.content[Host]]]
        BY Zenon, <1>2 DEF CopyIn
  <2>2. QED BY <1>2, <2>1
<1>3. QED BY <1>1, <1>2

(* A read access: fresh_ctx still names copies of version n, c among them. *)
LEMMA UpdateOnRead ==
  ASSUME NEW s \in DataStates, NEW c \in Contexts, NEW r \in update_on_read(s, c)
  PROVE  /\ r \in DataStates
         /\ \A n : Good(s, n) => Good(r, n) /\ c \in r.fresh
<1>1. CASE is_data_up_to_date(s, c)
      BY <1>1 DEF update_on_read, is_data_up_to_date
<1>2. CASE ~is_data_up_to_date(s, c)
  <2>1. PICK h \in sync_with_host(s) : r = [CopyIn(h, c) EXCEPT !.fresh = @ \union {c}]
        BY <1>2 DEF update_on_read
  <2>2. h \in DataStates /\ \A n : Good(s, n) => Good(h, n) /\ Host \in h.fresh
        BY SyncWithHost
  <2> DEFINE k == CopyIn(h, c)
  <2>3. /\ k \in DataStates /\ k.fresh = h.fresh
        /\ h.cached \subseteq k.cached /\ (c # Host => c \in k.cached)
        /\ k.content[c] = h.content[Host]
        /\ \A d \in Contexts \ {c} : k.content[d] = h.content[d]
        BY <2>2, CopyInGives
  <2> HIDE DEF k
  <2>4. r = [fresh |-> k.fresh \union {c}, cached |-> k.cached, content |-> k.content]
        BY <2>1, <2>3 DEF k, DataStates
  <2>5. r \in DataStates BY <2>3, <2>4 DEF DataStates
  <2>6. ASSUME NEW n, Good(s, n) PROVE Good(r, n) /\ c \in r.fresh
    <3>1. Good(h, n) /\ Host \in h.fresh BY <2>2, <2>6
    <3>2. k.content[c] = n BY <2>3, <3>1 DEF Good
    <3>3. \A d \in k.fresh : d \in Contexts BY <2>3 DEF DataStates
    <3>4. \A d \in k.fresh : k.content[d] = n BY <2>3, <3>1, <3>2, <3>3 DEF Good
    <3>5. k.fresh \ {Host} \subseteq k.cached BY <2>3, <3>1 DEF Good
    <3>6. QED BY <2>3, <2>4, <3>2, <3>4, <3>5 DEF Good
  <2>7. QED BY <2>5, <2>6
<1>3. QED BY <1>1, <1>2

(* A write access: c is alone in fresh_ctx, with its cl_mem, and holds version n if   *)
(* it may read.                                                                       *)
LEMMA UpdateOnWrite ==
  ASSUME NEW s \in DataStates, NEW c \in Contexts, NEW mode, NEW r \in update_on_write(s, c, mode)
  PROVE  /\ r \in DataStates /\ r.fresh = {c}
         /\ \A n : Good(s, n) => /\ c # Host => c \in r.cached
                                 /\ mode \in Reads => r.content[c] = n
<1> DEFINE filled == IF is_data_up_to_date(s, c) THEN {s}
                     ELSE IF mode \in Reads THEN {CopyIn(h, c) : h \in sync_with_host(s)}
                     ELSE {[s EXCEPT !.cached = @ \union ({c} \ {Host})]}
<1>1. PICK f \in filled : r = [f EXCEPT !.fresh = {c}]
      BY DEF update_on_write
<1>2. /\ f \in DataStates
      /\ \A n : Good(s, n) => /\ c # Host => c \in f.cached
                              /\ mode \in Reads => f.content[c] = n
  <2>1. CASE is_data_up_to_date(s, c)
        BY <2>1, <1>1 DEF is_data_up_to_date, Good
  <2>2. CASE ~is_data_up_to_date(s, c) /\ mode \in Reads
    <3>1. PICK h \in sync_with_host(s) : f = CopyIn(h, c) BY <2>2, <1>1
    <3>2. h \in DataStates /\ \A n : Good(s, n) => Good(h, n) /\ Host \in h.fresh
          BY SyncWithHost
    <3>3. /\ f \in DataStates /\ (c # Host => c \in f.cached)
          /\ f.content[c] = h.content[Host]
          BY <3>1, <3>2, CopyInGives
    <3>4. QED BY <3>2, <3>3 DEF Good
  <2>3. CASE ~is_data_up_to_date(s, c) /\ mode \notin Reads
    <3>1. f = [s EXCEPT !.cached = @ \union ({c} \ {Host})] BY <2>3, <1>1
    <3>2. f = [fresh |-> s.fresh, cached |-> s.cached \union ({c} \ {Host}), content |-> s.content]
          BY Zenon, <3>1 DEF DataStates
    <3>3. QED BY <2>3, <3>2 DEF DataStates, Contexts
  <2>4. QED BY <2>1, <2>2, <2>3
<1> HIDE DEF filled
<1>3. r = [fresh |-> {c}, cached |-> f.cached, content |-> f.content]
      BY <1>1, <1>2 DEF DataStates
<1>4. QED BY <1>2, <1>3 DEF DataStates
-----------------------------------------------------------------------------
(* The data of a state that satisfies the invariant *)
LEMMA DataIsGood == CInv => Data \in DataStates /\ (~bypassed => Good(Data, newest) /\ ~stale)
BY DEF CInv, CTypeOK, Data, DataStates, Versions, FreshIsNewest, ReadsNewest, Good

(* The use of the data an access has prepared keeps the invariant. *)
LEMMA TouchKeeps ==
  ASSUME CInv, NEW c \in Contexts, NEW mode \in Modes, NEW s \in DataStates,
         mode # "read" => newest < MaxVersion,
         bypassed' \in BOOLEAN, open' \in BOOLEAN, bypassed => bypassed',
         ~bypassed' => /\ mode = "read" => Good(s, newest) /\ c \in s.fresh
                       /\ mode # "read" => /\ s.fresh = {c} /\ (c # Host => c \in s.cached)
                                           /\ mode \in Reads => s.content[c] = newest,
         Touch(s, c, mode)
  PROVE  CInv'
<1>1. newest \in 0 .. MaxVersion /\ newest' \in 0 .. MaxVersion
      BY CoherenceAssumption DEF CInv, CTypeOK, Touch
<1>2. s.fresh \subseteq Contexts /\ s.cached \subseteq Devices /\ s.content \in [Contexts -> Versions]
      BY DEF DataStates
<1>3. content' \in [Contexts -> Versions]
      BY <1>1, <1>2, CoherenceAssumption DEF Touch, Versions
<1>4. CTypeOK'
      BY <1>1, <1>2, <1>3 DEF Touch, CTypeOK, Versions
<1>5. CFlags'
      BY DEF CInv, CFlags, Touch
<1>6. FreshIsNewest'
  <2> SUFFICES ASSUME ~bypassed'
               PROVE  /\ fresh' # {} /\ fresh' \ {Host} \subseteq cached'
                      /\ \A d \in fresh' : content'[d] = newest'
      BY DEF FreshIsNewest
  <2>1. CASE mode = "read" BY <2>1 DEF Touch, Good
  <2>2. CASE mode # "read" BY <2>2, <1>2 DEF Touch
  <2>3. QED BY <2>1, <2>2
<1>7. ReadsNewest'
  <2> SUFFICES ASSUME ~bypassed' PROVE ~stale' BY DEF ReadsNewest
  <2>1. ~stale BY DEF CInv, ReadsNewest
  <2>2. mode \in Reads => s.content[c] = newest
        BY DEF Good
  <2>3. QED BY <2>1, <2>2 DEF Touch
<1>8. QED BY <1>4, <1>5, <1>6, <1>7 DEF CInv

(* The invariant holds for a new buffer. *)
LEMMA CInvInit == CInit => CInv
<1> SUFFICES ASSUME CInit PROVE CInv
    OBVIOUS
<1>1. \A c \in Contexts : (IF c = Host THEN 0 ELSE -1) \in -1 .. MaxVersion
      BY CoherenceAssumption
<1>2. CTypeOK
      BY <1>1, CoherenceAssumption DEF CInit, CTypeOK, Contexts
<1>3. content[Host] = 0
      BY DEF CInit, Contexts
<1>4. CFlags /\ FreshIsNewest /\ ReadsNewest
      BY Zenon, <1>3 DEF CInit, CFlags, FreshIsNewest, ReadsNewest
<1>5. QED BY <1>2, <1>4 DEF CInv

(* Accesses, kernels of the host queue and the destruction keep the invariant. *)
LEMMA CInvStep == CInv /\ [CNext]_cvars => CInv'
<1> SUFFICES ASSUME CInv, [CNext]_cvars PROVE CInv'
    OBVIOUS
<1>1. Data \in DataStates /\ (~bypassed => Good(Data, newest) /\ ~stale)
      BY DataIsGood
<1>2. bypassed \in BOOLEAN /\ open \in BOOLEAN BY DEF CInv, CFlags
<1>3. Host \in Contexts /\ "read" \in Modes /\ "read" \in Reads
      BY DEF Contexts, Modes, Reads
<1>4. ASSUME NEW c \in Contexts, NEW mode \in Modes, NEW s \in update_buffer_state(Data, c, mode)
      PROVE  /\ s \in DataStates
             /\ ~bypassed => /\ mode = "read" => Good(s, newest) /\ c \in s.fresh
                             /\ mode # "read" => /\ s.fresh = {c} /\ (c # Host => c \in s.cached)
                                                 /\ mode \in Reads => s.content[c] = newest
  <2>1. CASE mode = "read"
    <3>1. s \in update_on_read(Data, c) BY <1>4, <2>1 DEF update_buffer_state
    <3>2. QED BY <1>1, <2>1, <3>1, UpdateOnRead
  <2>2. CASE mode # "read"
    <3>1. s \in update_on_write(Data, c, mode) BY <1>4, <2>2 DEF update_buffer_state
    <3>2. QED BY <1>1, <2>2, <3>1, UpdateOnWrite
  <2>3. QED BY <2>1, <2>2
<1>5. ASSUME NEW c \in Contexts, NEW mode \in Modes, AccessIn(c, mode) PROVE CInv'
  <2>1. PICK s \in update_buffer_state(Data, c, mode) : Touch(s, c, mode)
        BY <1>5 DEF AccessIn
  <2>2. bypassed' = bypassed /\ open' = open /\ (mode # "read" => newest < MaxVersion)
        BY <1>5 DEF AccessIn
  <2>3. QED BY <1>2, <1>4, <2>1, <2>2, TouchKeeps
<1>6. ASSUME NEW mode \in Modes, HostKernel(mode) PROVE CInv'
  <2>1. /\ Touch(Data, Host, mode) /\ (mode # "read" => newest < MaxVersion) /\ open' = open
        /\ bypassed' = (bypassed \/ Host \notin fresh \/ (mode # "read" /\ fresh # {Host}))
        BY <1>6 DEF HostKernel
  <2>2. Data.fresh = fresh BY DEF Data
  <2>3. ~bypassed' => /\ mode = "read" => Good(Data, newest) /\ Host \in Data.fresh
                      /\ mode # "read" => /\ Data.fresh = {Host}
                                          /\ mode \in Reads => Data.content[Host] = newest
        BY Zenon, <1>1, <2>1, <2>2 DEF Good
  <2>4. bypassed' \in BOOLEAN /\ (bypassed => bypassed') BY <1>2, <2>1
  <2>5. QED BY <1>1, <1>2, <1>3, <2>1, <2>3, <2>4, TouchKeeps
<1>7. ASSUME DestroyBuffer PROVE CInv'
  <2>1. PICK s \in update_buffer_state(Data, Host, "read") : Touch(s, Host, "read")
        BY <1>7 DEF DestroyBuffer
  <2>2. bypassed' = bypassed /\ open' = FALSE BY <1>7 DEF DestroyBuffer
  <2>3. QED BY Zenon, <1>2, <1>3, <1>4, <2>1, <2>2, TouchKeeps
<1>8. ASSUME UNCHANGED cvars PROVE CInv'
      BY <1>8 DEF cvars, CInv, CTypeOK, CFlags, FreshIsNewest, ReadsNewest
<1>9. QED BY <1>5, <1>6, <1>7, <1>8 DEF CNext, BufferGone

(* The invariant holds in every reachable state. *)
LEMMA CInvAlways == CSpec => []CInv
BY CInvInit, CInvStep, PTL DEF CSpec

(* Types of the coherence state: versions stay within what was written. *)
THEOREM CoherenceTypeCorrect == CSpec => []CTypeOK
<1>1. CInv => CTypeOK BY DEF CInv
<1>2. QED BY <1>1, CInvAlways, PTL

(* fresh_ctx names only contexts with the newest data, and never none. *)
THEOREM FreshContextsNewest == CSpec => []FreshIsNewest
<1>1. CInv => FreshIsNewest BY DEF CInv
<1>2. QED BY <1>1, CInvAlways, PTL

(* Every kernel, host accessor and write-back reads the newest data. *)
THEOREM AccessesReadNewest == CSpec => []ReadsNewest
<1>1. CInv => ReadsNewest BY DEF CInv
<1>2. QED BY <1>1, CInvAlways, PTL

(* update_buffer_state keeps the copies of a buffer coherent, for every set of  *)
(* contexts and every number of accesses.                                       *)
THEOREM CopiesCoherent == CSpec => []CoherentCopies
BY FreshContextsNewest, AccessesReadNewest, PTL DEF CoherentCopies

-----------------------------------------------------------------------------
(***************************************************************************)
(* Proof of BufferContents for any number of accessors, of buffer objects  *)
(* and of writes.  The invariant says where the data of each kind of       *)
(* buffer lie, that accessors for writing point there, and that until the  *)
(* end nothing else than that memory has changed.                          *)
(***************************************************************************)

\* The user's memory is the memory of the buffer
InPlace == {"host", "container", "shared"}
\* The buffer works on memory of its own from the start
Apart == {"range", "iterators", "local"}

DataRecord == [at : {"user", "own"}, allocation : BOOLEAN, data_host : BOOLEAN,
               copy_if_modified : BOOLEAN, modified : BOOLEAN,
               final_write_back : [kind : {"none", "weak", "iterator"}, to : {"user", "final"}]]

BDTypeOK ==
  /\ made \in InPlace \union Apart \union {"const_host"}
  /\ data \in DataRecord
  /\ stored \in [Memories -> 0 .. LastWrite]
  /\ written \in 0 .. LastWrite
  /\ view \in [Views -> [mode : {"none", "read", "write"}, at : {"user", "own"}]]
  /\ buffers \in 0 .. MaxBuffers
  /\ owns \subseteq {"user", "final"}
  /\ ended \in BOOLEAN

\* Where the data of each kind of buffer lie
DataPlaced ==
  /\ data.at = "own" => data.allocation
  /\ made \in InPlace => data.at = "user"
  /\ made \in Apart => data.at = "own"
  /\ data.copy_if_modified <=> (made = "const_host" /\ data.at = "user")
  /\ made \in {"host", "container", "const_host"} => "user" \in owns

\* An accessor for writing points to the data, one for reading at least to what
\* constant data were
ViewsPlaced ==
  \A v \in Views : view[v] # NoView =>
    /\ ~ended /\ view[v].mode \in {"read", "write"}
    /\ view[v].at = data.at \/ (made = "const_host" /\ view[v].mode = "read" /\ view[v].at = "user")
    /\ view[v].mode = "write" => view[v].at = data.at /\ ~data.copy_if_modified

\* What each memory holds before the end
StoredNewest ==
  /\ stored[data.at] = written
  /\ ~ended => /\ stored["final"] = Garbage
               /\ made \notin InPlace => stored["user"] = Given
  /\ ended => buffers = 0 /\ \A v \in Views : view[v] = NoView

BDInv == BDTypeOK /\ DataPlaced /\ ViewsPlaced /\ StoredNewest /\ InputKept /\ ResultReachesUser
-----------------------------------------------------------------------------
(* The invariant implies the properties of the accessors. *)
LEMMA BDInvImplies == BDInv => BufferContents
<1> SUFFICES ASSUME BDInv PROVE BufferContents
    OBVIOUS
<1>1. ViewsAllocated
      BY DEF BDInv, BDTypeOK, DataPlaced, ViewsPlaced, ViewsAllocated, Allocated, KeepsInput, InPlace, Apart
<1>2. ViewsShowNewest
      BY DEF BDInv, ViewsPlaced, StoredNewest, ViewsShowNewest, InPlace
<1>3. QED BY <1>1, <1>2 DEF BDInv, BufferContents

(* The members of a new buffer. *)
LEMMA ConstructorType == \A k \in DOMAIN constructor : constructor[k] \in DataRecord
<1>1. \A at \in {"user", "own"}, a, h, c \in BOOLEAN : Fields(at, a, h, c) \in DataRecord
      BY DEF Fields, DataRecord, NoFinal
<1>2. {of_range, of_const_host, of_host, of_shared, of_iterators} \subseteq DataRecord
      BY Zenon, <1>1 DEF of_range, of_const_host, of_host, of_shared, of_iterators
<1>3. QED BY <1>2 DEF constructor, of_container

(* The invariant holds when the buffer is made, in any of the ways. *)
LEMMA BDInvInit == BDInit => BDInv
<1> SUFFICES ASSUME BDInit PROVE BDInv
    OBVIOUS
<1> USE BufferDataAssumption DEF BDInit, constructor, of_range, of_const_host, of_host, of_shared,
        of_iterators, of_container, Fields, NoFinal, NoView, Given, Garbage, Memories
<1>1. BDTypeOK
  <2>1. made \in InPlace \union Apart \union {"const_host"}
        BY DEF InPlace, Apart
  <2>2. data \in DataRecord
        BY ConstructorType
  <2>3. data.at \in {"user", "own"}
        BY <2>2 DEF DataRecord
  <2>4. stored \in [Memories -> 0 .. LastWrite]
        OBVIOUS
  <2>5. written \in 0 .. LastWrite
        BY <2>3, <2>4
  <2>6. view \in [Views -> [mode : {"none", "read", "write"}, at : {"user", "own"}]]
        OBVIOUS
  <2>7. buffers \in 0 .. MaxBuffers
        OBVIOUS
  <2>8. owns \subseteq {"user", "final"}
        BY Zenon
  <2>9. ended \in BOOLEAN
        BY Zenon
  <2> HIDE DEF BDInit
  <2>10. QED BY <2>1, <2>2, <2>4, <2>5, <2>6, <2>7, <2>8, <2>9 DEF BDTypeOK
<1>2. DataPlaced
      BY DEF DataPlaced, InPlace, Apart
<1>3. ViewsPlaced
      BY DEF ViewsPlaced
<1>4. StoredNewest
      BY DEF StoredNewest, InPlace
<1>5. InputKept /\ ResultReachesUser
      BY DEF InputKept, ResultReachesUser
<1>6. QED BY <1>1, <1>2, <1>3, <1>4, <1>5 DEF BDInv

(* A step that ends nothing keeps what holds at the end. *)
LEMMA NotEnded ==
  ASSUME BDInv, ~ended', made' = made, made \notin InPlace => stored'["user"] = Given
  PROVE  InputKept' /\ ResultReachesUser'
BY DEF BDInv, InputKept, ResultReachesUser, InPlace

(* get_access: the mode is tracked, constant data are copied, and the accessor points *)
(* to the data.                                                                       *)
LEMMA GetAccessStep ==
  ASSUME BDInv, NEW v \in Views, NEW mode \in {"read", "write"}, get_access(v, mode)
  PROVE  BDInv'
<1> DEFINE copies == mode = "write" /\ data.copy_if_modified
<1>1. /\ buffers > 0 /\ ~ended
      /\ made' = made /\ written' = written /\ buffers' = buffers /\ owns' = owns /\ ended' = ended
      /\ view' = [view EXCEPT ![v] = [mode |-> mode, at |-> data'.at]]
      BY BufferDataAssumption DEF get_access, BDInv, StoredNewest
<1>2. /\ data' \in DataRecord
      /\ data'.at = IF copies THEN "own" ELSE data.at
      /\ data'.allocation = (data.allocation \/ copies)
      /\ data'.copy_if_modified = (data.copy_if_modified /\ ~copies)
      BY Zenon DEF get_access, tracked, BDInv, BDTypeOK, DataRecord
<1>3. stored' = IF copies THEN [stored EXCEPT !["own"] = stored["user"]] ELSE stored
      BY DEF get_access, copied
<1>4. stored' \in [Memories -> 0 .. LastWrite]
      BY <1>3 DEF BDInv, BDTypeOK, Memories
<1>5. BDTypeOK'
      BY <1>1, <1>2, <1>4 DEF BDInv, BDTypeOK, DataRecord
<1>6. DataPlaced'
      BY <1>1, <1>2 DEF BDInv, BDTypeOK, DataPlaced, DataRecord, InPlace, Apart
<1>7. ViewsPlaced'
      BY <1>1, <1>2 DEF BDInv, BDTypeOK, DataPlaced, ViewsPlaced, DataRecord, InPlace, Apart
<1>8. StoredNewest'
      BY Zenon, <1>1, <1>2, <1>3 DEF BDInv, BDTypeOK, DataPlaced, StoredNewest, DataRecord, Memories
<1>9. QED BY <1>1, <1>5, <1>6, <1>7, <1>8, NotEnded DEF BDInv, StoredNewest

(* A write goes to the data, and the number of a write stays within its bound. *)
LEMMA WriteStep ==
  ASSUME BDInv, NEW v \in Views, WriteThrough(v)
  PROVE  BDInv'
<1>1. /\ view[v] # NoView /\ ~ended /\ view[v].at = data.at /\ ~data.copy_if_modified
      /\ data.at \in Memories /\ data.at # "final"
      BY DEF WriteThrough, NoView, BDInv, BDTypeOK, ViewsPlaced, DataRecord, Memories
<1>2. /\ made' = made /\ data' = data /\ view' = view /\ buffers' = buffers /\ owns' = owns
      /\ ended' = ended /\ stored' = [stored EXCEPT ![data.at] = written']
      BY <1>1 DEF WriteThrough
<1>3. written' \in 0 .. LastWrite
      BY BufferDataAssumption DEF WriteThrough, Given, BDInv, BDTypeOK
<1>4. BDTypeOK'
      BY <1>1, <1>2, <1>3 DEF BDInv, BDTypeOK
<1>5. DataPlaced' /\ ViewsPlaced'
      BY <1>2 DEF BDInv, DataPlaced, ViewsPlaced
<1>6. /\ stored'[data'.at] = written' /\ stored'["final"] = stored["final"]
      /\ made \notin InPlace => stored'["user"] = stored["user"]
      BY <1>1, <1>2 DEF BDInv, BDTypeOK, DataPlaced, InPlace, Apart, Memories
<1>7. StoredNewest'
      BY <1>1, <1>2, <1>6 DEF BDInv, StoredNewest
<1>8. QED BY Zenon, <1>1, <1>2, <1>4, <1>5, <1>6, <1>7, NotEnded DEF BDInv, StoredNewest

(* The end of an accessor or of a buffer object; after the last one the destructor *)
(* writes the data back.                                                           *)
LEMMA DropStep ==
  ASSUME BDInv, ~ended, DropReference, UNCHANGED <<made, data, written, owns>>,
         buffers' \in 0 .. MaxBuffers, ViewsPlaced',
         view' \in [Views -> [mode : {"none", "read", "write"}, at : {"user", "own"}]]
  PROVE  BDInv'
<1>1. CASE UNCHANGED <<ended, stored>> /\ ~(buffers' = 0 /\ \A v \in Views : view'[v] = NoView)
  <2>1. BDTypeOK' /\ DataPlaced'
        BY <1>1 DEF BDInv, BDTypeOK, DataPlaced
  <2>2. StoredNewest'
        BY <1>1 DEF BDInv, StoredNewest
  <2>3. QED BY <1>1, <2>1, <2>2, NotEnded DEF BDInv, StoredNewest
<1>2. CASE ended' = TRUE /\ stored' = write_back /\ buffers' = 0 /\ \A v \in Views : view'[v] = NoView
  <2> DEFINE f == data.final_write_back
             back == data.modified /\ (f.kind = "iterator" \/ (f.kind = "weak" /\ Allocated(f.to)))
  <2>1. stored' = IF back THEN [stored EXCEPT ![f.to] = written] ELSE stored
        BY <1>2 DEF write_back, write_back_source, BDInv, StoredNewest
  <2>2. f.to \in {"user", "final"} /\ f.kind \in {"none", "weak", "iterator"} /\ data.at \in {"user", "own"}
        BY DEF BDInv, BDTypeOK, DataRecord
  <2>3. stored' \in [Memories -> 0 .. LastWrite]
        BY <2>1, <2>2 DEF BDInv, BDTypeOK, Memories
  <2>4. BDTypeOK'
        BY <1>2, <2>3 DEF BDInv, BDTypeOK
  <2>5. DataPlaced'
        BY DEF BDInv, DataPlaced
  <2>6. StoredNewest'
        BY Zenon, <1>2, <2>1, <2>2 DEF BDInv, BDTypeOK, StoredNewest, Memories
  <2>7. InputKept'
        BY <1>2, <2>1, <2>2 DEF BDInv, BDTypeOK, StoredNewest, InputKept, InPlace, Memories
  <2>8. ResultReachesUser'
        BY <1>2, <2>1, <2>2 DEF BDInv, BDTypeOK, DataPlaced, StoredNewest, ResultReachesUser, InPlace,
           Memories, Allocated, KeepsInput
  <2>9. QED BY <2>4, <2>5, <2>6, <2>7, <2>8 DEF BDInv
<1>3. QED BY Zenon, <1>1, <1>2 DEF DropReference

(* Steps that change members of the buffer which say nothing about where its data  *)
(* lie, or which memory the user owns.                                             *)
LEMMA MemberStep ==
  ASSUME BDInv, ~ended, UNCHANGED <<made, stored, written, view, ended>>, buffers' \in 0 .. MaxBuffers,
         data' \in DataRecord, data'.at = data.at, data'.allocation = data.allocation,
         data'.copy_if_modified = data.copy_if_modified,
         owns' \subseteq owns, made \in {"host", "container", "const_host"} => "user" \in owns'
  PROVE  BDInv'
<1>1. BDTypeOK'
      BY DEF BDInv, BDTypeOK
<1>2. DataPlaced'
      BY DEF BDInv, DataPlaced
<1>3. ViewsPlaced'
      BY DEF BDInv, ViewsPlaced
<1>4. StoredNewest'
      BY DEF BDInv, StoredNewest
<1>5. QED BY <1>1, <1>2, <1>3, <1>4, NotEnded DEF BDInv, StoredNewest

(* Every step keeps the invariant. *)
LEMMA BDInvStep == BDInv /\ [BDNext]_bdvars => BDInv'
<1> SUFFICES ASSUME BDInv, [BDNext]_bdvars PROVE BDInv'
    OBVIOUS
<1>1. BDTypeOK /\ DataPlaced /\ ViewsPlaced /\ (buffers > 0 => ~ended)
      BY BufferDataAssumption DEF BDInv, StoredNewest
<1>2. ASSUME NEW v \in Views, DropView(v) PROVE BDInv'
  <2>1. /\ view' = [view EXCEPT ![v] = NoView] /\ ~ended /\ buffers' = buffers
        /\ DropReference /\ UNCHANGED <<made, data, written, owns>>
        BY <1>1, <1>2 DEF DropView, ViewsPlaced
  <2>2. view' \in [Views -> [mode : {"none", "read", "write"}, at : {"user", "own"}]]
        BY <1>1, <2>1 DEF BDTypeOK, NoView
  <2>3. CASE ended'
    <3>1. \A u \in Views : view'[u] = NoView
          BY Zenon, <2>1, <2>3 DEF DropReference
    <3>2. ViewsPlaced'
          BY <3>1 DEF ViewsPlaced, NoView
    <3>3. QED BY <1>1, <2>1, <2>2, <3>2, DropStep DEF BDTypeOK
  <2>4. CASE ~ended'
    <3>1. ViewsPlaced'
          BY <1>1, <2>1, <2>4 DEF BDTypeOK, ViewsPlaced, NoView
    <3>2. QED BY <1>1, <2>1, <2>2, <3>1, DropStep DEF BDTypeOK
  <2>5. QED BY <2>3, <2>4
<1>3. ASSUME DropBuffer PROVE BDInv'
  <2>1. /\ buffers' \in 0 .. MaxBuffers /\ ~ended /\ view' = view
        /\ DropReference /\ UNCHANGED <<made, data, written, owns>>
        BY <1>1, <1>3, BufferDataAssumption DEF DropBuffer, BDTypeOK
  <2>2. CASE ended'
    <3>1. \A u \in Views : view'[u] = NoView
          BY Zenon, <2>1, <2>2 DEF DropReference
    <3>2. ViewsPlaced'
          BY <3>1 DEF ViewsPlaced, NoView
    <3>3. QED BY <1>1, <2>1, <3>2, DropStep DEF BDTypeOK
  <2>3. CASE ~ended'
    <3>1. ViewsPlaced'
          BY <1>1, <2>1, <2>3 DEF ViewsPlaced
    <3>2. QED BY <1>1, <2>1, <3>1, DropStep DEF BDTypeOK
  <2>4. QED BY <2>2, <2>3
<1>4. ASSUME CopyBuffer PROVE BDInv'
  <2>1. buffers' \in 0 .. MaxBuffers /\ ~ended
        BY <1>1, <1>4, BufferDataAssumption DEF CopyBuffer
  <2>2. QED BY <1>1, <1>4, <2>1, MemberStep DEF CopyBuffer, BDTypeOK, DataPlaced
<1>5. ASSUME NEW f \in [kind : {"none", "weak", "iterator"}, to : {"user", "final"}], SetFinal(f)
      PROVE  BDInv'
  <2>1. data' \in DataRecord /\ data'.at = data.at /\ data'.allocation = data.allocation
        /\ data'.copy_if_modified = data.copy_if_modified
        BY <1>1, <1>5 DEF SetFinal, BDTypeOK, DataRecord
  <2>2. QED BY <1>1, <1>5, <2>1, MemberStep DEF SetFinal, BDTypeOK, DataPlaced
<1>6. ASSUME mark_as_written PROVE BDInv'
  <2>1. data' \in DataRecord /\ data'.at = data.at /\ data'.allocation = data.allocation
        /\ data'.copy_if_modified = data.copy_if_modified
        BY Zenon, <1>1, <1>6 DEF mark_as_written, BDTypeOK, DataRecord
  <2>2. QED BY <1>1, <1>6, <2>1, MemberStep DEF mark_as_written, BDTypeOK, DataPlaced
<1>7. ASSUME NEW m \in {"user", "final"}, Free(m) PROVE BDInv'
      BY <1>1, <1>7, MemberStep DEF Free, BDTypeOK, DataPlaced
<1>8. ASSUME NEW m \in {"user", "final"}, set_final_data_weak(m) \/ set_final_data_iterator(m)
      PROVE  BDInv'
      BY <1>5, <1>8 DEF set_final_data_weak, set_final_data_iterator
<1>9. ASSUME set_final_data_nullptr PROVE BDInv'
      BY <1>5, <1>9 DEF set_final_data_nullptr, NoFinal
<1>10. ASSUME UNCHANGED bdvars PROVE BDInv'
  <2>1. BDTypeOK' /\ DataPlaced'
        BY <1>1, <1>10 DEF bdvars, BDTypeOK, DataPlaced
  <2>2. ViewsPlaced' /\ StoredNewest'
        BY <1>10 DEF bdvars, BDInv, ViewsPlaced, StoredNewest
  <2>3. InputKept' /\ ResultReachesUser'
        BY <1>10 DEF bdvars, BDInv, InputKept, ResultReachesUser
  <2>4. QED BY <2>1, <2>2, <2>3 DEF BDInv
<1>11. QED BY <1>2, <1>3, <1>4, <1>6, <1>7, <1>8, <1>9, <1>10, GetAccessStep, WriteStep DEF BDNext, Ended

(* The memory behind a buffer: for any number of accessors and of buffer objects,  *)
(* accessors point to live memory and show what was written last, constant data    *)
(* are kept and the result reaches the user.                                       *)
THEOREM BufferKeepsContents == BDSpec => []BufferContents
BY BDInvInit, BDInvStep, BDInvImplies, PTL DEF BDSpec

-----------------------------------------------------------------------------
(***************************************************************************)
(* Proof, for any number of tasks, that the failure of a kernel is neither *)
(* taken for a success nor survives uncaught.  running_kernels counts the  *)
(* tasks that have been submitted and have not ended, those that failed    *)
(* included: this is why the wait for the queue does not return.           *)
(***************************************************************************)

(* S has n elements: they can be numbered from 1 to n. *)
Counts(S, n) ==
  \E f \in [1 .. n -> S] : /\ \A s \in S : \E i \in 1 .. n : f[i] = s
                           /\ \A i, j \in 1 .. n : f[i] = f[j] => i = j

(* A set has no element exactly when it is empty. *)
LEMMA CountsNone == Counts({}, 0) /\ \A S : Counts(S, 0) => S = {}
<1>1. Counts({}, 0)
  <2> DEFINE f == [i \in 1 .. 0 |-> 0]
  <2>1. 1 .. 0 = {}
        OBVIOUS
  <2>2. f \in [1 .. 0 -> {}]
        BY <2>1
  <2> HIDE DEF f
  <2>3. QED BY <2>1, <2>2 DEF Counts
<1>2. ASSUME NEW S, Counts(S, 0) PROVE S = {}
  <2>1. \A s \in S : \E i \in 1 .. 0 : TRUE
        BY <1>2 DEF Counts
  <2>2. QED BY <2>1
<1>3. QED BY <1>1, <1>2

(* A new element counts for one. *)
LEMMA CountsOneMore ==
  ASSUME NEW S, NEW n \in Nat, Counts(S, n), NEW x, x \notin S
  PROVE  Counts(S \union {x}, n + 1)
<1>1. PICK f \in [1 .. n -> S] : /\ \A s \in S : \E i \in 1 .. n : f[i] = s
                                 /\ \A i, j \in 1 .. n : f[i] = f[j] => i = j
      BY DEF Counts
<1> DEFINE g == [i \in 1 .. n + 1 |-> IF i = n + 1 THEN x ELSE f[i]]
<1>2. /\ \A i \in 1 .. n : i \in 1 .. n + 1 /\ i # n + 1
      /\ \A i \in 1 .. n + 1 : i = n + 1 \/ i \in 1 .. n
      /\ n + 1 \in 1 .. n + 1
      OBVIOUS
<1>3. g[n + 1] = x /\ \A i \in 1 .. n : g[i] = f[i] /\ g[i] \in S
      BY <1>2
<1>4. g \in [1 .. n + 1 -> S \union {x}]
      BY <1>2
<1> HIDE DEF g
<1>5. \A s \in S \union {x} : \E i \in 1 .. n + 1 : g[i] = s
      BY <1>1, <1>2, <1>3
<1>6. ASSUME NEW i \in 1 .. n + 1, NEW j \in 1 .. n + 1, g[i] = g[j] PROVE i = j
      BY <1>1, <1>2, <1>3, <1>6
<1>7. QED BY Zenon, <1>4, <1>5, <1>6 DEF Counts

(* An element less counts for one. *)
LEMMA CountsOneLess ==
  ASSUME NEW S, NEW n \in Nat, Counts(S, n), NEW x \in S
  PROVE  n >= 1 /\ n - 1 \in Nat /\ Counts(S \ {x}, n - 1)
<1>1. PICK f \in [1 .. n -> S] : /\ \A s \in S : \E i \in 1 .. n : f[i] = s
                                 /\ \A i, j \in 1 .. n : f[i] = f[j] => i = j
      BY DEF Counts
<1>2. PICK k \in 1 .. n : f[k] = x
      BY <1>1
<1> DEFINE g == [i \in 1 .. n - 1 |-> IF i = k THEN f[n] ELSE f[i]]
<1>3. /\ n >= 1 /\ n - 1 \in Nat /\ n \in 1 .. n /\ n \notin 1 .. n - 1
      /\ \A i \in 1 .. n - 1 : i \in 1 .. n /\ i # n
      /\ \A i \in 1 .. n : i # n => i \in 1 .. n - 1
      BY <1>2
<1>4. \A i \in 1 .. n - 1 : g[i] = IF i = k THEN f[n] ELSE f[i]
      OBVIOUS
<1>5. g \in [1 .. n - 1 -> S \ {x}]
  <2>1. ASSUME NEW i \in 1 .. n - 1
        PROVE  (IF i = k THEN f[n] ELSE f[i]) \in S \ {x}
        BY <1>1, <1>2, <1>3
  <2>2. QED BY <2>1
<1> HIDE DEF g
<1>6. ASSUME NEW s \in S \ {x} PROVE \E i \in 1 .. n - 1 : g[i] = s
  <2>1. PICK i \in 1 .. n : f[i] = s
        BY <1>1
  <2>2. i # k
        BY <1>2, <2>1
  <2>3. CASE i = n
    <3>1. k \in 1 .. n - 1 /\ g[k] = s
          BY <1>3, <1>4, <2>1, <2>2, <2>3
    <3>2. QED BY <3>1
  <2>4. CASE i # n
    <3>1. i \in 1 .. n - 1 /\ g[i] = s
          BY <1>3, <1>4, <2>1, <2>2, <2>4
    <3>2. QED BY <3>1
  <2>5. QED BY <2>3, <2>4
<1>7. ASSUME NEW i \in 1 .. n - 1, NEW j \in 1 .. n - 1, g[i] = g[j] PROVE i = j
      BY <1>1, <1>3, <1>4, <1>7
<1>8. QED BY <1>3, <1>5, <1>6, <1>7 DEF Counts

(* The tasks that queue::running_kernels counts *)
Counted == {t \in ThrowingTasks : etask[t] \in {"waiting", "running", "failed"}}

ErrorTypes ==
  /\ emode \in {"threads", "no_async"} /\ edeps \in SUBSET (2 .. ETasks) /\ eclause \in Clauses
  /\ etask \in [ThrowingTasks -> {"new", "waiting", "running", "failed", "ended"}]
  /\ enext \in Nat \ {0} /\ ekernels \in Int
  /\ epc \in {"submit", "executing", "unwinding", "wait", "returned", "dead"}

(* running_kernels, the tasks not submitted yet and those that have started *)
ErrorCounts == /\ ekernels \in Nat /\ Counts(Counted, ekernels)
               /\ epc = "returned" => ekernels = 0
               /\ \A t \in ThrowingTasks : t >= enext => etask[t] = "new"

(* The producer of a task that has started has ended, or is destroyed after the
   program caught its exception *)
ErrorOrder ==
  /\ \A t \in edeps : etask[t] \in {"running", "failed", "ended"} =>
       etask[t - 1] = "ended" \/ (Destroyed(t - 1) /\ ecaught)
  /\ \A t \in ThrowingTasks : etask[t] = "failed" /\ epc \notin {"unwinding", "dead"} => ecaught
  /\ emode = "no_async" => \A t \in ThrowingTasks :
       etask[t] \in {"waiting", "running"} => epc = "executing" /\ t = enext - 1

(* Where an exception is, in a thread and without threads *)
ErrorFlies == /\ \A t \in ThrowingTasks : etask[t] = "failed" /\ emode = "threads" => epc = "dead"
              /\ epc = "unwinding" => eflying \in Thrown /\ emode = "no_async"
              /\ epc \in {"unwinding", "dead"} => \E t \in ThrowingTasks : etask[t] = "failed"
              /\ epc = "dead" /\ emode = "no_async" =>
                   eflying \in Thrown /\ ~Catches(eclause, eflying)

ErrorInv == ErrorTypes /\ ErrorCounts /\ ErrorOrder /\ ErrorFlies

-----------------------------------------------------------------------------
(* exception.hpp: a clause for exception takes the two classes of SYCL, and one for  *)
(* runtime_error those that derive from it.                                          *)
LEMMA ClausesCatch ==
  ASSUME NEW clause \in Clauses, NEW c \in Thrown, ~Catches(clause, c)
  PROVE  c = "domain_error" \/ (c = "feature_not_supported" /\ clause = "runtime_error")
<1>1. /\ BasesOf("non_cl_error") = {"non_cl_error", "runtime_error"}
      /\ BasesOf("runtime_error") = {"runtime_error", "exception"}
      /\ BasesOf("feature_not_supported") = {"feature_not_supported", "device_error"}
      /\ BasesOf("device_error") = {"device_error", "exception"}
      BY Zenon DEF BasesOf, Bases
<1>2. \A d \in Clauses : Catches(d, "non_cl_error")
      BY <1>1 DEF Catches, Clauses
<1>3. Catches("exception", "feature_not_supported")
      BY <1>1 DEF Catches
<1>4. CASE c = "non_cl_error"
      BY <1>2, <1>4
<1>5. CASE c = "feature_not_supported"
      BY <1>3, <1>5 DEF Clauses
<1> QED BY <1>4, <1>5 DEF Thrown

(* running_kernels follows the counted tasks. *)
LEMMA CountFollows ==
  ASSUME ErrorInv
  PROVE  /\ ekernels \in Nat
         /\ \A t \in ThrowingTasks \ Counted : Counts(Counted \union {t}, ekernels + 1)
         /\ \A t \in Counted : Counts(Counted \ {t}, ekernels - 1) /\ ekernels > 0
<1>1. ekernels \in Nat /\ Counts(Counted, ekernels)
      BY DEF ErrorInv, ErrorCounts
<1>2. ASSUME NEW t \in ThrowingTasks \ Counted PROVE Counts(Counted \union {t}, ekernels + 1)
      BY <1>1, CountsOneMore
<1>3. ASSUME NEW t \in Counted PROVE Counts(Counted \ {t}, ekernels - 1) /\ ekernels > 0
      BY <1>1, CountsOneLess
<1> QED BY <1>1, <1>2, <1>3

(* The states of a task that leave it counted, or not: task::schedule. *)
LEMMA CountedAfter ==
  ASSUME ErrorTypes, NEW t \in ThrowingTasks, NEW s, etask' = [etask EXCEPT ![t] = s]
  PROVE  Counted' = IF s \in {"waiting", "running", "failed"} THEN Counted \union {t} ELSE Counted \ {t}
<1>1. ThrowingTasks' = ThrowingTasks
      BY DEF ThrowingTasks
<1>2. \A u \in ThrowingTasks : etask'[u] = IF u = t THEN s ELSE etask[u]
      BY DEF ErrorTypes
<1> QED BY <1>1, <1>2 DEF Counted

(* A step that changes the state of one task keeps the order of the tasks, if it does *)
(* so for that task and for the one that reads its results.                           *)
LEMMA ErrorOrderStep ==
  ASSUME ErrorInv, NEW t \in ThrowingTasks, NEW s, etask' = [etask EXCEPT ![t] = s],
         UNCHANGED <<emode, equeue, edeps>>, ecaught => ecaught',
         s \in {"running", "failed", "ended"} /\ t \in edeps =>
           etask[t - 1] = "ended" \/ (Destroyed(t - 1) /\ ecaught),
         etask[t] \notin {"ended", "failed"}
  PROVE  \A u \in edeps : etask'[u] \in {"running", "failed", "ended"} =>
           etask'[u - 1] = "ended" \/ (Destroyed(u - 1) /\ ecaught)'
<1> SUFFICES ASSUME NEW u \in edeps, etask'[u] \in {"running", "failed", "ended"}
             PROVE  etask'[u - 1] = "ended" \/ (Destroyed(u - 1) /\ ecaught)'
    OBVIOUS
<1>1. u \in ThrowingTasks /\ u - 1 \in ThrowingTasks /\ u - 1 # u
      BY ErrorsAssumption DEF ErrorInv, ErrorTypes, ThrowingTasks
<1>2. etask[u - 1] = "ended" \/ (Destroyed(u - 1) /\ ecaught)
  <2>1. CASE u = t
        BY <1>1, <2>1 DEF ErrorInv, ErrorTypes
  <2>2. CASE u # t
        BY <1>1, <2>2 DEF ErrorInv, ErrorTypes, ErrorOrder
  <2> QED BY <2>1, <2>2
<1>3. u - 1 # t
      BY <1>2 DEF Destroyed
<1>4. etask'[u - 1] = etask[u - 1]
      BY <1>1, <1>3 DEF ErrorInv, ErrorTypes
<1> QED BY <1>2, <1>4 DEF Destroyed

(* Every step of the program and of its tasks keeps the invariant.                   *)
LEMMA ErrorInvStep == ErrorInv /\ [ENext]_evars => ErrorInv'
<1> SUFFICES ASSUME ErrorInv, [ENext]_evars PROVE ErrorInv'
    OBVIOUS
<1> USE ErrorsAssumption
<1>c. /\ ekernels \in Nat
      /\ \A t \in ThrowingTasks \ Counted : Counts(Counted \union {t}, ekernels + 1)
      /\ \A t \in Counted : Counts(Counted \ {t}, ekernels - 1) /\ ekernels > 0
      BY CountFollows
<1>1. CASE ESubmit
  <2>1. enext \in ThrowingTasks /\ etask[enext] = "new"
        BY <1>1 DEF ErrorInv, ErrorTypes, ErrorCounts, ESubmit, ThrowingTasks
  <2>2. enext \notin Counted /\ Counted' = Counted \union {enext}
        BY Zenon, <1>1, <2>1, CountedAfter DEF ErrorInv, ESubmit, Counted
  <2>3. ErrorTypes'
        BY <1>1, <2>1 DEF ErrorInv, ErrorTypes, ESubmit, ThrowingTasks
  <2>4. ErrorCounts'
    <3>1. ekernels' \in Nat /\ Counts(Counted', ekernels')
          BY <1>1, <1>c, <2>1, <2>2 DEF ESubmit
    <3>2. epc' # "returned"
          BY <1>1 DEF ESubmit
    <3>3. \A t \in ThrowingTasks : t >= enext + 1 => etask'[t] = "new"
          BY <1>1, <2>1 DEF ErrorInv, ErrorTypes, ErrorCounts, ESubmit, ThrowingTasks
    <3> QED BY <1>1, <3>1, <3>2, <3>3 DEF ErrorCounts, ESubmit, ThrowingTasks
  <2>6. ErrorOrder'
    <3>1. \A u \in edeps : etask'[u] \in {"running", "failed", "ended"} =>
            etask'[u - 1] = "ended" \/ (Destroyed(u - 1) /\ ecaught)'
          BY <1>1, <2>1, ErrorOrderStep DEF ESubmit
    <3>2. \A t \in ThrowingTasks : etask'[t] = IF t = enext THEN "waiting" ELSE etask[t]
          BY <1>1 DEF ErrorInv, ErrorTypes, ESubmit
    <3>3. \A t \in ThrowingTasks : etask'[t] = "failed" => ecaught'
          BY <1>1, <3>2 DEF ErrorInv, ErrorOrder, ESubmit
    <3>4. ASSUME emode = "no_async", NEW t \in ThrowingTasks, etask'[t] \in {"waiting", "running"}
          PROVE  epc' = "executing" /\ t = enext' - 1
      <4>1. t = enext
            BY <1>1, <3>2, <3>4 DEF ErrorInv, ErrorOrder, ESubmit
      <4> QED BY <1>1, <3>4, <4>1 DEF ErrorInv, ErrorTypes, ESubmit
    <3> QED BY <1>1, <3>1, <3>3, <3>4 DEF ErrorOrder, ESubmit, ThrowingTasks
  <2>5. ErrorFlies'
        BY <1>1, <2>1 DEF ErrorInv, ErrorTypes, ErrorFlies, ESubmit, ThrowingTasks
  <2> QED BY <2>3, <2>4, <2>5, <2>6 DEF ErrorInv
<1>2. ASSUME NEW t \in ThrowingTasks, EStart(t) PROVE ErrorInv'
  <2>1. t \in Counted /\ Counted' = Counted
        BY <1>2, CountedAfter DEF ErrorInv, EStart, Counted
  <2>2. ErrorTypes'
        BY <1>2 DEF ErrorInv, ErrorTypes, EStart, ThrowingTasks
  <2>3. ErrorOrder'
    <3>1. t \in edeps => etask[t - 1] = "ended" \/ (Destroyed(t - 1) /\ ecaught)
          BY <1>2 DEF ErrorInv, ErrorTypes, ErrorOrder, EStart, ProducersEnded, Destroyed, ThrowingTasks
    <3>2. \A u \in edeps : etask'[u] \in {"running", "failed", "ended"} =>
            etask'[u - 1] = "ended" \/ (Destroyed(u - 1) /\ ecaught)'
          BY <1>2, <3>1, ErrorOrderStep DEF EStart
    <3> QED BY <1>2, <3>2 DEF ErrorInv, ErrorTypes, ErrorOrder, EStart, ThrowingTasks
  <2>4. ErrorCounts'
        BY <1>2, <2>1 DEF ErrorInv, ErrorTypes, ErrorCounts, EStart, ThrowingTasks
  <2>5. ErrorFlies'
        BY <1>2 DEF ErrorInv, ErrorTypes, ErrorFlies, EStart, ThrowingTasks
  <2> QED BY <2>2, <2>3, <2>4, <2>5 DEF ErrorInv
<1>3. ASSUME NEW t \in ThrowingTasks, EEnd(t) PROVE ErrorInv'
  <2>1. t \in Counted /\ Counted' = Counted \ {t}
        BY Zenon, <1>3, CountedAfter DEF ErrorInv, EEnd, Counted
  <2>2. ErrorTypes'
        BY <1>3 DEF ErrorInv, ErrorTypes, EEnd, ThrowingTasks
  <2>3. ErrorOrder'
    <3>1. t \in edeps => etask[t - 1] = "ended" \/ (Destroyed(t - 1) /\ ecaught)
          BY <1>3 DEF ErrorInv, ErrorOrder, EEnd
    <3>2. \A u \in edeps : etask'[u] \in {"running", "failed", "ended"} =>
            etask'[u - 1] = "ended" \/ (Destroyed(u - 1) /\ ecaught)'
          BY <1>3, <3>1, ErrorOrderStep DEF EEnd
    <3> QED BY <1>3, <3>2 DEF ErrorInv, ErrorTypes, ErrorOrder, ErrorFlies, EEnd, ThrowingTasks
  <2>4. \A u \in ThrowingTasks : u >= enext => etask'[u] = "new"
        BY <1>3 DEF ErrorInv, ErrorTypes, ErrorCounts, EEnd, ThrowingTasks
  <2>5. ekernels' \in Nat /\ Counts(Counted', ekernels') /\ epc' # "returned"
        BY <1>3, <1>c, <2>1 DEF ErrorInv, ErrorTypes, ErrorCounts, EEnd
  <2>6. ErrorCounts'
        BY <1>3, <2>4, <2>5 DEF ErrorCounts, EEnd, ThrowingTasks
  <2>7. ErrorFlies'
        BY <1>3 DEF ErrorInv, ErrorTypes, ErrorFlies, EEnd, ThrowingTasks
  <2> QED BY <2>2, <2>3, <2>6, <2>7 DEF ErrorInv
<1>4. ASSUME NEW t \in ThrowingTasks, NEW c \in Thrown, EThrow(t, c) PROVE ErrorInv'
  <2>1. t \in Counted /\ Counted' = Counted
        BY <1>4, CountedAfter DEF ErrorInv, EThrow, Counted
  <2>2. ErrorTypes'
        BY <1>4 DEF ErrorInv, ErrorTypes, EThrow, ThrowingTasks
  <2>3. ErrorOrder'
    <3>1. t \in edeps => etask[t - 1] = "ended" \/ (Destroyed(t - 1) /\ ecaught)
          BY <1>4 DEF ErrorInv, ErrorOrder, EThrow
    <3>2. \A u \in edeps : etask'[u] \in {"running", "failed", "ended"} =>
            etask'[u - 1] = "ended" \/ (Destroyed(u - 1) /\ ecaught)'
          BY <1>4, <3>1, ErrorOrderStep DEF EThrow
    <3>3. epc' \in {"unwinding", "dead"}
          BY <1>4 DEF EThrow
    <3>4. ASSUME emode = "no_async", NEW u \in ThrowingTasks PROVE etask'[u] \notin {"waiting", "running"}
          BY <1>4, <3>4 DEF ErrorInv, ErrorTypes, ErrorOrder, EThrow
    <3> QED BY <1>4, <3>2, <3>3, <3>4 DEF ErrorOrder, EThrow, ThrowingTasks
  <2>4. ErrorCounts'
        BY <1>4, <2>1 DEF ErrorInv, ErrorTypes, ErrorCounts, EThrow, ThrowingTasks
  <2>5. etask'[t] = "failed"
        BY <1>4 DEF ErrorInv, ErrorTypes, EThrow
  <2>6. ErrorFlies'
        BY <1>4, <2>5 DEF ErrorInv, ErrorTypes, ErrorFlies, EThrow, ThrowingTasks
  <2> QED BY <2>2, <2>3, <2>4, <2>6 DEF ErrorInv
<1>5. CASE EUnwind
  <2>1. ErrorTypes' /\ ErrorCounts'
        BY <1>5 DEF ErrorInv, ErrorTypes, ErrorCounts, EUnwind, ThrowingTasks, Counted
  <2>2. ErrorFlies'
        BY <1>5 DEF ErrorInv, ErrorTypes, ErrorFlies, EUnwind, ThrowingTasks
  <2>3. ErrorOrder'
        BY <1>5 DEF ErrorInv, ErrorTypes, ErrorOrder, EUnwind, ThrowingTasks, Destroyed
  <2> QED BY <2>1, <2>2, <2>3 DEF ErrorInv
<1>6. CASE EWait \/ EReturn
  <2>1. ErrorTypes' /\ ErrorCounts' /\ ErrorFlies'
        BY Zenon, <1>6 DEF ErrorInv, ErrorTypes, ErrorCounts, ErrorFlies, EWait, EReturn, ThrowingTasks, Counted
  <2>2. ErrorOrder'
    <3>1. UNCHANGED <<emode, equeue, edeps, enext, etask, ecaught>> /\ epc \in {"submit", "wait"}
          BY <1>6 DEF EWait, EReturn
    <3>2. epc' \in {"wait", "returned"}
          BY <1>6 DEF EWait, EReturn
    <3>3. emode = "no_async" => \A t \in ThrowingTasks : etask[t] \notin {"waiting", "running"}
          BY <3>1 DEF ErrorInv, ErrorOrder
    <3> QED BY <3>1, <3>2, <3>3 DEF ErrorInv, ErrorOrder, ThrowingTasks, Destroyed
  <2> QED BY <2>1, <2>2 DEF ErrorInv
<1>7. CASE UNCHANGED evars
      BY <1>7 DEF ErrorInv, ErrorTypes, ErrorCounts, ErrorOrder, ErrorFlies, evars, ThrowingTasks, Counted, Destroyed
<1> QED BY <1>1, <1>2, <1>3, <1>4, <1>5, <1>6, <1>7 DEF ENext, EDone

(* What the invariant says of a failed task: it is counted, and not ended.           *)
LEMMA ErrorInvImplies == ErrorInv => FailuresShown
<1> SUFFICES ASSUME ErrorInv PROVE FailuresShown
    OBVIOUS
<1>1. FailureNotHidden
  <2> SUFFICES ASSUME NEW t \in ThrowingTasks, etask[t] = "failed"
               PROVE  /\ epc # "returned"
                      /\ t + 1 \in edeps /\ etask[t + 1] \notin {"new", "waiting"} =>
                           emode = "no_async" /\ equeue = "host" /\ ecaught
      BY DEF FailureNotHidden
  <2>1. ekernels > 0
        BY Zenon, CountFollows DEF Counted
  <2>2. ASSUME t + 1 \in edeps, etask[t + 1] \notin {"new", "waiting"}
        PROVE  emode = "no_async" /\ equeue = "host" /\ ecaught
    <3>1. t + 1 \in ThrowingTasks /\ (t + 1) - 1 = t
          BY <2>2, ErrorsAssumption DEF ErrorInv, ErrorTypes, ThrowingTasks
    <3>2. etask[t + 1] \in {"running", "failed", "ended"}
          BY <2>2, <3>1 DEF ErrorInv, ErrorTypes
    <3> QED BY <2>2, <3>1, <3>2 DEF ErrorInv, ErrorOrder, Destroyed
  <2> QED BY <2>1, <2>2 DEF ErrorInv, ErrorCounts
<1>2. ASSUME epc = "dead", emode = "no_async"
      PROVE  eflying \in {"domain_error"} \union IF eclause = "exception" THEN {} ELSE {"feature_not_supported"}
      BY <1>2, ClausesCatch DEF ErrorInv, ErrorTypes, ErrorFlies
<1>3. DiesOfUncaught
      BY <1>2 DEF DiesOfUncaught, ErrorInv, ErrorFlies
<1> QED BY <1>1, <1>3 DEF FailuresShown

(* Whatever the number of tasks, their dependencies, the mode of the runtime and     *)
(* what the program catches: once a kernel has thrown, the wait for the queue does   *)
(* not return, a task that reads its results starts only on a host queue without     *)
(* threads, after the program has caught the exception, and the process ends exactly *)
(* for the exceptions that the program cannot catch (task::schedule,                 *)
(* queue::wait_for_kernel_execution, exception.hpp).                                 *)
THEOREM FailuresNeverHidden == ESpec => []FailuresShown
<1>1. EInit => ErrorInv
  <2> SUFFICES ASSUME EInit PROVE ErrorInv
      OBVIOUS
  <2>1. Counted = {} /\ ekernels = 0 /\ Counts(Counted, ekernels)
        BY CountsNone DEF EInit, Counted
  <2> QED BY <2>1, ErrorsAssumption
          DEF EInit, ErrorInv, ErrorTypes, ErrorCounts, ErrorOrder, ErrorFlies, ThrowingTasks
<1>2. ErrorInv /\ [ENext]_evars => ErrorInv'
      BY ErrorInvStep
<1>3. ErrorInv => FailuresShown
      BY ErrorInvImplies
<1> QED BY <1>1, <1>2, <1>3, PTL DEF ESpec

=============================================================================
