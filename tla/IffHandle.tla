------------------------------ MODULE IffHandle ------------------------------
(* The buffered file of the searcher (searcher/iffhandle.c): small writes are  *)
(* gathered in a buffer and AmigaDOS Write() sees whole buffers.  Bytes are    *)
(* counted, their values left out.  An operator s_f(..., ret) is the step the  *)
(* function makes when it returns ret.                                         *)
EXTENDS Integers

CONSTANTS
  BufferSize,   \* buffer_size: 12 rows of the widest picture
  ShortCounts   \* what a Write() may take instead of all it was given

ASSUME BufferAssumption == BufferSize \in Nat \ {0} /\ ShortCounts \subseteq Nat

VARIABLES
  allocated,    \* the structure of initIFFHandle() is in memory
  handle,       \* an AmigaDOS file is open
  buffer_pos,   \* bytes waiting in the buffer
  last_ioerr,   \* the handle's own error
  dos_err,      \* what IoErr() would say
  file,         \* bytes in the file opened last
  taken,        \* bytes that calls with a result >= 0 were given for that file
  lossy         \* a Write() to it took less than it was given, without an error

iffVars == <<allocated, handle, buffer_pos, last_ioerr, dos_err, file, taken, lossy>>

Errors == {"none", "disk", "in_use", "not_found"}

IffTypeOK ==
  /\ allocated \in BOOLEAN /\ handle \in BOOLEAN /\ lossy \in BOOLEAN
  /\ buffer_pos \in Nat /\ file \in Nat /\ taken \in Nat
  /\ last_ioerr \in Errors /\ dos_err \in {"none", "disk"}

IffInit ==
  /\ allocated = FALSE /\ handle = FALSE /\ lossy = FALSE
  /\ buffer_pos = 0 /\ file = 0 /\ taken = 0
  /\ last_ioerr = "none" /\ dos_err = "none"

-----------------------------------------------------------------------------
(* AmigaDOS.  A call that succeeds may or may not clear the error of an        *)
(* earlier one.                                                                *)

Outcomes(n) == {-1, n} \cup {k \in ShortCounts : k < n}

Write(n, r) ==
  /\ r \in Outcomes(n)
  /\ file' = IF r > 0 THEN file + r ELSE file
  /\ dos_err' \in IF r < 0 THEN {"disk"} ELSE {dos_err, "none"}
  /\ lossy' = (lossy \/ r \in 0 .. n - 1)

-----------------------------------------------------------------------------
initIFFHandle ==
  /\ ~allocated
  /\ allocated' = TRUE
  /\ handle' = FALSE /\ buffer_pos' = 0 /\ last_ioerr' = "none"
  /\ file' = 0 /\ taken' = 0 /\ lossy' = FALSE
  /\ UNCHANGED dos_err

s_open(ret) ==
  \/ /\ handle
     /\ ~ret /\ last_ioerr' = "in_use"
     /\ UNCHANGED <<allocated, handle, buffer_pos, dos_err, file, taken, lossy>>
  \/ /\ ~handle
     /\ handle' = ret
     /\ buffer_pos' = 0 /\ last_ioerr' = "none"
     /\ dos_err' \in IF ret THEN {dos_err, "none"} ELSE {"disk"}
     /\ file' = 0 /\ taken' = 0 /\ lossy' = FALSE
     /\ UNCHANGED allocated

(* Every function but open() and ioerr() refuses a handle without a file. *)
NotOpen(ret) ==
  /\ ~handle
  /\ ret = -1 /\ last_ioerr' = "not_found"
  /\ UNCHANGED <<allocated, handle, buffer_pos, dos_err, file, taken, lossy>>

(* Mutant: a buffer that is exactly full is left as it is. *)
GatherFull(length, ret) ==
  /\ handle /\ buffer_pos + length <= BufferSize
  /\ ret = length
  /\ buffer_pos' = buffer_pos + length
  /\ taken' = taken + length
  /\ UNCHANGED <<allocated, handle, last_ioerr, dos_err, file, lossy>>

(* Bytes that fit are copied. *)
Gather(length, ret) ==
  /\ handle /\ buffer_pos + length < BufferSize
  /\ ret = length
  /\ buffer_pos' = buffer_pos + length
  /\ taken' = taken + length
  /\ UNCHANGED <<allocated, handle, last_ioerr, dos_err, file, lossy>>

(* Mutant: what is left over is forgotten. *)
SpillDropped(length, ret) ==
  /\ handle /\ buffer_pos + length >= BufferSize
  /\ \E r \in Outcomes(BufferSize) :
       /\ Write(BufferSize, r)
       /\ ret = IF r > 0 THEN length ELSE r
       /\ buffer_pos' = IF r > 0 THEN 0 ELSE buffer_pos
       /\ taken' = IF r >= 0 THEN taken + length ELSE taken
  /\ UNCHANGED <<allocated, handle, last_ioerr>>

(* Otherwise the buffer is filled and written, and what was left over begins   *)
(* the next one.  A Write() of nothing is no error to the callers.             *)
Spill(length, ret) ==
  /\ handle /\ buffer_pos + length >= BufferSize
  /\ \E r \in Outcomes(BufferSize) :
       /\ Write(BufferSize, r)
       /\ ret = IF r > 0 THEN length ELSE r
       /\ buffer_pos' = IF r > 0 THEN buffer_pos + length - BufferSize ELSE buffer_pos
       /\ taken' = IF r >= 0 THEN taken + length ELSE taken
  /\ UNCHANGED <<allocated, handle, last_ioerr>>

s_write(length, ret) == NotOpen(ret) \/ Gather(length, ret) \/ Spill(length, ret)

(* Mutant: what is flushed stays in the buffer. *)
s_flushKept(ret) ==
  \E r \in Outcomes(buffer_pos) :
    /\ Write(buffer_pos, r)
    /\ ret = IF r < 0 THEN -1 ELSE 0
    /\ buffer_pos' = buffer_pos

(* The flush that close() begins with; the caller has a file open. *)
s_flush(ret) ==
  \/ /\ buffer_pos = 0 /\ ret = 0
     /\ dos_err' \in {dos_err, "none"}
     /\ UNCHANGED <<buffer_pos, file, lossy>>
  \/ /\ buffer_pos > 0
     /\ \E r \in Outcomes(buffer_pos) :
          /\ Write(buffer_pos, r)
          /\ ret = IF r < 0 THEN -1 ELSE 0
          /\ buffer_pos' = IF r < 0 THEN buffer_pos ELSE 0

(* A file whose flush fails stays open. *)
s_close(ret) ==
  \/ NotOpen(ret)
  \/ /\ handle
     /\ s_flush(ret)
     /\ handle' = (ret < 0)
     /\ UNCHANGED <<allocated, last_ioerr, taken>>

(* Mutant: IoErr() is not asked. *)
IoerrOwn == last_ioerr

(* The error the caller is told: the handle's own, else IoErr(). *)
Ioerr == IF last_ioerr = "none" THEN dos_err ELSE last_ioerr

s_ioerr ==
  /\ last_ioerr' = Ioerr
  /\ UNCHANGED <<allocated, handle, buffer_pos, dos_err, file, taken, lossy>>

(* Mutant: an open file is not closed. *)
freeIFFHandleOpen(ret) ==
  /\ allocated' = FALSE /\ ret = 0
  /\ UNCHANGED <<handle, buffer_pos, last_ioerr, dos_err, file, taken, lossy>>

(* Memory is freed whether or not the file could be closed. *)
freeIFFHandle(ret) ==
  /\ allocated' = FALSE
  /\ \/ /\ ~handle /\ ret = 0
        /\ UNCHANGED <<handle, buffer_pos, last_ioerr, dos_err, file, taken, lossy>>
     \/ /\ handle
        /\ s_flush(ret)
        /\ handle' = (ret < 0)
        /\ UNCHANGED <<last_ioerr, taken>>

-----------------------------------------------------------------------------
(* What a handle promises. *)

(* Every byte a caller was told is written is in the file or still in the      *)
(* buffer, and nothing else is: through full buffers, failed writes that are   *)
(* retried by close(), and reuse for a second file.  Only a Write() that takes *)
(* less than it was given, which s_write() and s_flush() do not notice, breaks *)
(* it.                                                                         *)
NothingLost == ~lossy => file + buffer_pos = taken

(* The gathered bytes never fill the buffer, so that the memcpy() calls of     *)
(* s_write() stay inside it: the next call has room, what spills over fits.    *)
BufferFits == buffer_pos < BufferSize
=============================================================================
