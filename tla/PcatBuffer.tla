----------------------------- MODULE PcatBuffer -----------------------------
(***************************************************************************)
(* The shared ring buffer of pcat (struct buffer_t) and the zero-copy I/O  *)
(* its two users do on it: the writer read()s a whole file straight into   *)
(* the storage, the reader write()s it straight out, both outside the      *)
(* lock.  How the two users synchronise is left to PcatSem (semaphores,    *)
(* two processes) and PcatMon (a monitor, two threads).                    *)
(*                                                                         *)
(* The files are abstracted to the boundaries they cut in one stream of    *)
(* bytes: file f holds the stream positions Offset[f-1] .. Offset[f]-1, so *)
(* a byte is its position, and "the right byte" is a comparison.           *)
(***************************************************************************)
EXTENDS Integers

CONSTANTS
  Capacity,      \* BUFFER_CAPACITY
  NFiles,        \* argc - 1
  Offset,        \* Offset[f]: where file f ends in the concatenation
  MaxFaults      \* how many read()/write() calls may fail or meet an early EOF

ASSUME CapacityAssumption == Capacity \in Nat \ {0}

ASSUME FilesAssumption ==
  /\ NFiles \in Nat \ {0}
  /\ Offset \in [0 .. NFiles -> Nat]
  /\ Offset[0] = 0
  /\ \A i, j \in 0 .. NFiles : i <= j => Offset[i] <= Offset[j]

ASSUME FaultsAssumption == MaxFaults \in Nat

Total == Offset[NFiles]

Unset == -1   \* a byte no file put there: zero, or left by a crashed run
Byte  == {Unset} \cup (0 .. Total - 1)
Addr  == 0 .. Capacity - 1

VARIABLES
  start, end, size,  \* the header fields of buffer_t
  storage,           \* its bytes
  wfile, dest, got,  \* writer: file_ind, get_write's result, read_total
  rfile, src, put,   \* reader: file_ind, get_read's result, written_total
  out, outLen,       \* what standard output has received
  faults,            \* failed calls so far
  undefined          \* an access past the storage corrupted memory

header == <<start, end, size>>
writer == <<wfile, dest, got>>
reader == <<rfile, src, put>>
io     == <<storage, out, outLen, faults, undefined>>
bufVars == <<header, writer, reader, io>>

fsize(f) == Offset[f] - Offset[f - 1]

BufInit ==
  /\ start = 0 /\ end = 0 /\ size = 0
  /\ storage = [a \in Addr |-> Unset]
  /\ wfile = 1 /\ dest = 0 /\ got = 0
  /\ rfile = 1 /\ src = 0 /\ put = 0
  /\ out = [p \in 0 .. Total - 1 |-> Unset] /\ outLen = 0
  /\ faults = 0 /\ undefined = FALSE

-----------------------------------------------------------------------------
(* The header.                                                             *)

upd_buffer_size(s, e) == IF e >= s THEN e - s ELSE Capacity - s + e

shift_by_k(x, n) == (x + n) % Capacity

Mutant_NoRoom == Capacity - size < fsize(wfile) - 1

\* The loop conditions of get_write and get_read.  capacity and size are
\* unsigned; size never exceeds capacity, so the difference never wraps.
NoRoom == Capacity - size < fsize(wfile)
NoData == size < fsize(rfile)

Mutant_MarkWritten ==
  /\ end' = shift_by_k(end, fsize(wfile))
  /\ wfile' = wfile + 1
  /\ UNCHANGED <<start, size, dest, got>>

\* shift_end_by_k, upd_buffer_size; the caller's file_ind++ is folded in.
MarkWritten ==
  /\ end' = shift_by_k(end, fsize(wfile))
  /\ size' = upd_buffer_size(start, end')
  /\ wfile' = wfile + 1
  /\ UNCHANGED <<start, dest, got>>

Mutant_MarkRead ==
  /\ size' = upd_buffer_size(start, end)
  /\ rfile' = rfile + 1
  /\ UNCHANGED <<start, end, src, put>>

\* shift_start_by_k, upd_buffer_size; likewise.
MarkRead ==
  /\ start' = shift_by_k(start, fsize(rfile))
  /\ size' = upd_buffer_size(start', end)
  /\ rfile' = rfile + 1
  /\ UNCHANGED <<end, src, put>>

-----------------------------------------------------------------------------
(* saferead(src_fd, dest, n): a loop of read() calls.  A call transfers any *)
(* number of bytes up to what is asked for; EINTR is retried and changes    *)
(* nothing.  The kernel stops a transfer at the end of mapped memory.       *)

ReadChunk ==
  /\ \E k \in 1 .. fsize(wfile) - got :
       /\ dest + got + k <= Capacity
       /\ storage' = [a \in Addr |->
            IF dest + got <= a /\ a < dest + got + k
              THEN Offset[wfile - 1] + (a - dest) ELSE storage[a]]
       /\ got' = got + k
  /\ UNCHANGED <<wfile, dest, out, outLen, faults, undefined>>

\* saferead returns: the whole file was read; or a read() failed or hit an
\* early EOF; or the next byte lies past the storage and the call got EFAULT.
\* complete_write ignores which.
SafereadReturns ==
  /\ \/ got = fsize(wfile) /\ UNCHANGED faults
     \/ got < fsize(wfile) /\ faults < MaxFaults /\ faults' = faults + 1
     \/ got < fsize(wfile) /\ dest + got >= Capacity /\ UNCHANGED faults
  /\ UNCHANGED <<storage, out, outLen, undefined>>

\* ... or that byte is mapped: the header (semaphores) or the heap (monitor)
\* is overwritten, and nothing is said of what follows.
ReadPastEnd ==
  /\ got < fsize(wfile) /\ dest + got >= Capacity
  /\ undefined' = TRUE
  /\ UNCHANGED <<storage, out, outLen, faults>>

(* safewrite(dest_fd, src, n): the same with write().                       *)

WriteChunk ==
  /\ \E k \in 1 .. fsize(rfile) - put :
       /\ src + put + k <= Capacity
       /\ out' = [p \in 0 .. Total - 1 |->
            IF outLen <= p /\ p < outLen + k
              THEN storage[src + put + (p - outLen)] ELSE out[p]]
       /\ outLen' = outLen + k
       /\ put' = put + k
  /\ UNCHANGED <<rfile, src, storage, faults, undefined>>

SafewriteReturns ==
  /\ \/ put = fsize(rfile) /\ UNCHANGED faults
     \/ put < fsize(rfile) /\ faults < MaxFaults /\ faults' = faults + 1
     \/ put < fsize(rfile) /\ src + put >= Capacity /\ UNCHANGED faults
  /\ UNCHANGED <<storage, out, outLen, undefined>>

WritePastEnd ==
  /\ put < fsize(rfile) /\ src + put >= Capacity
  /\ undefined' = TRUE
  /\ UNCHANGED <<storage, out, outLen, faults>>

-----------------------------------------------------------------------------
(* What the properties are about.                                          *)

BufTypeOK ==
  /\ start \in Addr /\ end \in Addr /\ size \in 0 .. Capacity
  /\ storage \in [Addr -> Byte]
  /\ wfile \in 1 .. NFiles + 1 /\ dest \in Addr /\ got \in Nat
  /\ rfile \in 1 .. NFiles + 1 /\ src \in Addr /\ put \in Nat
  /\ out \in [0 .. Total - 1 -> Byte] /\ outLen \in Nat
  /\ faults \in 0 .. MaxFaults /\ undefined \in BOOLEAN

Written == Offset[wfile - 1]   \* bytes of the files marked as written
Taken   == Offset[rfile - 1]   \* bytes of the files marked as read

\* The ring cannot tell full from empty: a condition on the files.
NeverExactlyFull ==
  \A i, j \in 0 .. NFiles : Offset[j] - Offset[i] # Capacity

\* The addresses get_write handed out for the current file, and the ones that
\* hold bytes marked as written and not yet as read.
WriteRegion  == {a \in Addr : dest <= a /\ a < dest + fsize(wfile)}
UnreadRegion == {a \in Addr :
                   \/ start <= a /\ a < start + (Written - Taken)
                   \/ a + Capacity < start + (Written - Taken)}

\* Where pcat is right about the bytes: none is sent twice, out of order or
\* before it was read, and until the storage first wraps around none is missing.
InOrder ==
  /\ \A p, q \in 0 .. Total - 1 : p < q /\ q < outLen => out[p] < out[q]
  /\ \A p \in 0 .. Total - 1 : p < outLen /\ p < Capacity => out[p] = p
=============================================================================
