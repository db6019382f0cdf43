-------------------------- MODULE PcatBufferProofs --------------------------
(***************************************************************************)
(* What the operations of PcatBuffer do to the header, the storage and the *)
(* output, however their two users synchronise: the lemmas PcatProofs      *)
(* and PcatMonProofs have in common.                                       *)
(***************************************************************************)
EXTENDS PcatBuffer, TLAPS

-----------------------------------------------------------------------------
(* Files.                                                                  *)

\* A file has no negative length and lies within the concatenation.
LEMMA FileBounds ==
  ASSUME NEW f \in 1 .. NFiles
  PROVE  /\ f - 1 \in 0 .. NFiles /\ f \in 0 .. NFiles
         /\ Offset[f - 1] \in Nat /\ Offset[f] \in Nat /\ Total \in Nat
         /\ Offset[f - 1] <= Offset[f] /\ Offset[f] <= Total
         /\ fsize(f) \in Nat /\ fsize(f) = Offset[f] - Offset[f - 1]
<1>1. f - 1 \in 0 .. NFiles /\ f \in 0 .. NFiles /\ NFiles \in 0 .. NFiles
  BY FilesAssumption
<1>2. Offset[f - 1] <= Offset[f] /\ Offset[f] <= Offset[NFiles]
  BY <1>1, FilesAssumption
<1>3. QED
  BY <1>1, <1>2, FilesAssumption DEF fsize, Total

\* The index arithmetic of shift_*_by_k stays inside the storage.
LEMMA ShiftInRange ==
  ASSUME NEW x \in Addr, NEW n \in Nat
  PROVE  shift_by_k(x, n) \in Addr
BY CapacityAssumption DEF shift_by_k, Addr

\* upd_buffer_size yields a count of bytes between none and the whole storage.
LEMMA SizeInRange ==
  ASSUME NEW s \in Addr, NEW e \in Addr
  PROVE  upd_buffer_size(s, e) \in 0 .. Capacity - 1
BY CapacityAssumption DEF upd_buffer_size, Addr

-----------------------------------------------------------------------------
(* Types.                                                                  *)

\* The buffer main initialises is in range.
LEMMA InitBufType == BufInit => BufTypeOK
<1> SUFFICES ASSUME BufInit PROVE BufTypeOK
  OBVIOUS
<1> USE DEF BufInit
<1>1. 0 \in Addr /\ 0 \in 0 .. Capacity /\ 1 \in 1 .. NFiles + 1 /\ 0 \in 0 .. MaxFaults
  BY CapacityAssumption, FilesAssumption, FaultsAssumption DEF Addr
<1>2. Unset \in Byte
  BY DEF Byte
<1>3. storage \in [Addr -> Byte] /\ out \in [0 .. Total - 1 -> Byte]
  BY <1>2
<1>4. QED
  BY <1>1, <1>3 DEF BufTypeOK

\* It stays so in a step that leaves it alone.
LEMMA BufTypeStays == BufTypeOK /\ UNCHANGED bufVars => BufTypeOK'
BY DEF BufTypeOK, bufVars, header, writer, reader, io

\* Marking a file leaves the index and the size it computes in range.
LEMMA MarkWrittenType ==
  ASSUME BufTypeOK, wfile \in 1 .. NFiles, MarkWritten
  PROVE  end' \in Addr /\ size' \in 0 .. Capacity /\ wfile' \in 1 .. NFiles + 1
<1>1. end' \in Addr
  BY FileBounds, ShiftInRange DEF MarkWritten, BufTypeOK
<1>2. size' \in 0 .. Capacity - 1
  BY <1>1, SizeInRange DEF MarkWritten, BufTypeOK
<1>3. QED
  BY <1>1, <1>2, CapacityAssumption, FilesAssumption DEF MarkWritten

\* So does marking one as read.
LEMMA MarkReadType ==
  ASSUME BufTypeOK, rfile \in 1 .. NFiles, MarkRead
  PROVE  start' \in Addr /\ size' \in 0 .. Capacity /\ rfile' \in 1 .. NFiles + 1
<1>1. start' \in Addr
  BY FileBounds, ShiftInRange DEF MarkRead, BufTypeOK
<1>2. size' \in 0 .. Capacity - 1
  BY <1>1, SizeInRange DEF MarkRead, BufTypeOK
<1>3. QED
  BY <1>1, <1>2, CapacityAssumption, FilesAssumption DEF MarkRead

\* saferead keeps the storage well formed: the bytes it adds are the file's.
LEMMA ReadChunkType ==
  ASSUME BufTypeOK, wfile \in 1 .. NFiles, got <= fsize(wfile), ReadChunk
  PROVE  storage' \in [Addr -> Byte] /\ got' \in Nat /\ got' <= fsize(wfile)
<1>1. PICK k \in 1 .. fsize(wfile) - got :
        /\ dest + got + k <= Capacity
        /\ storage' = [a \in Addr |->
             IF dest + got <= a /\ a < dest + got + k
               THEN Offset[wfile - 1] + (a - dest) ELSE storage[a]]
        /\ got' = got + k
  BY DEF ReadChunk
<1>2. dest \in Nat /\ got \in Nat /\ fsize(wfile) \in Nat
  BY FileBounds DEF BufTypeOK, Addr
<1>3. got' \in Nat /\ got' <= fsize(wfile)
  BY <1>1, <1>2
<1>4. ASSUME NEW a \in Addr, dest + got <= a, a < dest + got + k
      PROVE  Offset[wfile - 1] + (a - dest) \in Byte
  <2>1. a \in Nat /\ a - dest \in Nat /\ a - dest < fsize(wfile)
    BY <1>1, <1>2, <1>4 DEF Addr
  <2>2. QED
    BY <2>1, <1>2, FileBounds DEF Byte
<1>5. \A a \in Addr : storage[a] \in Byte
  BY DEF BufTypeOK
<1>6. QED
  BY <1>1, <1>3, <1>4, <1>5

\* safewrite only sends what the storage holds.
LEMMA WriteChunkType ==
  ASSUME BufTypeOK, rfile \in 1 .. NFiles, put <= fsize(rfile), WriteChunk
  PROVE  /\ out' \in [0 .. Total - 1 -> Byte] /\ outLen' \in Nat
         /\ put' \in Nat /\ put' <= fsize(rfile)
<1>1. PICK k \in 1 .. fsize(rfile) - put :
        /\ src + put + k <= Capacity
        /\ out' = [p \in 0 .. Total - 1 |->
             IF outLen <= p /\ p < outLen + k
               THEN storage[src + put + (p - outLen)] ELSE out[p]]
        /\ outLen' = outLen + k
        /\ put' = put + k
  BY DEF WriteChunk
<1>2. src \in Nat /\ put \in Nat /\ outLen \in Nat /\ fsize(rfile) \in Nat
  BY FileBounds DEF BufTypeOK, Addr
<1>3. outLen' \in Nat /\ put' \in Nat /\ put' <= fsize(rfile)
  BY <1>1, <1>2
<1>4. ASSUME NEW p \in 0 .. Total - 1, outLen <= p, p < outLen + k
      PROVE  storage[src + put + (p - outLen)] \in Byte
  <2>1. src + put + (p - outLen) \in Addr
    BY <1>1, <1>2, <1>4, CapacityAssumption DEF Addr
  <2>2. QED
    BY <2>1 DEF BufTypeOK
<1>5. \A p \in 0 .. Total - 1 : out[p] \in Byte
  BY DEF BufTypeOK
<1>6. QED
  BY <1>1, <1>3, <1>4, <1>5

-----------------------------------------------------------------------------
(* Calculating modulo the capacity.                                        *)

\* Laps of the ring add up.
LEMMA Laps == \A a, b \in Int : Capacity * (a + b) = Capacity * a + Capacity * b
BY CapacityAssumption

\* What \div and % say of one another.
LEMMA DivisionEquation ==
  ASSUME NEW x \in Nat, NEW q \in Int, q = x \div Capacity,
         NEW r \in Int, r = x % Capacity
  PROVE  x = Capacity * q + r
BY CapacityAssumption

\* A stream position is so many laps and an address.
LEMMA LapAndAddress ==
  ASSUME NEW x \in Nat
  PROVE  \E q \in Int, r \in Addr : x % Capacity = r /\ x = Capacity * q + r
<1>1. x \div Capacity \in Int /\ x % Capacity \in Addr
  BY CapacityAssumption DEF Addr
<1>2. PICK q \in Int : q = x \div Capacity
  BY <1>1
<1>3. PICK r \in Addr : r = x % Capacity
  BY <1>1
<1>4. x = Capacity * q + r
  BY <1>2, <1>3, DivisionEquation DEF Addr
<1>5. QED
  BY <1>3, <1>4

\* A position that is r past the beginning of a lap is at address r.
LEMMA AddressIs ==
  ASSUME NEW x \in Int, NEW q \in Int, NEW r \in Addr, x = Capacity * q + r
  PROVE  x % Capacity = r
BY CapacityAssumption DEF Addr

\* shift_start_by_k and shift_end_by_k move an index as far as the stream goes.
LEMMA ShiftFollowsStream ==
  ASSUME NEW x \in Nat, NEW n \in Nat
  PROVE  shift_by_k(x % Capacity, n) = (x + n) % Capacity
<1>1. PICK q \in Int, r \in Addr : x % Capacity = r /\ x = Capacity * q + r
  BY LapAndAddress
<1>2. r + n \in Nat
  BY CapacityAssumption DEF Addr
<1>3. PICK p \in Int, s \in Addr : (r + n) % Capacity = s /\ r + n = Capacity * p + s
  BY <1>2, LapAndAddress
<1>4. x + n = Capacity * (q + p) + s
  <2>1. Capacity * q \in Int /\ Capacity * p \in Int
    BY CapacityAssumption
  <2>2. QED
    BY <1>1, <1>3, <2>1, Laps, CapacityAssumption DEF Addr
<1>5. (x + n) % Capacity = s
  BY <1>4, AddressIs
<1>6. QED
  BY <1>1, <1>3, <1>5 DEF shift_by_k

\* Positions less than a capacity apart are on the same lap or on the next.
LEMMA NextLap ==
  ASSUME NEW x \in Nat, NEW y \in Nat, x <= y, y - x < Capacity
  PROVE  /\ x % Capacity \in Addr /\ y % Capacity \in Addr
         /\ \/ y % Capacity = (x % Capacity) + (y - x)
            \/ y % Capacity = (x % Capacity) + (y - x) - Capacity
<1>1. PICK q \in Int, r \in Addr : x % Capacity = r /\ x = Capacity * q + r
  BY LapAndAddress
<1> DEFINE s == r + (y - x)
<1>2. Capacity * q \in Int /\ s \in Nat /\ Capacity \in Nat
  BY CapacityAssumption DEF Addr
<1>3. CASE s < Capacity
  <2>1. y = Capacity * q + s /\ s \in Addr
    BY <1>1, <1>2, <1>3 DEF Addr
  <2>2. QED
    BY <1>1, <2>1, AddressIs
<1>4. CASE s >= Capacity
  <2>1. Capacity * (q + 1) = Capacity * q + Capacity
    BY Laps, CapacityAssumption
  <2>2. y = Capacity * (q + 1) + (s - Capacity) /\ s - Capacity \in Addr
    BY <1>1, <1>2, <1>4, <2>1 DEF Addr
  <2>3. y % Capacity = s - Capacity
    BY <2>2, AddressIs
  <2>4. QED
    BY <1>1, <1>2, <2>2, <2>3
<1>5. QED
  BY <1>2, <1>3, <1>4

\* So different bytes of a full buffer have different addresses.
LEMMA AddressesDiffer ==
  ASSUME NEW x \in Nat, NEW y \in Nat, x < y, y - x < Capacity
  PROVE  x % Capacity # y % Capacity
<1>1. /\ x % Capacity \in Addr /\ y % Capacity \in Addr
      /\ \/ y % Capacity = (x % Capacity) + (y - x)
         \/ y % Capacity = (x % Capacity) + (y - x) - Capacity
  BY NextLap
<1>2. QED
  BY <1>1, CapacityAssumption DEF Addr

\* An address that does not pass the end of the storage is where it is said to be.
LEMMA SameLap ==
  ASSUME NEW x \in Nat, NEW n \in Nat, (x % Capacity) + n < Capacity
  PROVE  (x + n) % Capacity = (x % Capacity) + n
<1>1. x % Capacity \in Addr
  BY CapacityAssumption DEF Addr
<1> DEFINE y == x + n
<1>2. y \in Nat /\ x <= y /\ y - x = n /\ n < Capacity
  BY <1>1, CapacityAssumption DEF Addr
<1>3. /\ y % Capacity \in Addr
      /\ \/ y % Capacity = (x % Capacity) + (y - x)
         \/ y % Capacity = (x % Capacity) + (y - x) - Capacity
  BY <1>2, NextLap
<1>4. QED
  BY <1>1, <1>2, <1>3, CapacityAssumption DEF Addr

-----------------------------------------------------------------------------
(* The header.                                                             *)

\* The indices follow the stream modulo the capacity, and size, which is
\* computed from them alone, counts the bytes between them.
HeaderInv ==
  /\ start = Taken % Capacity /\ end = Written % Capacity
  /\ size = Written - Taken /\ size < Capacity

\* The header main writes describes an empty ring.
LEMMA InitHeader == BufInit => HeaderInv
<1>1. 0 \in Addr
  BY CapacityAssumption DEF Addr
<1>2. 0 % Capacity = 0
  BY <1>1, AddressIs, CapacityAssumption
<1>3. QED
  BY <1>2, CapacityAssumption, FilesAssumption DEF BufInit, HeaderInv, Written, Taken

\* upd_buffer_size is right about any two positions less than a lap apart.
LEMMA SizeBetween ==
  ASSUME NEW x \in Nat, NEW y \in Nat, x <= y, y - x < Capacity
  PROVE  upd_buffer_size(x % Capacity, y % Capacity) = y - x
<1>1. /\ x % Capacity \in Addr /\ y % Capacity \in Addr
      /\ \/ y % Capacity = (x % Capacity) + (y - x)
         \/ y % Capacity = (x % Capacity) + (y - x) - Capacity
  BY NextLap
<1>2. QED
  BY <1>1, CapacityAssumption DEF upd_buffer_size, Addr

\* complete_write keeps the header right if there was room for the file and
\* the ring is not left exactly full.
LEMMA MarkWrittenHeader ==
  ASSUME NeverExactlyFull, BufTypeOK, HeaderInv, wfile <= NFiles, ~NoRoom,
         MarkWritten, UNCHANGED rfile
  PROVE  /\ HeaderInv' /\ size' = size + fsize(wfile) /\ start' = start
         /\ Taken' = Taken /\ Written' = Written + fsize(wfile)
<1> DEFINE n == fsize(wfile)
<1>0. wfile \in 1 .. NFiles /\ rfile \in 1 .. NFiles + 1
  BY FilesAssumption DEF BufTypeOK
<1>1. n \in Nat /\ Offset[wfile] = Written + n /\ Written \in Nat /\ Offset[wfile] \in Nat
  BY <1>0, FileBounds DEF Written
<1>2. Taken \in Nat /\ rfile - 1 \in 0 .. NFiles
  BY <1>0, FilesAssumption DEF Taken
<1>3. /\ start' = start /\ end' = shift_by_k(end, n) /\ wfile' = wfile + 1
      /\ size' = upd_buffer_size(start, end')
  BY DEF MarkWritten
<1>4. Written' = Written + n /\ Taken' = Taken
  BY <1>0, <1>1, <1>3 DEF Written, Taken
<1>5. size + n # Capacity
  BY <1>0, <1>1, <1>2 DEF NeverExactlyFull, HeaderInv, Taken
<1>6. size + n < Capacity /\ size \in Int /\ size = Written - Taken
  BY <1>1, <1>2, <1>5, CapacityAssumption DEF HeaderInv, NoRoom
<1>7. Taken <= Written
  BY <1>1, <1>2, <1>6 DEF BufTypeOK
<1>8. end' = (Written + n) % Capacity
  BY <1>1, <1>3, ShiftFollowsStream DEF HeaderInv
<1>9. upd_buffer_size(Taken % Capacity, (Written + n) % Capacity) = Written + n - Taken
  BY <1>1, <1>2, <1>6, <1>7, SizeBetween
<1>10. QED
  BY <1>1, <1>2, <1>3, <1>4, <1>6, <1>8, <1>9 DEF HeaderInv

\* complete_read keeps it right if there was the whole file to read.
LEMMA MarkReadHeader ==
  ASSUME BufTypeOK, HeaderInv, rfile <= NFiles, ~NoData, MarkRead, UNCHANGED wfile
  PROVE  /\ HeaderInv' /\ size' = size - fsize(rfile) /\ end' = end
         /\ Written' = Written /\ Taken' = Taken + fsize(rfile)
<1> DEFINE n == fsize(rfile)
<1>0. rfile \in 1 .. NFiles /\ wfile \in 1 .. NFiles + 1
  BY FilesAssumption DEF BufTypeOK
<1>1. n \in Nat /\ Offset[rfile] = Taken + n /\ Taken \in Nat /\ Offset[rfile] \in Nat
  BY <1>0, FileBounds DEF Taken
<1>2. Written \in Nat
  BY <1>0, FilesAssumption DEF Written
<1>3. /\ end' = end /\ start' = shift_by_k(start, n) /\ rfile' = rfile + 1
      /\ size' = upd_buffer_size(start', end)
  BY DEF MarkRead
<1>4. Taken' = Taken + n /\ Written' = Written
  BY <1>0, <1>1, <1>3 DEF Written, Taken
<1>5. n <= size /\ size < Capacity /\ size \in Int /\ size = Written - Taken
  BY <1>1, <1>2 DEF HeaderInv, NoData, BufTypeOK
<1>6. start' = (Taken + n) % Capacity
  BY <1>1, <1>3, ShiftFollowsStream DEF HeaderInv
<1>7. upd_buffer_size((Taken + n) % Capacity, Written % Capacity) = Written - (Taken + n)
  BY <1>1, <1>2, <1>5, SizeBetween, CapacityAssumption
<1>8. QED
  BY <1>1, <1>2, <1>3, <1>4, <1>5, <1>6, <1>7, CapacityAssumption DEF HeaderInv

\* What the two indices enclose is what size counts.
LEMMA IndicesEnclose ==
  ASSUME BufTypeOK, HeaderInv
  PROVE  end = start + size \/ end = start + size - Capacity
<1>1. Written \in Nat /\ Taken \in Nat
  BY FilesAssumption DEF Written, Taken, BufTypeOK
<1>2. Taken <= Written /\ Written - Taken < Capacity
  BY <1>1 DEF HeaderInv, BufTypeOK
<1>3. QED
  BY <1>1, <1>2, NextLap DEF HeaderInv

-----------------------------------------------------------------------------
(* The storage.                                                            *)

\* Where file f begins, and the first n bytes of it that fit in the storage.
Place(f) == Offset[f - 1] % Capacity

Stored(f, n) ==
  \A i \in 0 .. n - 1 : Place(f) + i < Capacity => storage[Place(f) + i] = Offset[f - 1] + i

\* Every file that has been marked as written and not as read is there, apart
\* from what would lie past the end of the storage.
FilesStored == \A f \in rfile .. wfile - 1 : Stored(f, fsize(f))

\* The writer fills in the bytes of its file and spares those to be read.
LEMMA ReadChunkStores ==
  ASSUME BufTypeOK, HeaderInv, wfile <= NFiles, got <= fsize(wfile), ~NoRoom, dest = end,
         FilesStored, Stored(wfile, got), ReadChunk, UNCHANGED rfile
  PROVE  FilesStored' /\ Stored(wfile, got)'
<1> DEFINE n == fsize(wfile)
<1>0. wfile \in 1 .. NFiles /\ rfile \in 1 .. NFiles + 1
  BY FilesAssumption DEF BufTypeOK
<1>1. n \in Nat /\ Offset[wfile] = Written + n /\ Written \in Nat /\ got \in Nat
  BY <1>0, FileBounds DEF Written, BufTypeOK
<1>2. Taken \in Nat
  BY <1>0, FilesAssumption DEF Taken
<1>3. Written + n - Taken <= Capacity
  BY <1>1, <1>2, CapacityAssumption DEF HeaderInv, NoRoom
<1>4. PICK k \in 1 .. n - got :
        /\ dest + got + k <= Capacity
        /\ storage' = [a \in Addr |->
             IF dest + got <= a /\ a < dest + got + k
               THEN Offset[wfile - 1] + (a - dest) ELSE storage[a]]
        /\ got' = got + k
  BY DEF ReadChunk
<1>5. wfile' = wfile /\ rfile' = rfile /\ dest = Place(wfile) /\ dest \in Addr
  BY DEF ReadChunk, Place, HeaderInv, Written, BufTypeOK
<1>6. Stored(wfile, got)'
  <2> SUFFICES ASSUME NEW i \in 0 .. got' - 1, Place(wfile) + i < Capacity
               PROVE  storage'[Place(wfile) + i] = Offset[wfile - 1] + i
    BY <1>5 DEF Stored, Place
  <2>1. dest + i \in Addr /\ i \in Nat
    BY <1>1, <1>4, <1>5, CapacityAssumption DEF Addr
  <2>2. CASE i < got
    <3>1. storage[dest + i] = Offset[wfile - 1] + i
      BY <1>1, <1>5, <2>1, <2>2 DEF Stored
    <3>2. ~(dest + got <= dest + i)
      BY <1>1, <1>5, <2>1, <2>2 DEF Addr
    <3>3. QED
      BY <1>4, <1>5, <2>1, <3>1, <3>2
  <2>3. CASE i >= got
    <3>1. dest + got <= dest + i /\ dest + i < dest + got + k /\ (dest + i) - dest = i
      BY <1>1, <1>4, <1>5, <2>1, <2>3 DEF Addr
    <3>2. QED
      BY <1>4, <1>5, <2>1, <3>1
  <2>4. QED
    BY <1>1, <2>1, <2>2, <2>3
<1>7. FilesStored'
  <2> SUFFICES ASSUME NEW f \in rfile .. wfile - 1, NEW i \in 0 .. fsize(f) - 1,
                      Place(f) + i < Capacity
               PROVE  storage'[Place(f) + i] = Offset[f - 1] + i
    BY <1>5 DEF FilesStored, Stored, Place, fsize
  <2>1. f \in 1 .. NFiles /\ f \in 0 .. NFiles /\ f - 1 \in 0 .. NFiles
        /\ wfile - 1 \in 0 .. NFiles /\ rfile - 1 \in 0 .. NFiles
        /\ f <= wfile - 1 /\ rfile - 1 <= f - 1
    BY <1>0, FilesAssumption
  <2>2. /\ Offset[f - 1] \in Nat /\ Offset[f] \in Nat /\ fsize(f) = Offset[f] - Offset[f - 1]
        /\ Offset[f] <= Written /\ Taken <= Offset[f - 1]
    BY <2>1, FileBounds, FilesAssumption DEF Written, Taken
  <2>range. i \in Nat /\ i < fsize(f)
    BY <2>2
  <2>3. storage[Place(f) + i] = Offset[f - 1] + i
    BY DEF FilesStored, Stored
  <2> DEFINE p == Offset[f - 1] + i
  <2>4. p \in Nat /\ p < Written /\ Taken <= p /\ p % Capacity = Place(f) + i
    <3>1. (Offset[f - 1] + i) % Capacity = (Offset[f - 1] % Capacity) + i
      BY <2>2, <2>range, SameLap DEF Place
    <3>2. QED
      BY <1>1, <1>2, <2>2, <2>range, <3>1 DEF Place
  <2>5. Place(f) \in Addr /\ Place(f) + i \in Addr
    BY <2>2, <2>range, CapacityAssumption DEF Addr, Place
  <2>6. ASSUME dest + got <= Place(f) + i, Place(f) + i < dest + got + k
        PROVE  FALSE
    <3>1. PICK m \in 0 .. n - 1 : Place(f) + i = dest + m
      <4>1. PICK a \in Nat : a = Place(f) + i
        BY <2>5 DEF Addr
      <4>2. k \in Nat /\ got + k <= n /\ dest \in Nat
        BY <1>1, <1>5 DEF Addr
      <4>3. a - dest \in 0 .. n - 1 /\ a = dest + (a - dest)
        BY <1>1, <2>6, <4>1, <4>2
      <4>4. QED
        BY <4>1, <4>3
    <3> DEFINE q == Written + m
    <3>2. q \in Nat /\ q - p < Capacity /\ p < q
      BY <1>1, <1>2, <1>3, <2>4, CapacityAssumption
    <3>3. q % Capacity = dest + m
      <4>1. Written % Capacity = dest
        BY <1>5 DEF Place, Written
      <4>2. m \in Nat /\ (Written % Capacity) + m < Capacity
        BY <1>1, <3>1, <4>1, <2>5 DEF Addr
      <4>3. QED
        BY <1>1, <4>1, <4>2, SameLap
    <3>4. QED
      BY <2>4, <3>1, <3>2, <3>3, AddressesDiffer
  <2>7. QED
    BY <1>4, <2>3, <2>5, <2>6
<1>8. QED
  BY <1>6, <1>7

\* A file marked as written has been stored, as far as it fits.
LEMMA MarkWrittenStores ==
  ASSUME BufTypeOK, wfile <= NFiles, FilesStored, Stored(wfile, got), dest = Place(wfile),
         got = fsize(wfile) \/ dest + got >= Capacity,
         MarkWritten, UNCHANGED <<rfile, storage>>
  PROVE  FilesStored'
<1>1. wfile \in 1 .. NFiles /\ rfile \in 1 .. NFiles + 1 /\ wfile' = wfile + 1
  BY FilesAssumption DEF BufTypeOK, MarkWritten
<1>2. fsize(wfile) \in Nat /\ got \in Nat /\ dest \in Nat
  BY <1>1, FileBounds DEF BufTypeOK, Addr
<1>3. Stored(wfile, fsize(wfile))
  <2> SUFFICES ASSUME NEW i \in 0 .. fsize(wfile) - 1, Place(wfile) + i < Capacity
               PROVE  storage[Place(wfile) + i] = Offset[wfile - 1] + i
    BY DEF Stored
  <2>1. i \in 0 .. got - 1
    BY <1>2, CapacityAssumption
  <2>2. QED
    BY <2>1 DEF Stored
<1>4. \A f \in rfile .. wfile : Stored(f, fsize(f))
  BY <1>1, <1>3 DEF FilesStored
<1>5. QED
  BY <1>1, <1>4 DEF FilesStored, Stored, Place, fsize

\* A file marked as read need no longer be there.
LEMMA MarkReadStores ==
  ASSUME BufTypeOK, FilesStored, MarkRead, UNCHANGED <<wfile, storage>>
  PROVE  FilesStored'
<1>1. rfile \in Nat /\ wfile \in Nat /\ rfile' = rfile + 1
  BY FilesAssumption DEF BufTypeOK, MarkRead
<1>2. QED
  BY <1>1 DEF FilesStored, Stored, Place, fsize

-----------------------------------------------------------------------------
(* The output.                                                             *)

\* What standard output has when the reader has come to position pos of the
\* stream: bytes from before it, in order, none missing on the first lap.
Sent(pos) ==
  /\ InOrder
  /\ \A p \in 0 .. Total - 1 : p < outLen => out[p] < pos
  /\ outLen = pos \/ outLen >= Capacity

\* The reader sends the bytes of its file that are next, as the writer left them.
LEMMA WriteChunkSends ==
  ASSUME BufTypeOK, HeaderInv, rfile <= NFiles, ~NoData, src = start,
         FilesStored, Sent(Taken + put), WriteChunk
  PROVE  Sent(Taken + put)'
<1>0. rfile \in 1 .. NFiles /\ wfile \in 1 .. NFiles + 1
  BY FilesAssumption DEF BufTypeOK
<1> DEFINE n == fsize(rfile)
<1>1. /\ n \in Nat /\ Taken \in Nat /\ Offset[rfile] = Taken + n /\ Offset[rfile] <= Total
      /\ Total \in Nat /\ put \in Nat /\ outLen \in Nat /\ src \in Nat
  <2>1. n \in Nat /\ Taken \in Nat /\ Offset[rfile] = Taken + n /\ Offset[rfile] <= Total /\ Total \in Nat
    BY <1>0, FileBounds DEF Taken
  <2>2. put \in Nat /\ outLen \in Nat /\ src \in Nat
    BY CapacityAssumption DEF BufTypeOK, Addr
  <2>3. QED
    BY <2>1, <2>2
<1>2. PICK k \in 1 .. n - put :
        /\ src + put + k <= Capacity
        /\ out' = [p \in 0 .. Total - 1 |->
             IF outLen <= p /\ p < outLen + k
               THEN storage[src + put + (p - outLen)] ELSE out[p]]
        /\ outLen' = outLen + k
        /\ put' = put + k
  BY DEF WriteChunk
<1>some. k \in Nat /\ k > 0 /\ put + k <= n /\ outLen' = outLen + k
  BY <1>1, <1>2
<1>3. rfile' = rfile /\ Taken' = Taken /\ src = Place(rfile)
  BY DEF WriteChunk, Taken, Place, HeaderInv
<1>4. rfile \in rfile .. wfile - 1
  <2>1. n > 0
    BY <1>1, <1>some
  <2>2. Taken + n <= Written /\ Written \in Nat
    <3>1. size \in Nat /\ ~(size < n) /\ size = Written - Taken
      BY CapacityAssumption DEF BufTypeOK, NoData, HeaderInv
    <3>2. Written \in Nat
      BY <1>0, FilesAssumption DEF Written
    <3>3. QED
      BY <1>1, <3>1, <3>2
  <2>3. CASE rfile > wfile - 1
    <3>1. Written <= Taken
      BY <1>0, <2>3, FilesAssumption DEF Written, Taken
    <3>2. QED
      BY <1>1, <2>1, <2>2, <3>1
  <2>4. QED
    BY <1>0, <2>3
<1>5. \A p \in 0 .. Total - 1 : out'[p] = IF outLen <= p /\ p < outLen + k
                                        THEN Taken + put + (p - outLen) ELSE out[p]
  <2> SUFFICES ASSUME NEW p \in 0 .. Total - 1, outLen <= p, p < outLen + k
               PROVE  storage[src + put + (p - outLen)] = Taken + put + (p - outLen)
    BY <1>2
  <2> DEFINE i == put + (p - outLen)
  <2>1. i \in 0 .. n - 1 /\ src + i < Capacity /\ src + put + (p - outLen) = src + i
        /\ Taken + put + (p - outLen) = Taken + i
    BY <1>1, <1>2, <1>some, CapacityAssumption
  <2>2. Stored(rfile, n)
    BY <1>4 DEF FilesStored
  <2>3. storage[src + i] = Taken + i
    BY <1>3, <2>1, <2>2 DEF Stored, Taken
  <2>4. QED
    BY <2>1, <2>3
<1>6. \A p \in 0 .. Total - 1 : out[p] \in Int
  BY DEF BufTypeOK, Byte, Unset
<1>7. ASSUME NEW p \in 0 .. Total - 1, NEW q \in 0 .. Total - 1, p < q, q < outLen'
      PROVE  out'[p] < out'[q]
  <2>1. CASE q < outLen
    BY <1>1, <1>5, <1>7, <2>1 DEF Sent, InOrder
  <2>2. CASE q >= outLen /\ p < outLen
    <3>1. out'[p] = out[p] /\ out[p] < Taken + put
      BY <1>1, <1>5, <2>2 DEF Sent
    <3>2. out'[q] = Taken + put + (q - outLen)
      BY <1>5, <1>7, <1>some, <2>2
    <3>3. QED
      BY <1>1, <1>6, <2>2, <3>1, <3>2
  <2>3. CASE q >= outLen /\ p >= outLen
    <3>1. p < outLen + k /\ q < outLen + k
      BY <1>1, <1>7, <1>some
    <3>2. out'[p] = Taken + put + (p - outLen) /\ out'[q] = Taken + put + (q - outLen)
      BY <1>5, <2>3, <3>1
    <3>3. QED
      BY <1>1, <1>7, <3>2
  <2>4. QED
    BY <1>1, <2>1, <2>2, <2>3
<1>8. ASSUME NEW p \in 0 .. Total - 1, p < outLen', p < Capacity
      PROVE  out'[p] = p
  <2>1. CASE p < outLen
    BY <1>1, <1>5, <1>8, <2>1 DEF Sent, InOrder
  <2>2. CASE p >= outLen
    <3>1. outLen = Taken + put
      BY <1>1, <1>8, <2>2, CapacityAssumption DEF Sent
    <3>2. QED
      BY <1>1, <1>2, <1>5, <1>8, <2>2, <3>1
  <2>3. QED
    BY <1>1, <2>1, <2>2
<1>9. ASSUME NEW p \in 0 .. Total - 1, p < outLen'
      PROVE  out'[p] < Taken + put + k
  <2>1. CASE p < outLen
    <3>1. out'[p] = out[p] /\ out[p] < Taken + put
      BY <1>1, <1>5, <1>9, <2>1 DEF Sent
    <3>2. QED
      BY <1>1, <1>some, <1>6, <3>1
  <2>2. CASE p >= outLen
    <3>1. p < outLen + k /\ out'[p] = Taken + put + (p - outLen)
      BY <1>5, <1>9, <1>some, <2>2
    <3>2. QED
      BY <1>1, <1>some, <2>2, <3>1
  <2>3. QED
    BY <1>1, <2>1, <2>2
<1>10. outLen' = Taken + put + k \/ outLen' >= Capacity
  BY <1>1, <1>2, <1>some, CapacityAssumption DEF Sent
<1>11. (Taken + put)' = Taken + put + k
  BY <1>1, <1>2, <1>some, <1>3
<1>12. InOrder'
  BY <1>7, <1>8 DEF InOrder
<1>13. QED
  BY <1>9, <1>10, <1>11, <1>12 DEF Sent

\* When safewrite stops at the end of the file, or at the end of the storage, the
\* reader counts the whole file as read: on the first lap nothing is missing yet.
LEMMA GivingUpSends ==
  ASSUME BufTypeOK, HeaderInv, rfile <= NFiles, src = start, put <= fsize(rfile),
         put = fsize(rfile) \/ src + put >= Capacity, Sent(Taken + put)
  PROVE  Sent(Taken + fsize(rfile))
<1> DEFINE n == fsize(rfile)
<1>1. rfile \in 1 .. NFiles
  BY FilesAssumption DEF BufTypeOK
<1>2. n \in Nat /\ Taken \in Nat
  BY <1>1, FileBounds DEF Taken
<1>3. put \in Nat /\ outLen \in Nat /\ src \in Nat /\ put <= n
  BY CapacityAssumption DEF BufTypeOK, Addr
<1>4. src <= Taken
  <2>1. PICK q \in Int, r \in Addr : Taken % Capacity = r /\ Taken = Capacity * q + r
    BY <1>2, LapAndAddress
  <2>2. src = r /\ r \in 0 .. Capacity - 1
    BY <2>1 DEF HeaderInv, Addr
  <2>3. CASE q < 0
    <3>1. Capacity * q <= -Capacity
      BY <2>3, CapacityAssumption
    <3>2. QED
      BY <1>2, <2>1, <2>2, <3>1, CapacityAssumption
  <2>4. CASE q >= 0
    <3>1. Capacity * q >= 0 /\ Capacity * q \in Int
      BY <2>4, CapacityAssumption
    <3>2. QED
      BY <1>2, <2>1, <2>2, <3>1, CapacityAssumption
  <2>5. QED
    BY <2>3, <2>4
<1>5. CASE put = n
  BY <1>5
<1>6. CASE put # n
  <2>1. outLen >= Capacity
    BY <1>2, <1>3, <1>4, <1>6, CapacityAssumption DEF Sent
  <2>2. ASSUME NEW p \in 0 .. Total - 1, p < outLen
        PROVE  out[p] < Taken + n
    <3>1. out[p] \in Int /\ out[p] < Taken + put
      BY <2>2 DEF Sent, BufTypeOK, Byte, Unset
    <3>2. QED
      BY <1>2, <1>3, <3>1
  <2>3. QED
    BY <2>1, <2>2 DEF Sent
<1>7. QED
  BY <1>5, <1>6

\* Nothing has been sent at the start.
LEMMA NothingSentYet == BufInit => FilesStored /\ Sent(Taken)
<1> SUFFICES ASSUME BufInit PROVE FilesStored /\ Sent(Taken)
  OBVIOUS
<1>1. rfile = 1 /\ wfile = 1 /\ outLen = 0 /\ Taken = 0
  BY FilesAssumption DEF BufInit, Taken
<1>2. FilesStored
  BY <1>1 DEF FilesStored
<1>3. Total \in Nat
  BY FilesAssumption DEF Total
<1>4. QED
  BY <1>1, <1>2, <1>3 DEF Sent, InOrder
=============================================================================
