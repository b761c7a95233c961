-------------------------------- MODULE Wasi --------------------------------
(***************************************************************************)
(* The default WASI Preview 1 host functions that Impl registers in        *)
(* register_default_wasi_preview1 (src/src/interpreter.cpp), and the host  *)
(* registry's key.  fd_write is a HostCallback: from the guest's linear    *)
(* memory 0 (Impl::memory()) and its four i32 arguments it computes the    *)
(* ExecutionResult, the memory after its store to nwritten, and the bytes  *)
(* it hands to std::cout or std::cerr.                                     *)
(*                                                                         *)
(* Memory is a sequence of bytes, address a at index a + 1.  The i32       *)
(* arguments are kept signed: static_cast<uint32_t> of a negative one is   *)
(* at least 2^31, past any modelled memory, so `p + n <= memory.size`      *)
(* fails for it as in the code, and a negative iovs_len is a count the     *)
(* loop never reaches.                                                     *)
(***************************************************************************)
EXTENDS Integers, Sequences

Success == 0    \* kErrnoSuccess
Badf    == 8    \* kErrnoBadf
Fault   == 21   \* kErrnoFault

Result(trapped, errno, mem, out) ==
  [trapped |-> trapped, errno |-> errno, mem |-> mem, out |-> out]

\* p + n <= memory.size for the uint32_t view of the i32 p.
Fits(p, n, mem) == p >= 0 /\ p + n <= Len(mem)

\* std::memcpy of a little-endian uint32_t from and to memory.data + a.
LoadU32(mem, a) == mem[a + 1] + 2^8 * mem[a + 2] + 2^16 * mem[a + 3] + 2^24 * mem[a + 4]
StoreU32(mem, a, v) ==
  [i \in DOMAIN mem |-> IF i \in a + 1 .. a + 4 THEN (v \div 2^(8 * (i - a - 1))) % 2^8
                        ELSE mem[i]]

\* Mutant: a buffer that ends exactly at the end of memory is a fault.
IovecFitsAtEnd(mem, ptr, len) == ptr + len < Len(mem)

\* const uint64_t end = ptr + len; if (end > memory.size) fault.
IovecFits(mem, ptr, len) == ptr + len <= Len(mem)

\* The loop over the iovec array from entry i: each entry is bounds-checked
\* and its buffer written to the stream before the next one is read; the
\* first fault returns, with what was written so far already written.
RECURSIVE WriteIovecs(_, _, _, _, _)
WriteIovecs(mem, iovs, n, i, out) ==
  IF n >= 0 /\ i >= n THEN [fault |-> FALSE, out |-> out]
  ELSE IF ~Fits(iovs + 8 * i, 8, mem) THEN [fault |-> TRUE, out |-> out]
  ELSE LET ptr == LoadU32(mem, iovs + 8 * i)
           len == LoadU32(mem, iovs + 8 * i + 4)
       IN IF ~IovecFits(mem, ptr, len) THEN [fault |-> TRUE, out |-> out]
          ELSE WriteIovecs(mem, iovs, n, i + 1, out \o SubSeq(mem, ptr + 1, ptr + len))

\* fd_write(fd, iovs, iovs_len, nwritten) with memories_ the instance's
\* memories (<< >> or one byte sequence).  memory.data is memory 0's
\* data(), nullptr without a memory; for an empty vector the library may
\* return nullptr or not, so a zero-byte memory may or may not count as
\* "no linear memory".  The result is the set of outcomes the build can
\* produce; a trap leaves memory and the streams alone.
FdWrite(memories, fd, iovs, iovsLen, nwritten) ==
  LET mem    == IF memories = << >> THEN << >> ELSE memories[1]
      noData == IF memories = << >> THEN {TRUE} ELSE IF mem = << >> THEN {TRUE, FALSE} ELSE {FALSE}
      w      == WriteIovecs(mem, iovs, iovsLen, 0, << >>)
      total  == Len(w.out)       \* total_written: the sum of the lens
  IN { IF nullData
       THEN Result(TRUE, Success, mem, << >>)
       ELSE IF fd \notin {1, 2}
       THEN Result(FALSE, Badf, IF Fits(nwritten, 4, mem) THEN StoreU32(mem, nwritten, 0) ELSE mem, << >>)
       ELSE IF w.fault \/ ~Fits(nwritten, 4, mem)
       THEN Result(FALSE, Fault, mem, w.out)
       ELSE Result(FALSE, Success, StoreU32(mem, nwritten, total), w.out)
     : nullData \in noData }

\* proc_exit(code): always a trap whose message carries the code.
ProcExit(code) == [trapped |-> TRUE, message |-> <<"wasi::proc_exit", code>>]

\* make_host_key: module + '\0' + name, the names as byte sequences.
HostKey(module, name) == module \o <<0>> \o name
-----------------------------------------------------------------------------
(* Reference: fd_write as spec.md 4.5 states it.  It writes each iovec to  *)
(* stdout (fd 1) or stderr (fd 2) and stores the total at nwritten, and    *)
(* returns 0; another fd gives 8 with nwritten zeroed; an iovec array, a   *)
(* buffer or nwritten outside memory gives 21.                             *)
LOCAL SX == INSTANCE SequencesExt

FdWriteSpec(mem, fd, iovs, iovsLen, nwritten) ==
  LET entry(i)  == [ptr |-> LoadU32(mem, iovs + 8 * i), len |-> LoadU32(mem, iovs + 8 * i + 4)]
      arrayIn   == iovsLen >= 0 /\ (iovsLen = 0 \/ Fits(iovs, 8 * iovsLen, mem))
      buffersIn == \A i \in 0 .. iovsLen - 1 : Fits(entry(i).ptr, entry(i).len, mem)
      bytes     == SX!FlattenSeq([k \in 1 .. iovsLen |->
                      SubSeq(mem, entry(k - 1).ptr + 1, entry(k - 1).ptr + entry(k - 1).len)])
  IN CASE fd \notin {1, 2} ->
            Result(FALSE, Badf, IF Fits(nwritten, 4, mem) THEN StoreU32(mem, nwritten, 0) ELSE mem, << >>)
       [] arrayIn /\ buffersIn /\ Fits(nwritten, 4, mem) ->
            Result(FALSE, Success, StoreU32(mem, nwritten, Len(bytes)), bytes)
       [] OTHER -> Result(FALSE, Fault, mem, << >>)
=============================================================================
