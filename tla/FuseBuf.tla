------------------------------- MODULE FuseBuf -------------------------------
(***************************************************************************)
(* fuse_buf_copy of buffer.c: it copies from one vector of buffers to      *)
(* another.  A buffer is memory, a file read or written at an offset       *)
(* (FUSE_BUF_FD_SEEK) or a pipe; a system call may move fewer bytes than   *)
(* asked, none, or fail.  The vectors are different objects.               *)
(***************************************************************************)
EXTENDS Integers, Sequences, SequencesExt

CONSTANTS
  SrcSizes, DstSizes,   \* sizes of the buffers
  MaxCount,             \* bound on the number of buffers of a vector
  TmpSize               \* the size of fuse_buf_fd_to_fd's own buffer (the code: 4096)

VARIABLES
  src, dst,    \* the vectors: their buffers, the current one and the offset in it
  splice,      \* FUSE_BUF_NO_SPLICE is not set
  pc,
  one,         \* locals of fuse_buf_copy_one: what is left, the offsets, what is copied
  tmp,         \* what fuse_buf_fd_to_fd has read and not written, and its locals
  copied,      \* what fuse_buf_copy returns; -1 for an error
  taken,       \* taken[i]: the bytes read from the pipe of the i-th source buffer
  dest         \* dest[j]: the bytes in the j-th destination buffer

vars == <<src, dst, splice, pc, one, tmp, copied, taken, dest>>

None    == <<0, 0>>
NoTmp   == [bytes |-> <<>>, this_len |-> 0, res |-> 0]
Idle    == [len |-> 0, left |-> 0, soff |-> 0, doff |-> 0, n |-> 0]
Kinds   == {<<"mem", FALSE>>} \cup {"file", "pipe"} \X BOOLEAN

FUSE_BUFVEC_INIT(sizes) ==
  UNION {{[buf |-> [i \in 1 .. n |-> [size |-> size[i], kind |-> k[1], retry |-> k[2]]], idx |-> 1, off |-> 0] :
            size \in [1 .. n -> sizes], k \in Kinds} : n \in 1 .. MaxCount}

Init ==
  /\ src \in FUSE_BUFVEC_INIT(SrcSizes) /\ dst \in FUSE_BUFVEC_INIT(DstSizes)
  /\ splice \in BOOLEAN
  /\ pc = "copy" /\ one = Idle /\ tmp = NoTmp /\ copied = 0
  /\ taken = [i \in DOMAIN src.buf |-> 0]
  /\ dest = [j \in DOMAIN dst.buf |-> [k \in 1 .. dst.buf[j].size |-> None]]

Current(v) == v.buf[v.idx]

(* The n bytes that a read of the current source buffer at offset off      *)
(* gives: those at the offset, or the next ones of the pipe.               *)
Bytes(off, n) ==
  LET at == IF Current(src).kind = "pipe" THEN taken[src.idx] ELSE off
  IN  [k \in 1 .. n |-> <<src.idx, at + k>>]

Taken(n) == [taken EXCEPT ![src.idx] = @ + n]

(* The destination once bytes were written to the current buffer at off.   *)
Written(off, bytes) ==
  LET free == {k \in DOMAIN dest[dst.idx] : dest[dst.idx][k] = None}
      at   == IF Current(dst).kind # "pipe" THEN off ELSE Min(free \cup {Current(dst).size + 1}) - 1
  IN  [dest EXCEPT ![dst.idx] =
         [k \in DOMAIN @ |-> IF k \in at + 1 .. at + Len(bytes) THEN bytes[k - at] ELSE @[k]]]

fuse_bufvec_advance_KeepsOff(v, n) ==
  IF v.off + n < Current(v).size THEN [v EXCEPT !.off = @ + n]
  ELSE [v EXCEPT !.idx = @ + 1, !.off = @ + n]

(* Behind the last buffer the offset stays where it is.                    *)
fuse_bufvec_advance(v, n) ==
  IF v.off + n < Current(v).size THEN [v EXCEPT !.off = @ + n]
  ELSE IF v.idx = Len(v.buf) THEN [v EXCEPT !.idx = @ + 1, !.off = @ + n]
  ELSE [v EXCEPT !.idx = @ + 1, !.off = 0]

AtEnd(v) == v.idx > Len(v.buf)

(* fuse_buf_copy_one has returned res.  When the source ends, the place in *)
(* the destination is not moved.                                           *)
Returned(res) ==
  /\ one' = Idle /\ tmp' = NoTmp
  /\ \/ /\ res < 0
        /\ copied' = IF copied = 0 THEN res ELSE copied
        /\ pc' = "done" /\ UNCHANGED <<src, dst>>
     \/ /\ res >= 0
        /\ copied' = copied + res
        /\ src' = fuse_bufvec_advance(src, res)
        /\ dst' = IF AtEnd(src') THEN dst ELSE fuse_bufvec_advance(dst, res)
        /\ pc' = IF AtEnd(src') \/ AtEnd(dst') \/ res < one.len THEN "done" ELSE "copy"

fuse_buf_copy ==
  /\ pc = "copy"
  /\ LET len == Min({Current(src).size - src.off, Current(dst).size - dst.off})
     IN  one' = [len |-> len, left |-> len, soff |-> src.off, doff |-> dst.off, n |-> 0]
  /\ pc' = CASE Current(src).kind = "mem" /\ Current(dst).kind = "mem" -> "memcpy"
             [] Current(src).kind = "mem" \/ Current(dst).kind = "mem" -> "move"
             [] OTHER -> IF splice THEN "splice" ELSE "fd_to_fd"
  /\ UNCHANGED <<src, dst, splice, tmp, copied, taken, dest>>

memcpy ==
  /\ pc = "memcpy"
  /\ dest' = Written(one.doff, Bytes(one.soff, one.len))
  /\ Returned(one.len)
  /\ UNCHANGED <<splice, taken>>

Fewer(n) == [one EXCEPT !.left = @ - n, !.soff = @ + n, !.doff = @ + n, !.n = @ + n]

(***************************************************************************)
(* fuse_buf_write, fuse_buf_read and fuse_buf_splice: one system call that *)
(* moves n bytes, 0 at the end and -1 for an error, and another one for    *)
(* the rest if a descriptor has FUSE_BUF_FD_RETRY (memory never has it).   *)
(***************************************************************************)
Move(n) ==
  /\ pc \in {"move", "splice"}
  /\ n <= one.left
  /\ \/ /\ n > 0
        /\ dest' = Written(one.doff, Bytes(one.soff, n))
        /\ taken' = Taken(n)
        /\ \/ /\ (Current(src).retry \/ Current(dst).retry) /\ n < one.left
              /\ one' = Fewer(n)
              /\ UNCHANGED <<src, dst, pc, tmp, copied>>
           \/ /\ ~((Current(src).retry \/ Current(dst).retry) /\ n < one.left)
              /\ Returned(one.n + n)
     \/ n = 0 /\ Returned(one.n) /\ UNCHANGED <<taken, dest>>
     \/ /\ n = -1 /\ one.left > 0
        /\ Returned(IF one.n > 0 THEN one.n ELSE -1)
        /\ UNCHANGED <<taken, dest>>
  /\ UNCHANGED splice

(* EINVAL: "Maybe splice is not supported for this combination".           *)
SpliceFails ==
  /\ pc = "splice" /\ one.n = 0 /\ one.left > 0
  /\ pc' = "fd_to_fd"
  /\ UNCHANGED <<src, dst, splice, one, tmp, copied, taken, dest>>

(* fuse_buf_read into the buffer on the stack.                             *)
ReadTmp(n) ==
  /\ pc = "fd_to_fd"
  /\ LET this == IF tmp.this_len = 0 THEN Min({TmpSize, one.left}) ELSE tmp.this_len
         got  == Len(tmp.bytes)
     IN
     /\ n <= this - got
     /\ \/ /\ n > 0
           /\ tmp' = [tmp EXCEPT !.bytes = @ \o Bytes(one.soff + got, n), !.this_len = this]
           /\ taken' = Taken(n)
           /\ pc' = IF Current(src).retry /\ got + n < this THEN "fd_to_fd" ELSE "write_tmp"
           /\ UNCHANGED <<src, dst, one, copied>>
        \/ /\ n <= 0 /\ got > 0
           /\ pc' = "write_tmp"
           /\ UNCHANGED <<src, dst, one, tmp, copied, taken>>
        \/ /\ n <= 0 /\ got = 0 /\ (n = -1 => this > 0)
           /\ Returned(IF one.n > 0 THEN one.n ELSE n)
           /\ UNCHANGED taken
  /\ UNCHANGED <<splice, dest>>

(* fuse_buf_write of what was read; what a short write leaves is dropped.  *)
WriteTmp(n) ==
  LET res  == tmp.res + Max({n, 0})
      more == n > 0 /\ Current(dst).retry /\ n < Len(tmp.bytes)
  IN
  /\ pc = "write_tmp" /\ n <= Len(tmp.bytes)
  /\ dest' = Written(one.doff + tmp.res, SubSeq(tmp.bytes, 1, n))
  /\ \/ /\ more
        /\ tmp' = [tmp EXCEPT !.bytes = SubSeq(@, n + 1, Len(@)), !.res = res]
        /\ UNCHANGED <<src, dst, pc, one, copied>>
     \/ /\ ~more /\ res > 0 /\ res = tmp.this_len /\ res < one.left
        /\ one' = Fewer(res) /\ tmp' = NoTmp /\ pc' = "fd_to_fd"
        /\ UNCHANGED <<src, dst, copied>>
     \/ /\ ~more /\ ~(res > 0 /\ res = tmp.this_len /\ res < one.left)
        /\ Returned(IF one.n + res > 0 \/ n = 0 THEN one.n + res ELSE -1)
  /\ UNCHANGED <<splice, taken>>

Next ==
  \/ fuse_buf_copy \/ memcpy \/ SpliceFails
  \/ \E n \in -1 .. Max(SrcSizes) : Move(n) \/ ReadTmp(n) \/ WriteTmp(n)

Spec == Init /\ [][Next]_vars

-----------------------------------------------------------------------------
(* The bytes of the source in order, and the bytes in the destination.     *)
Sent  == FlattenSeq([i \in DOMAIN src.buf |-> [k \in 1 .. src.buf[i].size |-> <<i, k>>]])
Got   == FlattenSeq(dest)

(* When fuse_buf_copy returns a number, exactly so many bytes, the first   *)
(* of the source, are in the first places of the destination and nothing   *)
(* is behind them; on an error nothing is there.  And when the source says *)
(* that it is used up, its pipe is empty, on which do_write_buf relies     *)
(* when it does not reset the pipe (fuse_lowlevel.c:1298-1303).            *)
CopiedInOrder ==
  pc = "done" =>
    LET n == Max({copied, 0}) IN
    /\ n <= Min({Len(Sent), Len(Got)})
    /\ \A k \in DOMAIN Got : Got[k] = IF k <= n THEN Sent[k] ELSE None
    /\ AtEnd(src) => \A i \in DOMAIN src.buf : src.buf[i].kind = "pipe" => taken[i] = src.buf[i].size
=============================================================================
