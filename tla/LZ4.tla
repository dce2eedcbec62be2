-------------------------------- MODULE LZ4 --------------------------------
(***************************************************************************)
(* The compressor of memapass/lz4.c (memagrind/memadump/lz4.c is the same  *)
(* program), which both tracers run twice over every block, and the        *)
(* decoder the reader needs to undo it.  LZ4_compress picks one of two     *)
(* compressors by the size of the input: the one for small inputs checks   *)
(* no distance between a match and what it refers to, because none can be  *)
(* too long for the two bytes it is written in.                            *)
(*                                                                         *)
(* Positions count from 0, as the pointers of the code do.  pc is the      *)
(* place in LZ4_compress64kCtx / LZ4_compressCtx ("start", "find",         *)
(* "catchup", "next_match", "last_literals"), then in                      *)
(* LZ4_uncompress_unknownOutputSize ("token", "copy"); "zero" is the       *)
(* compressor's result 0, "error" the decoder's negative one.              *)
(***************************************************************************)
EXTENDS Naturals, Sequences

CONSTANTS
  Inputs,        \* what may be compressed: sequences of bytes
  Hash,          \* LZ4_HASH_VALUE: a bucket for each MinMatch bytes
  Spare,         \* by how much the decoder's buffer may exceed the output
  MinMatch,      \* MINMATCH
  LastLiterals,  \* LASTLITERALS
  CopyLength,    \* COPYLENGTH
  OffsetBase,    \* values of a byte of an offset: 256
  MaxByte,       \* the byte that says a length goes on: 255
  Mask,          \* RUN_MASK and ML_MASK
  SkipStrength,  \* SKIPSTRENGTH, as the number it divides by: 64
  Slack          \* what LZ4_compressBound adds: 16

MFLimit     == CopyLength + MinMatch
MinLength   == MFLimit + 1
MaxDistance == OffsetBase * OffsetBase - 1
Limit64K    == MaxDistance + 1 + (MFLimit - 1)

\* What a byte holds: the two nibbles of a token.
Octets == 0..((Mask + 1) * (Mask + 1) - 1)

ASSUME InputAssumption == Inputs \subseteq Seq(Octets)
ASSUME SizeAssumption ==
  /\ MinMatch \in Nat /\ MinMatch >= 3
  /\ LastLiterals \in Nat \ {0} /\ CopyLength \in Nat
  /\ CopyLength <= 2 + 1 + LastLiterals /\ LastLiterals <= CopyLength
  /\ OffsetBase \in Nat \ {0} /\ MaxByte \in Nat \ {0}
  /\ Mask \in Nat \ {0} /\ SkipStrength \in Nat \ {0} /\ Slack \in Nat \ {0, 1}
  /\ Spare \subseteq Nat
  /\ MaxByte \in Octets /\ OffsetBase - 1 \in Octets
\* An offset of two bytes and a token take no more than the match they are for,
\* even where the length of the literals needs a byte of its own.
ASSUME MatchAssumption == MinMatch >= 4 \/ MaxByte <= Mask
\* LZ4_HASH_VALUE takes any MinMatch bytes.
ASSUME HashAssumption ==
  \A s \in Inputs : \A p \in 0..(Len(s) - MinMatch) :
    SubSeq(s, p + 1, p + MinMatch) \in DOMAIN Hash

VARIABLES
  pc,
  input,     \* source
  small,     \* whether LZ4_compress64kCtx runs
  table,     \* HashTable
  ip, anchor, ref, forwardIp, findMatchAttempts,
  token,     \* where the token of this sequence is in out
  out,       \* dest from its start to op
  top,       \* history: how far dest was ever written, copies rounded up
  dip,       \* the decoder's ip
  room,      \* the decoder's maxOutputSize
  dest       \* the decoder's output from its start to op

encVars == <<table, ip, anchor, ref, forwardIp, findMatchAttempts, token, out, top>>
decVars == <<dip, room, dest>>
vars == <<pc, input, small, table, ip, anchor, ref, forwardIp, findMatchAttempts,
          token, out, top, dip, room, dest>>

isize == Len(input)
mflimit == isize - MFLimit
matchlimit == isize - LastLiterals
Byte(p) == input[p + 1]
Bucket(p) == Hash[SubSeq(input, p + 1, p + MinMatch)]
Same(p, q) == \A k \in 0..(MinMatch - 1) : Byte(p + k) = Byte(q + k)

\* LZ4_compressBound, and a variant that forgets the bytes of long lengths.
BoundShort == isize + Slack
Bound == isize + isize \div MaxByte + Slack

Init ==
  /\ pc = "start"
  /\ input \in Inputs
  /\ small = FALSE
  /\ table = [b \in {Hash[g] : g \in DOMAIN Hash} |-> 0]
  /\ ip = 0 /\ anchor = 0 /\ ref = 0 /\ forwardIp = 0 /\ findMatchAttempts = 0
  /\ token = 0 /\ out = <<>> /\ top = 0
  /\ dip = 0 /\ room = 0 /\ dest = <<>>

-----------------------------------------------------------------------------
\* Entering the loop that looks for a match at position p.
Search(p) ==
  /\ pc' = "find"
  /\ forwardIp' = p
  /\ findMatchAttempts' = SkipStrength + 3

\* LZ4_compress_limitedOutput
Fits64K == isize < Limit64K

\* What the table holds of position p: two bytes (U16) in the small compressor.
Entry(p) == IF small THEN p % (MaxDistance + 1) ELSE p

\* The first byte of the input goes into the table, which is zero anyway.
Start ==
  /\ pc = "start"
  /\ small' = Fits64K
  /\ IF isize < MinLength
       THEN pc' = "last_literals" /\ UNCHANGED <<forwardIp, findMatchAttempts, ip>>
       ELSE Search(1) /\ ip' = 1
  /\ UNCHANGED <<input, table, anchor, ref, token, out, top>> /\ UNCHANGED decVars

\* Whether what the table gave is a match for the four bytes at p.  Only the
\* large compressor looks at the distance.
MatchesNear(r, p) == Same(r, p)   \* variant: the distance is never looked at
Matches(r, p) == (small \/ r + MaxDistance >= p) /\ Same(r, p)

\* One turn of the do loop that finds a match.
FindMatch ==
  LET step == findMatchAttempts \div SkipStrength
      next == forwardIp + step
      found == table[Bucket(forwardIp)] IN
  /\ pc = "find"
  /\ ip' = forwardIp
  /\ findMatchAttempts' = findMatchAttempts + 1
  /\ forwardIp' = next
  /\ IF next > mflimit
       THEN pc' = "last_literals" /\ UNCHANGED <<ref, table>>
       ELSE /\ ref' = found
            /\ table' = [table EXCEPT ![Bucket(forwardIp)] = Entry(forwardIp)]
            /\ pc' = IF Matches(found, forwardIp) THEN "catchup" ELSE "find"
  /\ UNCHANGED <<input, small, anchor, token, out, top>> /\ UNCHANGED decVars

\* The bytes that continue a length of at least Mask.
LengthBytes(len) ==
  IF len < Mask THEN <<>>
  ELSE [i \in 1..((len - Mask) \div MaxByte) |-> MaxByte]
         \o <<(len - Mask) % MaxByte>>
NibbleUncut(len) == len  \* variant: a long length spills into its neighbour
Nibble(len) == IF len < Mask THEN len ELSE Mask
Token(literals, match) == Nibble(literals) * (Mask + 1) + Nibble(match)

Literals(from, to) == SubSeq(input, from + 1, to)

\* LZ4_BLINDCOPY writes whole steps of CopyLength, and at least one.
CopiedUpTo(pos, len) ==
  LET steps == IF len = 0 THEN 1 ELSE (len + CopyLength - 1) \div CopyLength
  IN pos + steps * CopyLength
Higher(a, b) == IF a > b THEN a ELSE b

\* How far a match can be extended backwards.
CatchUp ==
  LET most == IF ip - anchor < ref THEN ip - anchor ELSE ref IN
  CHOOSE k \in 0..most :
    /\ \A j \in 1..k : Byte(ip - j) = Byte(ref - j)
    /\ k = most \/ Byte(ip - k - 1) # Byte(ref - k - 1)

\* Catch up, then the token and the literals before the match; the check of
\* the output limit ends the compressor.
EncodeLiterals ==
  LET k == CatchUp
      length == ip - k - anchor
      full == Len(out) + 1 + length + (2 + 1 + LastLiterals)
                + length \div (MaxByte + 1) >= Bound
      head == Append(out, Token(length, 0)) \o LengthBytes(length) IN
  /\ pc = "catchup"
  /\ ip' = ip - k /\ ref' = ref - k
  /\ token' = Len(out) + 1
  /\ IF full
       THEN pc' = "zero" /\ UNCHANGED <<out, top>>
       ELSE /\ pc' = "next_match"
            /\ out' = head \o Literals(anchor, ip - k)
            /\ top' = Higher(top, CopiedUpTo(Len(head), length))
  /\ UNCHANGED <<input, small, table, anchor, forwardIp, findMatchAttempts>>
  /\ UNCHANGED decVars

\* Variant: the match may reach the end of the input.
ExtensionToEnd(r, p) ==
  CHOOSE k \in 0..(isize - p) :
    /\ \A j \in 0..(k - 1) : Byte(p + j) = Byte(r + j)
    /\ k = isize - p \/ Byte(p + k) # Byte(r + k)

\* How far a match goes on: never into the last literals.
Extension(r, p) ==
  CHOOSE k \in 0..(matchlimit - p) :
    /\ \A j \in 0..(k - 1) : Byte(p + j) = Byte(r + j)
    /\ k = matchlimit - p \/ Byte(p + k) # Byte(r + k)

OffsetBytes(d) == <<d % OffsetBase, (d \div OffsetBase) % OffsetBase>>

\* _next_match: offset and length of the match at ip; then the next position
\* either begins a match itself, without literals, or the search goes on.
EncodeMatch ==
  LET more == Extension(ref + MinMatch, ip + MinMatch)
      end == ip + MinMatch + more
      tokened == [out EXCEPT ![token] = @ + Nibble(more)]
      coded == tokened \o OffsetBytes(ip - ref) \o LengthBytes(more)
      filled == [table EXCEPT ![Bucket(end - 2)] = Entry(end - 2)]
      found == filled[Bucket(end)] IN
  /\ pc = "next_match"
  /\ IF end > mflimit
       THEN /\ pc' = "last_literals" /\ anchor' = end /\ ip' = end
            /\ out' = coded /\ top' = Higher(top, Len(coded))
            /\ UNCHANGED <<table, ref, token, forwardIp, findMatchAttempts>>
       ELSE /\ table' = [filled EXCEPT ![Bucket(end)] = Entry(end)]
            /\ anchor' = end
            /\ ref' = found
            /\ IF Matches(found, end)
                 THEN /\ pc' = "next_match" /\ ip' = end
                      /\ out' = Append(coded, 0) /\ token' = Len(coded) + 1
                      /\ UNCHANGED <<forwardIp, findMatchAttempts>>
                 ELSE /\ Search(end + 1) /\ ip' = end + 1
                      /\ out' = coded /\ UNCHANGED token
            /\ top' = Higher(top, Len(out'))
  /\ UNCHANGED <<input, small>> /\ UNCHANGED decVars

\* _last_literals, with the two compressors' own checks of the output limit.
EncodeLastLiterals ==
  LET lastRun == isize - anchor
      more == IF small THEN lastRun \div (MaxByte + 1)
              ELSE IF lastRun < Mask THEN 0 ELSE (lastRun - Mask) \div MaxByte
      all == Append(out, Token(lastRun, 0)) \o LengthBytes(lastRun)
               \o Literals(anchor, isize) IN
  /\ pc = "last_literals"
  /\ IF Len(out) + lastRun + 1 + more >= Bound
       THEN pc' = "zero" /\ UNCHANGED <<out, top>>
       ELSE pc' = "compressed" /\ out' = all /\ top' = Higher(top, Len(all))
  /\ UNCHANGED <<input, small, table, ip, anchor, ref, forwardIp, findMatchAttempts, token>>
  /\ UNCHANGED decVars

-----------------------------------------------------------------------------
\* LZ4_uncompress_unknownOutputSize over what was compressed.
iend == Len(out)
Next1(p) == out[p + 1]

BeginDecode ==
  /\ pc = "compressed"
  /\ \E more \in Spare : room' = isize + more
  /\ pc' = "token"
  /\ UNCHANGED <<input, small, dip, dest>> /\ UNCHANGED encVars

\* A length whose nibble is n and whose further bytes begin at p: the bytes
\* that say it goes on, and the one that ends it unless the input does.
GoesOn(p) ==
  CHOOSE k \in 0..(iend - p) :
    /\ \A j \in 0..(k - 1) : Next1(p + j) = MaxByte
    /\ k = iend - p \/ Next1(p + k) # MaxByte
ReadLength(n, p) ==
  LET k == GoesOn(p) IN
  IF n < Mask THEN [len |-> n, ip |-> p]
  ELSE IF p + k = iend THEN [len |-> n + k * MaxByte, ip |-> iend]
  ELSE [len |-> n + k * MaxByte + Next1(p + k), ip |-> p + k + 1]

\* The loop ends before a token when the input does.
DecodeEnds ==
  /\ pc = "token" /\ dip = iend
  /\ pc' = "decoded"
  /\ UNCHANGED <<input, small>> /\ UNCHANGED encVars /\ UNCHANGED decVars

\* A run of literals close to the end of either buffer has to be the last.
LastRun(cpy, p, length) == cpy + CopyLength > room \/ p + length + CopyLength > iend

DecodeLiterals ==
  LET run == ReadLength(Next1(dip) \div (Mask + 1), dip + 1)
      cpy == Len(dest) + run.len
      last == LastRun(cpy, run.ip, run.len)
      bad == cpy > room \/ run.ip + run.len # iend IN
  /\ pc = "token" /\ dip < iend
  /\ pc' = IF ~last THEN "copy" ELSE IF bad THEN "error" ELSE "decoded"
  /\ IF last /\ bad
       THEN UNCHANGED <<dest, dip, token>>
       ELSE /\ dest' = dest \o SubSeq(out, run.ip + 1, run.ip + run.len)
            /\ token' = dip + 1
            /\ dip' = run.ip + run.len
  /\ UNCHANGED <<input, small, table, ip, anchor, ref, forwardIp, findMatchAttempts,
                 out, top, room>>

\* A match is copied byte by byte, so that it may overlap what it writes.
Repeated(from, len) ==
  LET period == Len(dest) - from
  IN [i \in 1..len |-> dest[from + 1 + ((i - 1) % period)]]

DecodeMatch ==
  LET offset == Next1(dip) + OffsetBase * Next1(dip + 1)
      m == ReadLength(out[token] % (Mask + 1), dip + 2)
      length == m.len + MinMatch IN
  /\ pc = "copy"
  /\ dip' = m.ip
  /\ IF offset > Len(dest) \/ Len(dest) + length > room
       THEN pc' = "error" /\ UNCHANGED dest
       ELSE /\ dest' = dest \o Repeated(Len(dest) - offset, length)
            /\ pc' = IF Len(dest') = room THEN "decoded" ELSE "token"
  /\ UNCHANGED <<input, small, room>> /\ UNCHANGED encVars

Stopped == pc \in {"zero", "error", "decoded"} /\ UNCHANGED vars

Compress == Start \/ FindMatch \/ EncodeLiterals \/ EncodeMatch \/ EncodeLastLiterals
Uncompress == BeginDecode \/ DecodeEnds \/ DecodeLiterals \/ DecodeMatch
Next == Compress \/ Uncompress \/ Stopped

Spec == Init /\ [][Next]_vars

-----------------------------------------------------------------------------
\* The type of every variable: what is written are bytes, the two lengths of a
\* token never run into each other.
TypeOK ==
  /\ pc \in {"start", "find", "catchup", "next_match", "last_literals", "zero",
             "compressed", "token", "copy", "decoded", "error"}
  /\ input \in Seq(Octets) /\ small \in BOOLEAN
  /\ table \in [{Hash[g] : g \in DOMAIN Hash} -> Nat]
  /\ ip \in Nat /\ anchor \in Nat /\ ref \in Nat
  /\ forwardIp \in Nat /\ findMatchAttempts \in Nat /\ token \in Nat
  /\ out \in Seq(Octets) /\ top \in Nat
  /\ dip \in Nat /\ room \in Nat /\ dest \in Seq(Octets)

\* Decoding gives back the input, with a buffer that has no byte to spare:
\* the rules for the end of a block (the last literals, MFLIMIT) are enough
\* for the decoder's guess that a run near the end is the last one.
RoundTrip ==
  /\ pc # "error"
  /\ pc = "decoded" => dest = input

\* A match refers to bytes before it, by a distance its two bytes can hold:
\* the small compressor's missing check is never needed.
OffsetInRange ==
  pc = "next_match" => ref < ip /\ ip - ref <= MaxDistance

\* "sized to handle worst cases situations": with LZ4_compressBound bytes the
\* compressor never gives up and never writes past them, the rounding up of
\* its copies included.
BoundSuffices == pc # "zero" /\ top <= Bound
=============================================================================
