--------------------------------- MODULE Rlp ---------------------------------
(***************************************************************************)
(* RLP, the encoding of tries, accounts, votes and descriptors (rlp):      *)
(* Encoder, which keeps list headers apart from the bytes until it is      *)
(* flushed; Stream, from which a decoder reads value after value; and      *)
(* Split, which cuts the first value off a slice.                          *)
(*                                                                         *)
(* The decoder of a Go type makes calls of Stream in an order the type     *)
(* gives.  Here any call may come next.  The layout of the tags is that of *)
(* the code with smaller numbers: bytes below SingleTop (128) stand for    *)
(* themselves, sizes below Short (56) have no size bytes, others up to     *)
(* LongTags (8).                                                           *)
(***************************************************************************)
EXTENDS Integers, Sequences, FiniteSetsExt, SequencesExt

CONSTANTS
    SingleTop, Short, LongTags,
    Strings,       \* strings given to the encoder
    Uints,         \* integers given to the encoder
    ArrayLengths,  \* lengths of the byte arrays decoded into
    MaxAppends,    \* bound: calls of the encoder
    MaxDrops,      \* bound: errors dropped by a decoder
    Inputs         \* inputs that no encoder made

\* 0x80, 0xB7, 0xC0, 0xF7 and 0x100.
EmptyString == SingleTop
LongString == EmptyString + Short - 1
EmptyList == LongString + LongTags + 1
LongList == EmptyList + Short - 1
ByteBase == LongList + LongTags + 1
Bytes == 0..(ByteBase - 1)

ASSUME RlpAssumption ==
    /\ SingleTop \in Nat \ {0} /\ Short \in Nat \ {0, 1} /\ LongTags \in Nat \ {0}
    /\ Strings \subseteq Seq(Bytes) /\ Uints \subseteq Nat
    /\ LongTags < Short
    /\ ArrayLengths \subseteq Nat /\ MaxAppends \in Nat /\ MaxDrops \in Nat
    /\ Inputs \subseteq Seq(Bytes)

VARIABLES
    enc,     \* the encoder
    open,    \* what was appended, by list that is open: its list_pos and its content encoded
    last,    \* list_pos of the list that was closed last, if nothing was appended since
    appends,
    input,   \* what is decoded, NoInput before
    made,    \* an encoder made it
    s,       \* the stream
    got,     \* what the calls returned, encoded again, by list that is open
    failed,  \* the error that ended decoding
    refused, \* the last call was refused, and the value it was asked for is still ahead
    dropped  \* history: calls that returned a value and dropped an error on the way

vars == <<enc, open, last, appends, input, made, s, got, failed, refused, dropped>>

NoInput == <<-1>>
None == -1
-----------------------------------------------------------------------------
(* Heads and integers.                                                     *)

SizeInBytes(n) == Min({k \in 1..8 : n < ByteBase^k})
BigEndian(n) == LET k == SizeInBytes(n) IN [j \in 1..k |-> (n \div ByteBase^(k - j)) % ByteBase]
FromBigEndian(b) == FoldLeft(LAMBDA acc, d : acc * ByteBase + d, 0, b)

putint(i, tag) == <<tag + SizeInBytes(i)>> \o BigEndian(i)

headsize(size) == IF size < Short THEN 1 ELSE 1 + SizeInBytes(size)

puthead(small, large, size) == IF size < Short THEN <<small + size>> ELSE putint(size, large)

ListHeader(size) == puthead(EmptyList, LongList, size)

ToRLPString(str) ==
    IF Len(str) = 1 /\ str[1] < SingleTop THEN str
    ELSE puthead(EmptyString, LongString, Len(str)) \o str

EncUint(i) ==
    IF i = 0 THEN <<EmptyString>>
    ELSE IF i < SingleTop THEN <<i>> ELSE putint(i, EmptyString)
-----------------------------------------------------------------------------
(* Encoder.                                                                *)

NewEncoder == [str |-> <<>>, lheads |-> <<>>, lhsize |-> 0]

Size(e) == Len(e.str) + e.lhsize

ListStarted(e) ==
    [e EXCEPT !.lheads = Append(@, [strpos |-> Len(e.str), base_lhsize |-> e.lhsize,
                                    elems_size |-> 0, closed |-> FALSE])]

\* Mutant: the headers of lists before this one are counted as its elements.
ListEndedFromStart(e, list_pos) ==
    LET elems == Size(e) - e.lheads[list_pos + 1].strpos
    IN  [e EXCEPT !.lheads[list_pos + 1].elems_size = elems, !.lheads[list_pos + 1].closed = TRUE,
                  !.lhsize = @ + headsize(elems)]

ListEnded(e, list_pos) ==
    LET lh == e.lheads[list_pos + 1]
        elems == Size(e) - lh.strpos - lh.base_lhsize
    IN  [e EXCEPT !.lheads[list_pos + 1].elems_size = elems, !.lheads[list_pos + 1].closed = TRUE,
                  !.lhsize = @ + headsize(elems)]

Reverted(e, list_pos) ==
    LET lh == e.lheads[list_pos + 1]
    IN  [str |-> SubSeq(e.str, 1, lh.strpos), lheads |-> SubSeq(e.lheads, 1, list_pos),
         lhsize |-> lh.base_lhsize]

\* Flush from a list on, or (None) of everything: the bytes with the headers between them.
Flush(e, list_pos) ==
    LET from == IF list_pos = None THEN 0 ELSE list_pos
        start == IF list_pos = None THEN 0 ELSE e.lheads[list_pos + 1].strpos
        walk == FoldLeft(LAMBDA acc, lh : [out |-> acc.out \o SubSeq(e.str, acc.strpos + 1, lh.strpos)
                                                           \o ListHeader(lh.elems_size),
                                           strpos |-> lh.strpos],
                         [out |-> <<>>, strpos |-> start],
                         SubSeq(e.lheads, from + 1, Len(e.lheads)))
    IN  walk.out \o SubSeq(e.str, walk.strpos + 1, Len(e.str))

Encoding == input = NoInput
Appends == Encoding /\ appends < MaxAppends /\ appends' = appends + 1
decodeVars == <<input, made, s, got, failed, refused, dropped>>

\* The content of the innermost open list with more bytes at its end.
Extended(bytes) == [open EXCEPT ![Len(open)].content = @ \o bytes]

AppendBytes(bytes) ==
    /\ Appends
    /\ enc' = [enc EXCEPT !.str = @ \o bytes]
    /\ open' = Extended(bytes)
    /\ last' = None
    /\ UNCHANGED decodeVars

AppendString(str) == AppendBytes(ToRLPString(str))
AppendUint(i) == AppendBytes(EncUint(i))

ListStart ==
    /\ Appends
    /\ enc' = ListStarted(enc)
    /\ open' = Append(open, [list_pos |-> Len(enc.lheads), content |-> <<>>])
    /\ last' = None
    /\ UNCHANGED decodeVars

ListEnd ==
    LET top == Last(open)
        outer == Front(open)
    IN  /\ Encoding /\ Len(open) > 1
        /\ enc' = ListEnded(enc, top.list_pos)
        /\ open' = [outer EXCEPT ![Len(outer)].content =
                        @ \o ListHeader(Len(top.content)) \o top.content]
        /\ last' = top.list_pos
        /\ UNCHANGED <<appends, decodeVars>>

\* RevertToListStart, as the trie does it: the list just closed is taken back, for its
\* hash to be put in its place.
RevertToListStart ==
    LET size == Len(Flush(enc, last))
    IN  /\ Encoding /\ last # None
        /\ enc' = Reverted(enc, last)
        /\ open' = [open EXCEPT ![Len(open)].content = SubSeq(@, 1, Len(@) - size)]
        /\ last' = None
        /\ UNCHANGED <<appends, decodeVars>>
-----------------------------------------------------------------------------
(* Stream.  A call returns the stream after it, an error and a value, and  *)
(* says whether it dropped an error of a call it made.                     *)

Unknown == "unknown"   \* the kind of the next value has not been read (-1)
NoErr == ""

NewStream(bytes, limited) ==
    [pos |-> 0, remaining |-> Len(bytes), limited |-> limited, kind |-> Unknown, size |-> 0,
     byteval |-> 0, kinderr |-> NoErr, stack |-> <<>>]

Result(t, err, v) == [s |-> t, err |-> err, v |-> v, dropped |-> FALSE]

\* What is left of the innermost list.
Room(t) == Last(t.stack).size - Last(t.stack).pos

Advanced(t, n) == IF t.stack = <<>> THEN t ELSE [t EXCEPT !.stack[Len(t.stack)].pos = @ + n]

willRead(t, n) ==
    LET u == [t EXCEPT !.kind = Unknown]
        w == Advanced(u, n)
    IN  IF t.stack # <<>> /\ n > Room(t) THEN Result(u, "ErrElemTooLarge", 0)
        ELSE IF t.limited /\ n > t.remaining THEN Result(w, "ErrValueTooLarge", 0)
        ELSE Result(IF t.limited THEN [w EXCEPT !.remaining = @ - n] ELSE w, NoErr, 0)

\* The next n bytes; too few of them in the reader are an unexpected end.
readFull(t, n) ==
    LET upto == Min({t.pos + n, Len(input)})
        Read(w) == IF w.err # NoErr THEN w
                   ELSE IF upto < t.pos + n
                        THEN Result([w.s EXCEPT !.pos = upto], "ErrUnexpectedEOF", 0)
                        ELSE Result([w.s EXCEPT !.pos = upto], NoErr, SubSeq(input, t.pos + 1, upto))
    IN  Read(willRead(t, n))

readUint(t, size) ==
    LET Number(r) == IF r.err # NoErr THEN r
                     ELSE IF size > 1 /\ r.v[1] = 0 THEN Result(r.s, "ErrCanonSize", 0)
                     ELSE Result(r.s, NoErr, FromBigEndian(r.v))
    IN  IF size = 0 THEN Result([t EXCEPT !.kind = Unknown], NoErr, 0)
        ELSE Number(readFull(t, size))

\* The stream with what readKind found.
Found(t, kind, size, err) == [t EXCEPT !.kind = kind, !.size = size, !.kinderr = err]

\* The size of a long string or list: none that would have fitted a short one.
LongSize(r, kind) ==
    Found(r.s, kind, r.v, IF r.err = NoErr /\ r.v < Short THEN "ErrCanonSize" ELSE r.err)

\* The kind of value a tag begins.
Tagged(u, b) ==
    CASE b < EmptyString -> Found([u EXCEPT !.byteval = b], "Byte", 0, NoErr)
      [] b \in EmptyString..LongString -> Found(u, "String", b - EmptyString, NoErr)
      [] b \in (LongString + 1)..(EmptyList - 1) -> LongSize(readUint(u, b - LongString), "String")
      [] b \in EmptyList..LongList -> Found(u, "List", b - EmptyList, NoErr)
      [] OTHER -> LongSize(readUint(u, b - LongList), "List")

readKind(t) ==
    LET Begun(r) == IF r.err = NoErr THEN Tagged([r.s EXCEPT !.byteval = 0], r.v[1])
                    ELSE Found(r.s, "Byte", 0,
                               IF t.stack = <<>> /\ r.err \in {"ErrUnexpectedEOF", "ErrValueTooLarge"}
                               THEN "EOF" ELSE r.err)
    IN  Begun(readFull(t, 1))

\* A value larger than what contains it.
Overflows(t) == IF t.stack = <<>> THEN t.limited /\ t.size > t.remaining ELSE t.size > Room(t)

\* Kind: what was read before is kept, an error too.
Kind(t) ==
    IF t.kind # Unknown THEN Result(t, t.kinderr, 0)
    ELSE IF t.stack # <<>> /\ Room(t) = 0 THEN Result([t EXCEPT !.kinderr = NoErr], "EOL", 0)
    ELSE LET Fitting(k) == IF k.kinderr # NoErr \/ ~Overflows(k) THEN k
                           ELSE [k EXCEPT !.kinderr = IF t.stack = <<>> THEN "ErrValueTooLarge"
                                                      ELSE "ErrElemTooLarge"]
             Known(k) == Result(k, k.kinderr, 0)
         IN  Known(Fitting(readKind([t EXCEPT !.kinderr = NoErr])))

Rearmed(t) == [t EXCEPT !.kind = Unknown]

\* Mutant: the largest byte that stands for itself may have a head.
NeedsNoHeadBelow(b) == Len(b) = 1 /\ b[1] < SingleTop - 1

\* A string of one byte that should have been encoded as that byte.
NeedsNoHead(b) == Len(b) = 1 /\ b[1] < SingleTop

\* The content of a string that is read in full.
Content(t, size) ==
    LET r == readFull(t, size)
    IN  IF r.err = NoErr /\ NeedsNoHead(r.v) THEN Result(r.s, "ErrCanonSize", 0) ELSE r

\* The calls of a decoder, each given what Kind returned.
ReadBytes(k) ==
    CASE k.err # NoErr -> k
          [] k.err = NoErr /\ k.s.kind = "Byte" -> Result(Rearmed(k.s), NoErr, <<k.s.byteval>>)
          [] k.err = NoErr /\ k.s.kind = "String" -> Content(k.s, k.s.size)
          [] OTHER -> Result(k.s, "ErrExpectedString", 0)

\* Raw: the head is written anew, the content is not looked at.
ReadRaw(k) ==
    LET r == readFull(k.s, k.s.size)
        head == IF k.s.kind = "String" THEN puthead(EmptyString, LongString, k.s.size)
                ELSE ListHeader(k.s.size)
    IN  CASE k.err # NoErr -> k
          [] k.err = NoErr /\ k.s.kind = "Byte" -> Result(Rearmed(k.s), NoErr, <<k.s.byteval>>)
          [] k.err = NoErr /\ k.s.kind # "Byte" /\ r.err # NoErr -> r
          [] OTHER -> Result(r.s, NoErr, head \o r.v)

\* uint(maxbits): the integer of a string of at most so many bytes.
ReadUint(k, maxbytes) ==
    LET r == readUint(k.s, k.s.size)
    IN  CASE k.err # NoErr -> k
          [] k.err = NoErr /\ k.s.kind = "Byte" ->
                 IF k.s.byteval = 0 THEN Result(k.s, "ErrCanonInt", 0)
                 ELSE Result(Rearmed(k.s), NoErr, k.s.byteval)
          [] k.err = NoErr /\ k.s.kind = "String" ->
                 IF k.s.size > maxbytes THEN Result(k.s, "errUintOverflow", 0)
                 ELSE IF r.err = "ErrCanonSize" THEN Result(r.s, "ErrCanonInt", 0)
                 ELSE IF r.err = NoErr /\ k.s.size > 0 /\ r.v < SingleTop
                      THEN Result(r.s, "ErrCanonSize", 0) ELSE r
          [] OTHER -> Result(k.s, "ErrExpectedString", 0)

ReadBool(k) ==
    LET Bit(r) == IF r.err = NoErr /\ r.v > 1 THEN Result(r.s, "invalid boolean", 0) ELSE r
    IN  Bit(ReadUint(k, 1))

\* A big integer: a string of any length without a leading zero.
ReadBigInt(k) ==
    LET Number(r) == IF r.err = NoErr /\ r.v # <<>> /\ r.v[1] = 0
                     THEN Result(r.s, "ErrCanonInt", 0) ELSE r
    IN  Number(ReadBytes(k))

\* decodeByteArray: the error of Uint is dropped.  It refuses the byte 0 and leaves it ahead.
ReadByteArray(k, vlen) ==
    LET u == ReadUint(k, LongTags)
    IN  CASE k.err # NoErr -> k
          [] k.err = NoErr /\ k.s.kind = "Byte" ->
                 IF vlen # 1 THEN Result(k.s, "wrong length", 0)
                 ELSE [Result(u.s, NoErr, <<u.v>>) EXCEPT !.dropped = u.err # NoErr]
          [] k.err = NoErr /\ k.s.kind = "String" ->
                 IF vlen # k.s.size THEN Result(k.s, "wrong length", 0) ELSE Content(k.s, vlen)
          [] OTHER -> Result(k.s, "ErrExpectedString", 0)

\* A pointer with the tag "nil": an empty value of either kind is passed over.
ReadEmpty(k) ==
    IF k.err # NoErr THEN Result(Rearmed(k.s), k.err, 0)
        ELSE IF k.s.size = 0 /\ k.s.kind # "Byte" THEN Result(Rearmed(k.s), NoErr, k.s.kind)
        ELSE Result(k.s, "not empty", 0)

\* Stream.List and Stream.ListEnd.
EnterList(k) ==
    CASE k.err # NoErr -> k
          [] k.err = NoErr /\ k.s.kind = "List" ->
                 Result([Rearmed(k.s) EXCEPT !.stack = Append(@, [pos |-> 0, size |-> k.s.size]),
                                             !.size = 0], NoErr, 0)
          [] OTHER -> Result(k.s, "ErrExpectedList", 0)

LeaveList(t) ==
    IF t.stack = <<>> THEN Result(t, "errNotInList", 0)
    ELSE IF Room(t) # 0 THEN Result(t, "errNotAtEOL", 0)
    ELSE LET size == Last(t.stack).size
         IN  Result(Advanced([Rearmed(t) EXCEPT !.stack = Front(@), !.size = 0], size), NoErr, 0)
-----------------------------------------------------------------------------
(* Split, on a slice.                                                      *)

\* Mutant: sizes with a leading zero byte are taken.
readSizeLax(b, slen) ==
    IF slen > Len(b) THEN None
    ELSE LET size == FromBigEndian(SubSeq(b, 1, slen))
         IN  IF size < Short THEN None ELSE size

\* None for an error.
readSize(b, slen) ==
    IF slen > Len(b) THEN None
    ELSE LET size == FromBigEndian(SubSeq(b, 1, slen))
         IN  IF size < Short \/ b[1] = 0 THEN None ELSE size

\* ReadKind of a slice: kind, tag size and content size, an unknown kind for an error.
SplitKind(buf) ==
    LET b == buf[1]
        slen == IF b < EmptyList THEN b - LongString ELSE b - LongList
        of(kind, tagsize, size) == [kind |-> kind, tagsize |-> tagsize, size |-> size]
        k == CASE b < EmptyString -> of("Byte", 0, 1)
               [] b \in EmptyString..LongString ->
                      IF b = EmptyString + 1 /\ Len(buf) > 1 /\ buf[2] < SingleTop
                      THEN of(Unknown, 0, None) ELSE of("String", 1, b - EmptyString)
               [] b \in EmptyList..LongList -> of("List", 1, b - EmptyList)
               [] OTHER -> of(IF b < EmptyList THEN "String" ELSE "List", 1 + slen,
                              readSize(Tail(buf), slen))
    IN  IF buf = <<>> THEN of(Unknown, 0, None)
        ELSE IF k.size = None \/ k.size > Len(buf) - k.tagsize THEN of(Unknown, 0, None) ELSE k

Split(b) ==
    LET k == SplitKind(b)
        total == k.tagsize + k.size
    IN  IF k.kind = Unknown THEN [kind |-> Unknown, content |-> <<>>, rest |-> b]
        ELSE [kind |-> k.kind, content |-> SubSeq(b, k.tagsize + 1, total),
              rest |-> SubSeq(b, total + 1, Len(b))]
-----------------------------------------------------------------------------
(* Decoding: of what the encoder made, or of any bytes.                    *)

Start(bytes, limited) ==
    /\ input' = bytes
    /\ s' = NewStream(bytes, limited)
    /\ enc' = NewEncoder /\ open' = <<>> /\ last' = None /\ appends' = 0
    /\ got' = <<<<>>>> /\ failed' = NoErr /\ refused' = FALSE /\ dropped' = 0

DecodeEncoded ==
    /\ Encoding /\ Len(open) = 1
    /\ made' = TRUE
    /\ \E limited \in BOOLEAN : Start(Flush(enc, None), limited)

DecodeBytes ==
    /\ Encoding /\ appends = 0
    /\ made' = FALSE
    /\ \E bytes \in Inputs, limited \in BOOLEAN : Start(bytes, limited)

\* The errors that leave the value where it is: another call may follow.
Harmless == {"EOL", "ErrExpectedString", "ErrExpectedList", "errUintOverflow", "errNotInList",
             "errNotAtEOL", "wrong length", "not empty"}

\* A call returned.
Returned(r) ==
    /\ ~Encoding /\ failed = NoErr
    /\ s' = r.s
    /\ failed' = IF r.err \in Harmless THEN NoErr ELSE r.err
    /\ refused' = (r.err \in Harmless \ {"EOL"})
    /\ r.dropped => dropped < MaxDrops
    /\ dropped' = IF r.dropped THEN dropped + 1 ELSE dropped
    /\ UNCHANGED <<enc, open, last, appends, input, made>>

\* Its value, encoded, joins what the list it is in has given.
Called(r, Encode(_)) ==
    /\ Returned(r)
    /\ got' = IF r.err = NoErr THEN [got EXCEPT ![Len(got)] = @ \o Encode(r.v)] ELSE got

CallBytes == Called(ReadBytes(Kind(s)), ToRLPString)
CallRaw == Called(ReadRaw(Kind(s)), LAMBDA bytes : bytes)
CallUint == Called(ReadUint(Kind(s), LongTags), EncUint)
CallBool == Called(ReadBool(Kind(s)), EncUint)
CallBigInt == Called(ReadBigInt(Kind(s)), ToRLPString)
CallByteArray(n) == Called(ReadByteArray(Kind(s), n), ToRLPString)
CallEmpty ==
    Called(ReadEmpty(Kind(s)), LAMBDA kind : <<IF kind = "List" THEN EmptyList ELSE EmptyString>>)

CallList ==
    LET r == EnterList(Kind(s)) IN
    /\ Returned(r)
    /\ got' = IF r.err = NoErr THEN Append(got, <<>>) ELSE got

\* The end of a list is taken note of; its content joins the list around it.  The decoders
\* call ListEnd after EOL or after a value, never after a call that was refused: it would
\* drop the value whose head that call has read.
CallListEnd ==
    LET r == LeaveList(s)
        outer == Front(got)
    IN  /\ ~Encoding /\ failed = NoErr /\ ~refused
        /\ s' = r.s
        /\ got' = IF r.err # NoErr THEN got
                  ELSE [outer EXCEPT ![Len(outer)] = @ \o ListHeader(Len(Last(got))) \o Last(got)]
        /\ UNCHANGED <<enc, open, last, appends, input, made, failed, refused, dropped>>

Init ==
    /\ enc = NewEncoder /\ open = <<[list_pos |-> None, content |-> <<>>]>>
    /\ last = None /\ appends = 0
    /\ input = NoInput /\ made = FALSE
    /\ s = NewStream(<<>>, TRUE) /\ got = <<<<>>>> /\ failed = NoErr
    /\ refused = FALSE /\ dropped = 0

Next ==
    \/ \E str \in Strings : AppendString(str)
    \/ \E i \in Uints : AppendUint(i)
    \/ ListStart \/ ListEnd \/ RevertToListStart
    \/ DecodeEncoded \/ DecodeBytes
    \/ CallBytes \/ CallRaw \/ CallUint \/ CallBool \/ CallBigInt \/ CallEmpty \/ CallList \/ CallListEnd
    \/ \E n \in ArrayLengths : CallByteArray(n)

Spec == Init /\ [][Next]_vars
-----------------------------------------------------------------------------
(* Properties.                                                             *)

\* Types; the differences of unsigned numbers that Stream takes are never negative (the room
\* left in every list that is open, and what remains of the input).
TypeOK ==
    /\ enc.str \in Seq(Bytes) /\ enc.lhsize \in Nat /\ appends \in 0..MaxAppends
    /\ s.pos \in 0..Len(input) /\ s.remaining \in 0..Len(input)
    /\ \A k \in DOMAIN s.stack : s.stack[k].size \in Nat /\ s.stack[k].pos \in 0..s.stack[k].size
    /\ s.limited => s.pos + s.remaining <= Len(input) \/ Encoding

\* Encoder: the headers put between the bytes at the end give what encoding the values from
\* the inside out gives, after any nesting and reverting, and Size foretells its length.  So
\* does ToBytes for the list just closed.
EncoderExact ==
    /\ Len(open) = 1 => Flush(enc, None) = open[1].content /\ Size(enc) = Len(open[1].content)
    /\ last # None =>
         LET content == Last(open).content
             bytes == Flush(enc, last)
         IN  bytes = SubSeq(content, Len(content) - Len(bytes) + 1, Len(content))

\* Encoder is exact, and Stream takes whatever it makes: calls may ask for the wrong type of
\* value, but sizes and ends of lists are never refused.
RoundTrip ==
    /\ Encoding => EncoderExact
    /\ made => failed \in {NoErr, "EOF", "ErrCanonInt", "invalid boolean"}

\* What has been read so far, by the values the calls returned.
Reencoded ==
    FoldLeft(LAMBDA acc, k : acc \o ListHeader(s.stack[k].size) \o got[k + 1],
             got[1], [k \in 1..Len(s.stack) |-> k])

\* Stream: between two values the reader stands right behind what the calls returned, and that
\* has no other encoding than the one that was read, whatever calls were made and refused.
ReadsAsStated ==
    ~Encoding /\ failed = NoErr /\ s.kind = Unknown => Reencoded = SubSeq(input, 1, s.pos)

\* The same as long as decodeByteArray has not decoded the byte 0 into an array of length one:
\* Uint refuses that byte, its error is dropped, and the byte stays ahead to be read again.
ReadsCanonical == dropped = 0 => ReadsAsStated

\* Split and Stream agree on the first value: on its kind, on its end, and on what is refused
\* (Raw leaves it to Split to refuse a byte that has a head).
SplitAgrees ==
    ~Encoding /\ s = NewStream(input, TRUE) =>
        LET cut == Split(input)
            r == ReadRaw(Kind(s))
            rejected == r.err # NoErr \/ (Len(r.v) = 2 /\ r.v[1] = EmptyString + 1 /\ r.v[2] < SingleTop)
            size == IF cut.kind = "Byte" THEN 1 ELSE Kind(s).s.size
        IN  /\ (cut.kind = Unknown) <=> rejected
            /\ ~rejected => /\ cut.kind = Kind(s).s.kind
                            /\ cut.content = SubSeq(r.v, Len(r.v) - size + 1, Len(r.v))
                            /\ cut.rest = SubSeq(input, r.s.pos + 1, Len(input))
=============================================================================
