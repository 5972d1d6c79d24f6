---- MODULE AcnRlp ----
(***************************************************************************)
(* ACN root layer PDUs (src/etcpal/acn_rlp.c, acn_pdu.c): a block of PDUs  *)
(* is packed, sent in a datagram or on a stream, and parsed again.  A PDU  *)
(* leaves out what it has in common with the one before it.                *)
(*                                                                         *)
(* What is packed is kept PDU by PDU, each with its place and size in      *)
(* bytes; vectors, CIDs and contents of data are values.                   *)
(***************************************************************************)
EXTENDS Naturals, Sequences

CONSTANTS Vectors,
          LongVectors,  \* those of PROT_MANDATES_L_FLAG
          Cids,
          Datas,        \* data segments, [len, bytes]
          MaxPdus,      \* a bound for TLC
          None          \* left out

VARIABLES block,     \* the PDUs to send
          packer,    \* the function that packs: "block" or "header"
          packed,    \* what is in the buffer, PDU by PDU
          used,      \* cur_ptr - buf
          buflen,    \* what the receiver was given, None before that
          parser,    \* the function that parses: "block" or "header"
          last,      \* the parser's state, None before the first PDU
          parsed,    \* what the parser has returned
          over       \* the parser has returned false

vars == <<block, packer, packed, used, buflen, parser, last, parsed, over>>

VECTOR_SIZE == 4
HEADER_SIZE == 16
PREAMBLE_SIZE == 16

Pdus == [vector : Vectors, cid : Cids, data : Datas]

\* The most that the length field says, with its 12 or 20 bits
SHORT_MOST == 4095
LONG_MOST == 1048575
MaxLength(ext) == IF ext THEN LONG_MOST ELSE SHORT_MOST

\* The longer field has room for the longest data.
AcnAssumption ==
  /\ LongVectors \subseteq Vectors
  /\ \A d \in Datas : d = [len |-> d.len, bytes |-> d.bytes] /\ d.len \in Nat
                       /\ d.len + 3 + VECTOR_SIZE + HEADER_SIZE <= LONG_MOST
  /\ None \notin Vectors /\ None \notin Cids /\ None \notin Datas
  /\ None \notin Nat /\ None \notin [pdu : Pdus, next : Nat]
  /\ MaxPdus \in Nat

Init ==
  /\ block \in UNION {[1 .. n -> Pdus] : n \in 1 .. MaxPdus}
  /\ packer \in {"block", "header"}
  /\ parser \in {"block", "header"}
  /\ packed = << >> /\ used = 0 /\ buflen = None
  /\ last = None /\ parsed = << >> /\ over = FALSE

----
(***************************************************************************)
(* Packing.                                                                *)
(***************************************************************************)
\* RLP_EXTENDED_LENGTH, of a PDU that inherits its vector, its header
EXTENDED_LENGTH(vector, header, data_len) ==
  data_len + (IF vector THEN 0 ELSE VECTOR_SIZE) + (IF header THEN 0 ELSE HEADER_SIZE) > 4095

\* The size of a PDU that inherits nothing
WholeSize(p) ==
  p.data.len + (IF p.vector \in LongVectors \/ EXTENDED_LENGTH(FALSE, FALSE, p.data.len)
                THEN 23 ELSE 22)

\* acn_root_layer_buf_size, of each number of PDUs: nothing is inherited.
buf_size(pdus) ==
  LET upto[n \in Nat] == IF n = 0 THEN 0 ELSE upto[n - 1] + WholeSize(pdus[n]) IN upto

NoInheritance == [vector |-> FALSE, header |-> FALSE, data |-> FALSE]

CompareWithFirst(i) ==
  IF i = 1 THEN NoInheritance
  ELSE [vector |-> block[i].vector = block[1].vector,
        header |-> block[i].cid = block[1].cid,
        data |-> block[i].data = block[1].data]

\* evaluate_pdu_inheritance: what PDU i has in common with the one before
Inheritance(i) ==
  IF i = 1 THEN NoInheritance
  ELSE [vector |-> block[i].vector = block[i - 1].vector,
        header |-> block[i].cid = block[i - 1].cid,
        data |-> block[i].data = block[i - 1].data]

\* The flags, the length field with its 12 or 20 bits, and what follows them
Encoded(at, p, inherit) ==
  LET data_len == IF inherit.data THEN 0 ELSE p.data.len
      ext == p.vector \in LongVectors \/ EXTENDED_LENGTH(inherit.vector, inherit.header, data_len)
      size == (IF ext THEN 3 ELSE 2) + (IF inherit.vector THEN 0 ELSE VECTOR_SIZE)
                + (IF inherit.header THEN 0 ELSE HEADER_SIZE) + data_len
  IN [at |-> at, size |-> size, ext |-> ext, length |-> size % (MaxLength(ext) + 1),
      vector |-> IF inherit.vector THEN None ELSE p.vector,
      cid |-> IF inherit.header THEN None ELSE p.cid,
      data |-> IF inherit.data THEN None ELSE p.data]

Pack(inherit) ==
  LET pdu == Encoded(used, block[Len(packed) + 1], inherit) IN
  /\ packed' = Append(packed, pdu)
  /\ used' = used + pdu.size
  /\ UNCHANGED <<block, packer, buflen, parser, last, parsed, over>>

\* acn_pack_root_layer_block
PackBlock ==
  /\ packer = "block" /\ Len(packed) < Len(block)
  /\ Pack(Inheritance(Len(packed) + 1))

\* acn_pack_root_layer_header; the caller sends the data after the header.
PackHeader ==
  /\ packer = "header" /\ Len(packed) < Len(block)
  /\ Pack(NoInheritance)

----
(***************************************************************************)
(* The preambles carry the length of the block: a stream's says it, a      *)
(* datagram's is what is left of the datagram, which may be cut short.     *)
(***************************************************************************)
Packed == Len(packed) = Len(block) /\ buflen = None

SendOnStream ==
  /\ Packed /\ buflen' = used
  /\ UNCHANGED <<block, packer, packed, used, parser, last, parsed, over>>

SendDatagram ==
  /\ Packed /\ parser = "block"
  /\ \E datagram_len \in {PREAMBLE_SIZE + used, PREAMBLE_SIZE + used - 1} :
       /\ datagram_len > PREAMBLE_SIZE
       /\ buflen' = datagram_len - PREAMBLE_SIZE
  /\ UNCHANGED <<block, packer, packed, used, parser, last, parsed, over>>

----
(***************************************************************************)
(* Parsing.                                                                *)
(***************************************************************************)
this_pdu == IF last = None THEN 0 ELSE last.next

\* The PDU that was packed at this place
Here == CHOOSE i \in DOMAIN packed : packed[i].at = this_pdu

LengthSize(e) == IF e.ext THEN 3 ELSE 2

MinLength(e) ==
  LengthSize(e) + (IF e.vector = None THEN 0 ELSE VECTOR_SIZE)
    + (IF e.cid = None THEN 0 ELSE HEADER_SIZE)

\* The data as the length field has it
DataOf(e) == [e.data EXCEPT !.len = e.length - MinLength(e)]

\* What this PDU says, and what the last one said where this is silent
Filled(e) ==
  [vector |-> IF e.vector = None THEN last.pdu.vector ELSE e.vector,
   cid |-> IF e.cid = None THEN last.pdu.cid ELSE e.cid,
   data |-> IF e.data = None THEN last.pdu.data ELSE DataOf(e)]

Inherits(e) == e.vector = None \/ e.cid = None \/ e.data = None

\* There must be something behind the length.
LengthIsThere(e) == this_pdu + LengthSize(e) < buflen

Accepted(e) ==
  /\ LengthIsThere(e)
  /\ Inherits(e) => last # None
  /\ e.length >= MinLength(e)
  /\ this_pdu + e.length <= buflen

Return(e, next) ==
  /\ last' = [pdu |-> Filled(e), next |-> next]
  /\ parsed' = Append(parsed, Filled(e))
  /\ UNCHANGED <<block, packer, packed, used, buflen, parser, over>>

Parsing == buflen # None /\ ~over /\ this_pdu < buflen

\* acn_parse_root_layer_pdu, acn_parse_pdu
ParsePdu ==
  LET e == packed[Here] IN
  /\ Parsing /\ parser = "block" /\ Accepted(e)
  /\ Return(e, this_pdu + MinLength(e) + (IF e.data = None THEN 0 ELSE DataOf(e).len))

HeaderAccepted(e) ==
  /\ LengthIsThere(e)
  /\ Inherits(e) => last # None
  /\ e.length >= MinLength(e)
  /\ e.vector \in LongVectors => e.ext

\* acn_parse_root_layer_header; the caller then skips the length it found.
ParseHeader ==
  LET e == packed[Here] IN
  /\ Parsing /\ parser = "header" /\ HeaderAccepted(e)
  /\ Return(e, this_pdu + e.length)

ParseFails ==
  /\ buflen # None /\ ~over
  /\ Parsing => ~(IF parser = "block" THEN Accepted(packed[Here]) ELSE HeaderAccepted(packed[Here]))
  /\ over' = TRUE
  /\ UNCHANGED <<block, packer, packed, used, buflen, parser, last, parsed>>

Done == over /\ UNCHANGED vars

Next ==
  \/ PackBlock \/ PackHeader \/ SendOnStream \/ SendDatagram
  \/ ParsePdu \/ ParseHeader \/ ParseFails \/ Done

Spec == Init /\ [][Next]_vars

----
\* Where PDU i ends
EndOf(i) == packed[i].at + packed[i].size

\* The PDUs that came whole
Received == {i \in DOMAIN packed : EndOf(i) <= buflen}

\* The two blocks that do not come back as they were: one with a PDU of 4094 or 4095
\* bytes behind a short length, which has room for 4095 in all, and one whose last PDU
\* has nothing but its length, because the rest is inherited or empty.
Unrepresentable ==
  \/ \E i \in DOMAIN packed : packed[i].size > MaxLength(packed[i].ext)
  \/ LET e == packed[Len(packed)] IN e.size = LengthSize(e)

\* acn_rlp.c:360 -- the block fits the buffer that acn_root_layer_buf_size asks for, and
\* what is parsed is what was packed, in order, with everything inherited from the right
\* PDU; all of it, but for those two and for what did not arrive.
BlockRoundTrips ==
  /\ used <= buf_size(block)[Len(block)]
  /\ Len(parsed) <= Len(block) /\ parsed = SubSeq(block, 1, Len(parsed))
  /\ over /\ ~Unrepresentable => DOMAIN parsed = Received

----
(***************************************************************************)
(* The inductive invariant.                                                *)
(***************************************************************************)
\* What the packer leaves out of PDU i
LeftOut(i) == IF packer = "block" THEN Inheritance(i) ELSE NoInheritance

\* Every variable has its type.
TypeOK ==
  /\ block \in Seq(Pdus) /\ block # << >>
  /\ {packer, parser} \subseteq {"block", "header"}
  /\ packed \in Seq([at : Nat, size : Nat, ext : BOOLEAN, length : Nat,
                     vector : Vectors \cup {None}, cid : Cids \cup {None},
                     data : Datas \cup {None}])
  /\ used \in Nat /\ buflen \in Nat \cup {None}
  /\ last \in [pdu : Pdus, next : Nat] \cup {None} /\ parsed \in Seq(Pdus)
  /\ over \in BOOLEAN

\* Each PDU is packed as it should be, right behind the one before.
PackedInOrder ==
  /\ Len(packed) <= Len(block)
  /\ \A i \in DOMAIN packed : packed[i] = Encoded(packed[i].at, block[i], LeftOut(i))
  /\ \A i \in DOMAIN packed : packed[i].at = IF i = 1 THEN 0 ELSE EndOf(i - 1)
  /\ \A i, j \in DOMAIN packed : i < j => EndOf(i) <= packed[j].at
  /\ \A i \in DOMAIN packed : EndOf(i) <= used
  /\ used = IF packed = << >> THEN 0 ELSE EndOf(Len(packed))
  /\ used <= buf_size(block)[Len(packed)]

\* The receiver is given the whole block, but for the last byte of a datagram.
SentWhole ==
  IF buflen = None THEN parsed = << >> /\ ~over
  ELSE /\ Len(packed) = Len(block)
       /\ buflen = used \/ (parser = "block" /\ buflen = used - 1)

\* The parser has read so many PDUs and stands at the end of the last of them.
ParsedInOrder ==
  /\ Len(parsed) <= Len(packed) /\ parsed = SubSeq(block, 1, Len(parsed))
  /\ last = IF parsed = << >> THEN None
            ELSE [pdu |-> block[Len(parsed)], next |-> EndOf(Len(parsed))]
  /\ \A i \in DOMAIN parsed : EndOf(i) <= buflen

AcnInv ==
  /\ TypeOK /\ PackedInOrder /\ SentWhole /\ ParsedInOrder
  /\ over /\ ~Unrepresentable => DOMAIN parsed = Received

\* acn_pdu.h:130 calls the short form that of "an ACN PDU which has a length less than
\* 4096", and acn_rlp.c:221 gives "true (PDU was parsed successfully) or false (parse
\* error or no more PDUs in the block)": each block comes back whole.
EveryBlockRoundTrips == over => DOMAIN parsed = Received
====
