------------------------------- MODULE Codec -------------------------------
(***************************************************************************)
(* The wire form of PacketHeader (loadgen/src/sandook.rs): write emits a   *)
(* u16 magic and then the fields, each little-endian with its own width;   *)
(* read checks the magic and reads the fields back in the order of the     *)
(* struct literal; read_response reads SANDOOK_HDR_SZ bytes, decodes them  *)
(* and returns req_handle - 1 and rx_tsc - tx_tsc.  Bytes are numbers in   *)
(* 0..255 and a stream is a sequence of them.  Field values stay below     *)
(* 2^31 (TLC's integers), so the u32 truncation of lba_count is not        *)
(* exercised; gen_req always sends lba_count = 1.                          *)
(***************************************************************************)
EXTENDS Naturals, Sequences, SequencesExt

ByteBase == 256

SANDOOK_HDR_SZ == 42
SANDOOK_MAGIC == SANDOOK_HDR_SZ

FieldNames == {"opcode", "req_handle", "lba", "lba_count", "tx_tsc",
               "conn_id", "rx_tsc"}

\* PacketHeader::default().
ZeroHeader == [f \in FieldNames |-> 0]

\* Variant of ToLE used to test the properties: each byte emitted as the
\* remaining value, without taking its low-order 8 bits.
RECURSIVE ToLEUnmasked(_, _)
ToLEUnmasked(v, w) ==
    IF w = 0 THEN <<>> ELSE <<v>> \o ToLEUnmasked(v \div ByteBase, w - 1)

(* write_u16/u32/u64::<LittleEndian>: the w low-order bytes of v, least   *)
(* significant first.                                                      *)
RECURSIVE ToLE(_, _)
ToLE(v, w) == IF w = 0 THEN <<>> ELSE <<v % ByteBase>> \o ToLE(v \div ByteBase, w - 1)

(* read_u16/u32/u64::<LittleEndian> of exactly the given bytes.           *)
RECURSIVE FromLE(_)
FromLE(bs) == IF bs = <<>> THEN 0 ELSE Head(bs) + ByteBase * FromLE(Tail(bs))

(* The (field, width) pairs PacketHeader::write emits after the magic.    *)
WriteOrder ==
    << <<"opcode", 2>>, <<"req_handle", 8>>, <<"lba", 8>>, <<"lba_count", 4>>,
       <<"tx_tsc", 8>>, <<"conn_id", 2>>, <<"rx_tsc", 8>> >>

(* PacketHeader::write.                                                    *)
Encode(h) ==
    ToLE(SANDOOK_MAGIC, 2)
      \o FlattenSeq([i \in DOMAIN WriteOrder |->
                        ToLE(h[WriteOrder[i][1]], WriteOrder[i][2])])

\* Variants of ReadOrder used to test the properties: two fields read in
\* the wrong order, as a reordered struct literal would.
ReadOrderLbaFirst ==
    << <<"opcode", 2>>, <<"lba", 8>>, <<"req_handle", 8>>, <<"lba_count", 4>>,
       <<"tx_tsc", 8>>, <<"conn_id", 2>>, <<"rx_tsc", 8>> >>

ReadOrderSwapped ==
    << <<"opcode", 2>>, <<"req_handle", 8>>, <<"lba", 8>>, <<"lba_count", 4>>,
       <<"conn_id", 2>>, <<"tx_tsc", 8>>, <<"rx_tsc", 8>> >>

(* The (field, width) pairs PacketHeader::read reads after the magic: the *)
(* struct literal's initialisers run in source order.                      *)
ReadOrder ==
    << <<"opcode", 2>>, <<"req_handle", 8>>, <<"lba", 8>>, <<"lba_count", 4>>,
       <<"tx_tsc", 8>>, <<"conn_id", 2>>, <<"rx_tsc", 8>> >>

\* Offset of the i-th field of ReadOrder: the magic and the fields before it.
RECURSIVE WidthBefore(_)
WidthBefore(i) == IF i = 1 THEN 2 ELSE WidthBefore(i - 1) + ReadOrder[i - 1][2]

\* The result of a decode: a status ("ok", "bad_magic", "eof") and a header.
Result(st, h) == [status |-> st, hdr |-> h]

(***************************************************************************)
(* PacketHeader::read: read_u16 the magic (an UnexpectedEof error on a     *)
(* short stream), reject a magic other than SANDOOK_MAGIC, then read the   *)
(* fields, any of which fails with UnexpectedEof if the stream ends.       *)
(***************************************************************************)
Decode(bs) ==
    IF Len(bs) < 2 THEN Result("eof", ZeroHeader)
    ELSE IF FromLE(SubSeq(bs, 1, 2)) /= SANDOOK_MAGIC
      THEN Result("bad_magic", ZeroHeader)
    ELSE IF Len(bs) < WidthBefore(Len(ReadOrder)) + ReadOrder[Len(ReadOrder)][2]
      THEN Result("eof", ZeroHeader)
    ELSE Result("ok", [f \in FieldNames |->
             LET i == CHOOSE j \in DOMAIN ReadOrder : ReadOrder[j][1] = f
             IN  FromLE(SubSeq(bs, WidthBefore(i) + 1,
                                   WidthBefore(i) + ReadOrder[i][2]))])

(***************************************************************************)
(* read_response: read_exact of SANDOOK_HDR_SZ bytes (eof on a short       *)
(* stream), decode, and return (req_handle - 1, tx_tsc, rx_tsc - tx_tsc).  *)
(* Either subtraction underflows on a default header or an unstamped       *)
(* rx_tsc; that outcome is the status "underflow".                         *)
(***************************************************************************)
ReadResponse(bs) ==
    LET d == Decode(SubSeq(bs, 1, SANDOOK_HDR_SZ))
    IN  CASE Len(bs) < SANDOOK_HDR_SZ -> Result("eof", ZeroHeader)
          [] d.status /= "ok" -> d
          [] d.hdr.req_handle = 0 \/ d.hdr.rx_tsc < d.hdr.tx_tsc ->
                 Result("underflow", d.hdr)
          [] OTHER -> d

=============================================================================
