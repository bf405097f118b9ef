----------------------------- MODULE ActaStream -----------------------------
(***************************************************************************)
(* One stored stream as a reader meets it: bytes of any origin, under a    *)
(* checksum that only says they are the ones somebody stored.  The bytes   *)
(* are laid down one at a time, and every decoder is asked about every     *)
(* prefix with every element count and type.                               *)
(***************************************************************************)
EXTENDS ActaTransform

CONSTANTS
    StreamBytes,                    \* bound: the bytes a stream is made of
    MaxStreamBytes, MaxElements

ASSUME StreamBoundsAssumption ==
    /\ StreamBytes \subseteq Bytes /\ {MaxStreamBytes, MaxElements} \subseteq Nat
    /\ MaxElements < 2^(ByteBits * CountBytes)  \* row and dense counts are uint32

VARIABLE stream

Types == [width : {1, WordBytes}, signed : BOOLEAN]
Counts == 0..MaxElements
IntegerTransforms == {"raw", "bit_packed", "frame_of_reference", "delta", "delta_of_delta"}
BooleanTransforms == {"raw", "bit_packed", "boolean_rle"}

StreamInit == stream = <<>>

StoreByte ==
    /\ Len(stream) < MaxStreamBytes
    /\ \E byte \in StreamBytes : stream' = Append(stream, byte)

StreamSpec == StreamInit /\ [][StoreByte]_stream

-----------------------------------------------------------------------------
\* What a decoder accepts is exactly as many values as the descriptor declares,
\* each one a value of the column's type, and every difference between adjacent
\* values of a delta or delta-of-delta stream is an int64, also where the type's
\* own range is wider (narrowed, the length checks of every decoder and the
\* i64::try_from of every intermediate delta in codec/transform.rs).
AcceptedFitsTheColumn ==
    \A count \in Counts :
        /\ \A type \in Types, transform \in IntegerTransforms :
              LET result == integer(stream, count, type, transform)
              IN  result.ok =>
                      /\ Len(result.values) = count
                      /\ ToSet(result.values) \subseteq Values(type)
                      /\ transform \in {"delta", "delta_of_delta"} =>
                            ToSet(adjacent_deltas(result.values)) \subseteq Int64
        /\ \A transform \in BooleanTransforms :
              LET result == booleans(stream, count, transform)
              IN  result.ok => Len(result.values) = count

\* A stream of integers laid down for some values at the bit width and base that
\* this one names.
Relaid(values, type, transform) ==
    LET word == IF transform = "delta_of_delta" THEN type.width + WordBytes ELSE type.width
        bits == stream[word + 1]
        base == read_integer(SubSeq(stream, 1, type.width), type.signed)
    IN  CASE transform = "raw"                -> raw_bytes(values, type)
          [] transform = "bit_packed"         -> pack_from(stream[1], values)
          [] transform = "frame_of_reference" -> frame_of_reference_bytes(base, bits, values, type)
          [] transform = "delta"              -> delta_bytes(bits, values, type)
          [] transform = "delta_of_delta"     -> delta_of_delta_bytes(bits, values, type)

\* The bytes a decoder accepts are the ones the writer lays down for the values
\* it returns at the bit width and base the bytes name: no second stream of that
\* shape stands for the same values (the padding, length and width checks).  A
\* run-length stream stands for the same values as the one the writer would lay
\* down for them, and as the raw bitmap of them.
AcceptedIsCanonical ==
    /\ \A count \in Counts, type \in Types, transform \in IntegerTransforms :
          LET result == integer(stream, count, type, transform)
          IN  result.ok =>
                  IF count = 0 /\ transform \in {"frame_of_reference", "delta"}
                  THEN stream = <<>>
                  ELSE stream = Relaid(result.values, type, transform)
    /\ \A count \in Counts :
          LET runs == booleans(stream, count, "boolean_rle")
          IN  runs.ok =>
                  /\ booleans(boolean_rle(runs.values), count, "boolean_rle") = runs
                  /\ booleans(pack_booleans(runs.values), count, "raw") = runs
=============================================================================
