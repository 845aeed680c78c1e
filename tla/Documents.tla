----------------------------- MODULE Documents -----------------------------
(***************************************************************************)
(* Documents on disk: Serializer::toFile and Parser::fromFile, one after   *)
(* the other, as test/main.cpp chains them.  A text in JSON is a sequence  *)
(* of tokens, a document in BCON or BSON a sequence of bytes.              *)
(***************************************************************************)
EXTENDS Bcon, Bson, Json

CONSTANTS
    Values,    \* the values a run saves: a sequence, since they have no common type
    Texts      \* the JSON texts a run finds on disk: a sequence

VARIABLES
    script,    \* the steps that are left: [op |-> "save" | "load", format, file]
    disk,      \* file name -> content
    held,      \* the outcome of the last load: Got(value, _), Failed or Anything
    origin     \* what the program started from, and the format it is taken through

docVars == <<script, disk, held, origin>>

SaveTo(format, file)   == [op |-> "save", format |-> format, file |-> file]
LoadFrom(format, file) == [op |-> "load", format |-> format, file |-> file]

(* testBCONParser and testBSONParser, and the same from a value in hand.   *)
Conversion(format) ==
    <<LoadFrom("JSON", "test.json"), SaveTo(format, "test.bin"),
      LoadFrom(format, "test.bin"), SaveTo("JSON", "test_out.json")>>
RoundTrip(format) == <<SaveTo(format, "test.bin"), LoadFrom(format, "test.bin")>>

NoFiles == [f \in {} |-> <<>>]

DocumentsInit ==
    \/ \E i \in DOMAIN Values, format \in {"BCON", "BSON", "JSON"} :
          /\ script = RoundTrip(format)
          /\ disk = NoFiles
          /\ held = Got(Values[i], 0)
          /\ origin = [format |-> format, read |-> held]
    \/ \E i \in DOMAIN Texts, format \in {"BCON", "BSON"} :
          /\ script = Conversion(format)
          /\ disk = [f \in {"test.json"} |-> Texts[i]]
          /\ held = Failed
          /\ origin = [format |-> format, read |-> ParseJSON(Texts[i])]

NoDocuments ==
    /\ script = <<>> /\ disk = NoFiles
    /\ held = Failed /\ origin = [format |-> "none", read |-> Failed]

Serialized(v, format) ==
    CASE format = "BCON" -> SerializeBCON(v)
      [] format = "BSON" -> SerializeDocument(v)
      [] format = "JSON" -> SerializeJSON(v)
      [] OTHER -> Refused

Parsed(content, format) ==
    CASE format = "BCON" -> ParseBCON(content, 1, FALSE)
      [] format = "BSON" -> ParseBSONDocument(content)
      [] format = "JSON" -> ParseJSON(content)
      [] OTHER -> Failed

(* Truncated before anything is written: an exception leaves what came out *)
(* before it.                                                              *)
Written(content, file, format, v) ==
    [f \in DOMAIN content \cup {file} |-> IF f = file THEN Serialized(v, format).out ELSE content[f]]

(* toFile.  An exception unwinds the conversion with what it holds; main() *)
(* logs it.                                                                *)
Save ==
    /\ script # <<>> /\ Head(script).op = "save"
    /\ held.st = "value"
    /\ disk' = Written(disk, Head(script).file, Head(script).format, held.v)
    /\ IF Serialized(held.v, Head(script).format).done
       THEN script' = Tail(script) /\ UNCHANGED held
       ELSE script' = <<>> /\ held' = Failed
    /\ UNCHANGED origin

(* fromFile.  A top-level end mark leaves the result invalid: null.        *)
Load ==
    /\ script # <<>> /\ Head(script).op = "load"
    /\ LET r == Parsed(disk[Head(script).file], Head(script).format)
       IN  /\ held' = IF r.st = "end" THEN Got(Null, r.pos) ELSE r
           /\ script' = IF r.st \in {"value", "end"} THEN Tail(script) ELSE <<>>
    /\ UNCHANGED <<disk, origin>>

DocumentsNext == Save \/ Load

-----------------------------------------------------------------------------
(* What each format keeps of a value.  The definitions below speak of the  *)
(* value only, not of how it is written.                                   *)

RECURSIVE All(_, _)
Children(v) ==
    CASE v.t = "list" -> v.elts
      [] v.t = "map" -> [i \in DOMAIN Keys(v.members) |-> v.members[Keys(v.members)[i]]]
      [] OTHER -> <<>>

All(Good(_), v) ==
    /\ Good(v)
    /\ \A i \in DOMAIN Children(v) : All(Good, Children(v)[i])

(* Keys are written as UTF-8 up to a NUL and read as Latin-1.              *)
PlainKeys(v) == v.t = "map" => \A k \in DOMAIN v.members : \A i \in DOMAIN k : k[i] \in 1 .. 127

(* Kept by BCON: what is not narrowed to a smaller integer that reads back *)
(* as another type, and strings of the short form.  Data becomes a string. *)
BconKeeps(v) ==
    CASE v.t = "int" -> ~(v.num[4] = 128 /\ v.num[3] = 0 /\ v.num[2] < 128)
      [] v.t = "uint" -> v.num[3] > 0 \/ v.num[4] > 0
      [] v.t \in {"char", "data", "foreign"} -> FALSE
      [] v.t = "string" -> Len(Local8Bit(v.str)) < 64
      [] OTHER -> PlainKeys(v)

(* Kept by BSON: 32-bit signed integers, and no data but empty ones.       *)
BsonKeeps(v) ==
    CASE v.t \in {"uint", "char", "llong", "ullong", "foreign"} -> FALSE
      [] v.t = "data" -> v.bytes = <<>>
      [] OTHER -> PlainKeys(v)

(* Kept by JSON: non-negative ints, other long longs, doubles that print   *)
(* exactly and with a point, strings without characters beyond ASCII.      *)
JsonKeeps(v) ==
    CASE v.t = "int" -> v.num[4] < 128
      [] v.t = "llong" -> v.num[4] >= 128 \/ \E i \in 5 .. 8 : v.num[i] > 0
      [] v.t \in {"uint", "ullong", "char", "data", "datetime", "foreign"} -> FALSE
      [] v.t = "double" -> PrintedDouble(v.num) = [form |-> "float", to |-> v.num]
      [] v.t = "string" -> IsAscii(v.str)
      [] v.t = "map" -> \A k \in DOMAIN v.members : IsAscii(k)
      [] OTHER -> TRUE

(* The program has taken a value through the format and back.              *)
Reloaded(format) == script = <<>> /\ origin.format = format /\ origin.read.st = "value"
Same == held.st = "value" /\ held.v = origin.read.v

(* A value comes back from BCON as it was exactly if every part of it is   *)
(* one that BCON keeps (serializeBCON against parseBCON).  This says what  *)
(* the code does; what BCON.md promises beyond it is LengthsReadBack.      *)
BconReload == Reloaded("BCON") => (Same <=> All(BconKeeps, origin.read.v))

(* The same for BSON, whose documents come back as maps (serializeBSON...  *)
(* against parseBSON...).                                                  *)
BsonReload == Reloaded("BSON") => (Same <=> origin.read.v.t = "map" /\ All(BsonKeeps, origin.read.v))

(* The same for JSON (serializeJSON against core/jsonparser).              *)
JsonReload == Reloaded("JSON") => (Same <=> All(JsonKeeps, origin.read.v))

(* BCON.md: "TDATA6: data from 0 to 2^6-1 (63) bytes (the length is coded  *)
(* on bits 0-5)", "TSTRING12: string from 2^6 (64) to 2^12-1 (4095)        *)
(* characters (the length is coded on bits 0-3 and the following byte)":   *)
(* data of fewer than 64 bytes and strings of any length come back         *)
(* (serializeBCON against parseBCON).                                      *)
LengthsReadBack ==
    /\ Reloaded("BCON")
    /\ \/ origin.read.v.t = "string"
       \/ origin.read.v.t = "data" /\ Len(origin.read.v.bytes) < 64
    => Same
=============================================================================
