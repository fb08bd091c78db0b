-------------------------------- MODULE Codec --------------------------------
(***************************************************************************)
(* The encodings of requests and responses: message/src/ (the layouts n,   *)
(* s, sn, snb, nnb, nq), socket/src/gnl_socket_request.c and               *)
(* gnl_socket_response.c (which layout each type has), and the frame of    *)
(* socket/src/gnl_socket_service.c.  Bytes are numbers.  A number is       *)
(* written in a field of MAX_DIGITS characters (10 in the code), into      *)
(* which it has to fit; nothing else delimits the parts of a message, so   *)
(* that names may hold digits and contents any byte.                       *)
(*                                                                         *)
(* number_after_length and frame_without_end are faulty forms of           *)
(* sn_from_string and frame, that the runs must tell from the real ones.   *)
(***************************************************************************)
EXTENDS Integers, Sequences

CONSTANT MAX_DIGITS

ASSUME CodecAssumption == MAX_DIGITS \in Nat \ {0}

NUL   == 0
Minus == 45
Zero  == 48

(* printf's "%0*d" and "%0*lu", and the strtol or sscanf that reads it.    *)
digits(n, width) ==
    LET quotient[i \in 0..width] == IF i = 0 THEN n ELSE quotient[i - 1] \div 10
    IN  [i \in 1..width |-> Zero + (quotient[width - i] % 10)]

field(n) == IF n >= 0 THEN digits(n, MAX_DIGITS)
            ELSE <<Minus>> \o digits(-n, MAX_DIGITS - 1)

value(bytes) ==
    LET read[i \in 0..Len(bytes)] == IF i = 0 THEN 0 ELSE 10 * read[i - 1] + (bytes[i] - Zero)
    IN  read[Len(bytes)]

Part(message, offset, n) == SubSeq(message, offset + 1, offset + n)

number(message, offset) ==
    LET f == Part(message, offset, MAX_DIGITS)
    IN  IF f[1] = Minus THEN -value(Tail(f)) ELSE value(f)

-----------------------------------------------------------------------------
(* The layouts. *)

n_to_string(n)     == field(n) \o <<NUL>>
n_from_string(m)   == number(m, 0)

s_to_string(s)     == field(Len(s)) \o s \o <<NUL>>
s_from_string(m)   == Part(m, MAX_DIGITS, number(m, 0))

sn_to_string(s, n) == field(Len(s)) \o s \o field(n) \o <<NUL>>
number_after_length(m) == <<s_from_string(m), number(m, MAX_DIGITS)>>
sn_from_string(m)  == <<s_from_string(m), number(m, MAX_DIGITS + number(m, 0))>>

nnb_to_string(n, b) == field(n) \o field(Len(b)) \o <<NUL>> \o b
nnb_from_string(m)  ==
    <<number(m, 0), Part(m, 2 * MAX_DIGITS + 1, number(m, MAX_DIGITS))>>

snb_size(s, b)      == 2 * MAX_DIGITS + Len(s) + 1 + Len(b)
snb_to_string(s, b) == field(Len(s)) \o s \o field(Len(b)) \o <<NUL>> \o b
snb_from_string(m)  ==
    LET name == s_from_string(m)
        at   == MAX_DIGITS + Len(name)
    IN  <<name, Part(m, at + MAX_DIGITS + 1, number(m, at))>>

(* What follows a file in a list. *)
next_file(m, file) == SubSeq(m, snb_size(file[1], file[2]) + 1, Len(m))

files_from(m, left) ==
    LET rest[i \in 0..left] ==
            IF i = 0 THEN m ELSE next_file(rest[i - 1], snb_from_string(rest[i - 1]))
    IN  [i \in 1..left |-> snb_from_string(rest[i - 1])]

(* An empty list has no end of string. *)
nq_to_string(q) ==
    LET written[i \in 0..Len(q)] ==
            IF i = 0 THEN field(Len(q)) ELSE written[i - 1] \o snb_to_string(q[i][1], q[i][2])
    IN  written[Len(q)]
nq_from_string(m) == files_from(SubSeq(m, MAX_DIGITS + 1, Len(m)), number(m, 0))

-----------------------------------------------------------------------------
(* Requests and responses [type, args], and the codes of their types. *)

RequestTypes  == <<"OPEN", "READ", "READ_N", "WRITE", "LOCK", "UNLOCK", "CLOSE", "REMOVE">>
ResponseTypes == <<"OK_FILE_LIST", "OK_FILE", "OK_FD", "OK", "ERROR">>

request_to_string(r) ==
    CASE r.type = "OPEN"   -> sn_to_string(r.args[1], r.args[2])
      [] r.type = "WRITE"  -> nnb_to_string(r.args[1], r.args[2])
      [] r.type = "REMOVE" -> s_to_string(r.args[1])
      [] OTHER             -> n_to_string(r.args[1])

request_from_string(m, type) ==
    [type |-> type,
     args |-> CASE type = "OPEN"   -> sn_from_string(m)
                [] type = "WRITE"  -> nnb_from_string(m)
                [] type = "REMOVE" -> <<s_from_string(m)>>
                [] OTHER           -> <<n_from_string(m)>>]

response_to_string(r) ==
    CASE r.type = "OK_FILE_LIST" -> nq_to_string(r.args[1])
      [] r.type = "OK_FILE"      -> snb_to_string(r.args[1], r.args[2])
      [] r.type = "OK"           -> <<>>
      [] OTHER                   -> n_to_string(r.args[1])

response_from_string(m, type) ==
    [type |-> type,
     args |-> CASE type = "OK_FILE_LIST" -> <<nq_from_string(m)>>
                [] type = "OK_FILE"      -> snb_from_string(m)
                [] type = "OK"           -> <<>>
                [] OTHER                 -> <<n_from_string(m)>>]

(* What can be encoded: numbers that fit into their field, and bytes.      *)
Largest(width) == value([i \in 1..width |-> Zero + 9])
Fits(n) == IF n >= 0 THEN n <= Largest(MAX_DIGITS) ELSE -n <= Largest(MAX_DIGITS - 1)

Numbers == {n \in Int : Fits(n)}
Text    == Seq(0..255)
One(S)  == [1..1 -> S]

EncodableRequests ==
    [type : {"OPEN"}, args : Text \X Numbers] \cup [type : {"WRITE"}, args : Numbers \X Text]
        \cup [type : {"REMOVE"}, args : One(Text)]
        \cup [type : {"READ", "READ_N", "LOCK", "UNLOCK", "CLOSE"}, args : One(Numbers)]

EncodableResponses ==
    [type : {"OK_FILE_LIST"}, args : One(Seq(Text \X Text))]
        \cup [type : {"OK_FILE"}, args : Text \X Text] \cup [type : {"OK"}, args : {<<>>}]
        \cup [type : {"OK_FD", "ERROR"}, args : One(Numbers)]

-----------------------------------------------------------------------------
(* The frame: type, length and an end of string, then the message. *)

PROTOCOL_SIZE == 2 * MAX_DIGITS

frame_without_end(code, message) == field(code) \o field(Len(message)) \o message

frame(code, message) == field(code) \o field(Len(message)) \o <<NUL>> \o message

type_code(types, type) == (CHOOSE i \in DOMAIN types : types[i] = type) - 1

head_type(types, head) == types[number(head, 0) + 1]
head_len(head)         == number(head, MAX_DIGITS)
=============================================================================
