------------------------------- MODULE MCSocket -------------------------------
(* A request and an answer of every layout; names of digits, contents with *)
(* zeros and digits, lists of one and two files, a negative number.       *)
EXTENDS Socket

Digits == <<49, 48>>
Name   == <<97>>
Bytes  == <<0, 49>>

MCRequests ==
    {[type |-> "OPEN",   args |-> <<Digits, 3>>],
     [type |-> "READ_N", args |-> <<-1>>],
     [type |-> "READ",   args |-> <<12>>],
     [type |-> "WRITE",  args |-> <<10, Bytes>>],
     [type |-> "WRITE",  args |-> <<0, <<>> >>],
     [type |-> "REMOVE", args |-> <<Digits>>]}

File(name, bytes) == <<name, bytes>>
OK     == [type |-> "OK", args |-> <<>>]
Error  == [type |-> "ERROR", args |-> <<11>>]
List(q) == [type |-> "OK_FILE_LIST", args |-> <<q>>]

MCResponses(r) ==
    CASE r.type = "OPEN"   -> {[type |-> "OK_FD", args |-> <<0>>], Error}
      [] r.type = "READ"   -> {[type |-> "OK_FILE", args |-> File(Name, Bytes)]}
      [] r.type = "READ_N" -> {OK, List(<<File(Digits, Digits), File(Name, Bytes)>>)}
      [] r.type = "WRITE"  -> {OK, List(<<File(Digits, <<>>)>>)}
      [] OTHER             -> {OK}
=============================================================================
