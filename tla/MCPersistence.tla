---------------------------- MODULE MCPersistence ----------------------------
(***************************************************************************)
(* Lines at every edge of the loader: with and without a header, a blank   *)
(* line and a carriage return; equal rows in different lines; two lines    *)
(* with one fingerprint; numbers around INT64_MAX = 17.                    *)
(***************************************************************************)
EXTENDS Snapshot

Line(names, time) == [names |-> names, time |-> time, cr |-> FALSE]

WithReturn(line) == [line EXCEPT !.cr = TRUE]

Names(user, resource) == <<user, "d", "a", resource, "LOGIN", "VN">>

Blank == Line(<< >>, << >>)
HeaderLine == Line(HeaderNames, <<NoDigit>>)

(* The largest time, the same in another spelling, and another row of the  *)
(* same user.                                                              *)
Largest == Line(Names("ann", "f"), <<1, 7>>)
LeadingZero == Line(Names("ann", "f"), <<0, 1, 7>>)
Second == Line(<<"ann", "d", "b", "f", "DOWNLOAD", "US">>, <<2>>)

(* "Ab" and "BA" have one fingerprint; a name may be that of a resource.   *)
Upper == Line(Names("Ab", "ann"), <<3>>)
Lower == Line(Names("BA", "ann"), <<3>>)

Long == Line(Names("long", "f"), <<4>>)

(* Lines that do not validate; the first has the fingerprint of Second. *)
TooLate == Line(Names("eve", "g"), <<1, 8>>)

Invalid ==
    {TooLate,
     Line(Names("eve", "g"), <<NoDigit, 5>>),
     Line(Names("eve", ""), <<5>>),
     Line(<<"eve", "d", "a", "g", "LOGIN">>, <<5>>),
     Line(<<"eve", "d", "a", "g", "LOGIN", "XX">>, <<5>>),
     Line(<<"eve", "d", "a", "g", "LOGON", "VN">>, <<5>>),
     WithReturn(Line(Names("eve", "g"), << >>))}

MCLines ==
    {Blank, WithReturn(Blank), HeaderLine, WithReturn(HeaderLine), Largest,
     WithReturn(Largest), LeadingZero, Second, Upper, Lower, Long} \cup Invalid

(* A fingerprint is called by one of the lines that have it. *)
MCFingerprint ==
    [line \in MCLines |-> CASE line = Lower   -> Upper
                            [] line = TooLate -> Second
                            [] OTHER          -> line]

MCArgumentOrders == {<<1, 2, 3, 4>>, <<4, 3, 2, 1>>}
=============================================================================
