--------------------------- MODULE MCHostProgram ---------------------------
(***************************************************************************)
(* Three primes, three channels, two bursts of two words for a polynomial. *)
(* main, and programs that use the parser in other ways: with a toggle, a  *)
(* default key, a default key that is a toggle, a default key named with   *)
(* one dash, calls that are refused, a switch without a shortcut. Every    *)
(* command line of up to four arguments.                                   *)
(***************************************************************************)
EXTENDS HostProgram, TLC

TextsValue == {"", "host", "xclbin", "x", "device_id", "d", "h", "kernel", "0"}

Xclbin   == Switch(Long("xclbin"), Short("x"), TRUE, Empty, FALSE)
ToggleX  == Switch(Long("xclbin"), Short("x"), TRUE, Empty, TRUE)
Dashes3  == Switch(<<3, "x">>, Short("d"), TRUE, Empty, FALSE)
DeviceId == Switch(Long("device_id"), Short("d"), TRUE, Text("0"), FALSE)

ClientsValue ==
  [main    |-> MainCalls,
   toggle  |-> <<ToggleX, DeviceId, DefaultKey(Text("device_id"))>>,
   default |-> <<Switch(Long("xclbin"), Empty, TRUE, Empty, FALSE), DefaultKey(Text("xclbin"))>>,
   bool    |-> <<ToggleX, DefaultKey(Long("xclbin")), DeviceId, DefaultKey(Long("device_id"))>>,
   onedash |-> <<Xclbin, DefaultKey(Text("xclbin")), Dashes3, DefaultKey(Short("x")), DefaultKey(Short("xclbin"))>>,
   refused |-> <<Switch(Long("device_id"), Short("d"), FALSE, Empty, FALSE), Switch(Long(""), Short("d"), TRUE, Empty, FALSE),
                 Xclbin, ToggleX, DefaultKey(Text("device_id")), Switch(Text("device_id"), Short("x"), TRUE, Empty, FALSE)>>]

Tokens == {Long("xclbin"), Short("x"), Long("device_id"), Short("d"), <<3, "x">>, Short("h"), Text("kernel"), Text("0")}
ArgvsValue == {<<Text("host")>> \o a : a \in UNION {[1 .. n -> Tokens] : n \in 0 .. 4}}

DisksValue == {<<>>, <<"ct_2", 1>> :> 5, <<"rlk_0", 3>> :> Missing, (<<"rlk_1", 10>> :> 0) @@ (<<"rlk_1", 11>> :> Missing)}
=============================================================================
