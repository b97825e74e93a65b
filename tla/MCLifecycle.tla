----------------------------- MODULE MCLifecycle -----------------------------
(***************************************************************************)
(* A small instance of Lifecycle for TLC: one address, two secrets.        *)
(***************************************************************************)
EXTENDS Lifecycle

CONSTANTS s1, s2, addr
OneAddr == {addr}
TwoSecrets == {s1, s2}
Users == {"scan", "request", "search"}

C(listen, sec, settings) ==
    [listen |-> listen, secret |-> sec, settings |-> settings]
Sent == {DefaultAppConfig, C(addr, s1, "default"), C(Off, Empty, "unknown")}
Saved == {C(addr, s2, "inline"), C(addr, Malformed, "default"),
          C(Off, Empty, "inline")}
=============================================================================
