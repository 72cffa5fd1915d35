----------------------------- MODULE MCBringUp -----------------------------
(* TLC instance of BringUp: see the cfg for the sizes.                     *)
EXTENDS BringUp, TLC

CONSTANTS p1, p2

TwoInvocations == {p1, p2}

Plain == [command |-> "run", profile |-> "discovery", debug |-> NoPort,
          address |-> "none", bridge |-> {}, blank |-> {}, legible |-> TRUE, panel |-> "none", via |-> "none", found |-> TRUE]
Remote(given) == [Plain EXCEPT !.address = "good", !.bridge = given]
Panel(via) == [Plain EXCEPT !.panel = "known", !.via = via]

\* One for every way to mosquitto.conf, and every way out.
ConfOptions == {
  [Plain EXCEPT !.profile = "open"],
  [Plain EXCEPT !.profile = "strict", !.debug = 1883],
  [Plain EXCEPT !.debug = 1883],
  [Plain EXCEPT !.command = "broker", !.profile = "open", !.found = FALSE],
  [Plain EXCEPT !.command = "advertise"],
  [Plain EXCEPT !.bridge = {"password"}, !.legible = FALSE],
  Panel("good"),
  Remote({"certfile", "keyfile"}),
  [Remote(BridgeOptions) EXCEPT !.command = "broker"],
  [Remote(BridgeOptions) EXCEPT !.blank = {"username"}],
  [Remote({"username", "password"}) EXCEPT !.blank = {"password"}]
}

\* One for every way to the panel's CA, and past it.
CaOptions == {
  Panel("none"), Panel("bad"),
  [Panel("good") EXCEPT !.profile = "open"],
  [Panel("none") EXCEPT !.command = "no-run"]
}

SomeOptions == ConfOptions \cup CaOptions

\* Two that overlap on mosquitto.conf, or two that overlap on the panel's CA.
ConfOrCaPairs == [Invocations -> ConfOptions] \cup [Invocations -> CaOptions]

Symmetry == Permutations(Invocations)
=============================================================================
