--------------------------- MODULE MCOmxCommands ---------------------------
(* Small instances of OmxCommands for TLC: what omxcam asks of the encoder *)
(* to show two pictures.                                                   *)
EXTENDS OmxCommands

Asks(e) == [owes |-> {e}, wait |-> e]

\* component_init of ports 200 and 201, Idle, both ports, Executing, two
\* pictures, Idle, both ports, Loaded.  Going to Executing the encoder also
\* reports PORT_SETTINGS_CHANGED, which is waited for next (video.c:55-59).
EncoderProgram ==
  << Asks("PORT_DISABLE"), Asks("PORT_DISABLE"), Asks("STATE_SET"),
     Asks("PORT_ENABLE"), Asks("PORT_ENABLE"),
     [owes |-> {"STATE_SET", "PORT_SETTINGS_CHANGED"}, wait |-> "STATE_SET"],
     [owes |-> {}, wait |-> "PORT_SETTINGS_CHANGED"],
     Asks("FILL_BUFFER_DONE"), Asks("FILL_BUFFER_DONE"), Asks("STATE_SET"),
     Asks("PORT_DISABLE"), Asks("PORT_DISABLE"), Asks("STATE_SET") >>

\* The part of it from the enabled ports to the first picture.
ShortProgram == SubSeq(EncoderProgram, 4, 8)

AnyEvent == {"PARAM_OR_CONFIG_CHANGED", "STATE_SET"}
Both == {"error", "spurious"}
=============================================================================
