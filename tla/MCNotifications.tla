---------------------------- MODULE MCNotifications ----------------------------
(* One stream; a description is dropped, a second person is critical.        *)
(* Pushover works, the type of the other channel is unknown.                 *)
EXTENDS NotificationDispatcher

MCRules ==
    << [types |-> {"frame_described"}, atLeast |-> 0, action |-> "delete", severity |-> 0],
       [types |-> {"person_detected"}, atLeast |-> 1, action |-> "set_severity", severity |-> 4] >>
MCAnswers ==
    { [described |-> FALSE, objects |-> <<>>, summary |-> FALSE],
      [described |-> TRUE, objects |-> <<"person_detected">>, summary |-> FALSE] }
MCChannels == <<"email", "pushover">>
MCThreshold == [email |-> 3, pushover |-> 2]
=============================================================================
