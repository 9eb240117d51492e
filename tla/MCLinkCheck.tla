---------------------------- MODULE MCLinkCheck ----------------------------
(* Instance of LinkCheck for TLC, also used by MCParts.                     *)
EXTENDS LinkCheck

\* Links that are not public, answer, move, are gone, fail after HEAD, or are refused.
MCAnswer(public, head, get, moved, refused) ==
  [public |-> public, head |-> head, get |-> get, moved |-> moved, refused |-> refused]
MCReplies ==
  {MCAnswer(FALSE, 0, 0, FALSE, FALSE), MCAnswer(TRUE, 200, 0, TRUE, FALSE), MCAnswer(TRUE, 405, 404, FALSE, FALSE),
   MCAnswer(TRUE, 0, 0, FALSE, FALSE), MCAnswer(TRUE, 200, 0, FALSE, TRUE)}
=============================================================================
