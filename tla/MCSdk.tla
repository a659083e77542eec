------------------------------- MODULE MCSdk -------------------------------
EXTENDS Sdk

\* Each kind of event between plain ones, and one that can never be stored
\* before one that is invalid.
MixedPayloads ==
  {<<"plain", "plain", "invalid", "plain">>,
   <<"plain", "plain", "unencodable", "plain">>,
   <<"plain", "unstorable", "plain", "plain">>,
   <<"plain", "unstorable", "invalid", "plain">>}
=============================================================================
