----------------------------- MODULE MCNotices -----------------------------
(* Notices for TLC: an SMS alone, and one after a message of the site.      *)
EXTENDS Notices

DefaultTemplates == {<<"sms">>, <<"site", "sms">>}
=============================================================================
