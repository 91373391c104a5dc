------------------------- MODULE MCInviteTransaction -------------------------
EXTENDS InviteTransaction

\* One code of each class, and a second refusal.
MCCodes == {180, 200, 486, 603}
=============================================================================
