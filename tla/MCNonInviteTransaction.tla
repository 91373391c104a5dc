----------------------- MODULE MCNonInviteTransaction -----------------------
EXTENDS NonInviteTransaction

\* One code of each class.
MCCodes == {100, 200, 404}
=============================================================================
