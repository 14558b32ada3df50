SPECIFICATION FairSpec
CONSTANTS
    admin = admin
    Users = {u1, u2}
    Grantable = {admin}
    Invitations = {i1}
    InvitedRole <- MCInvitedRole
    Requests = {r1, r2}
    Nobody = Nobody
INVARIANT TypeOK
INVARIANT InvitationUsedOnce
PROPERTY LastOwnerLostOnlyToARace
PROPERTY AccessCatchesUp
