----------------------------- MODULE MCGateway -----------------------------
EXTENDS Gateway, TLC

CONSTANTS can, eth   \* interfaces

MCInterfaces == {can, eth}
MCScanOrder == <<can, eth>>
EthOnly == {eth}
MCQuota == can :> 2 @@ eth :> 1
=============================================================================
