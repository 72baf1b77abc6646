------------------------------ MODULE MCOAuth ------------------------------
EXTENDS OAuthStore

CONSTANTS s1, s2

\* GitHub's tokens come without a refresh token; the store does not rely on it.
GitHubTokens ==
    LET end == CHOOSE t \in Times : t # 0 IN
    {[access |-> s1, refresh |-> None, at |-> end],
     [access |-> s2, refresh |-> s1, at |-> end]}
=============================================================================
