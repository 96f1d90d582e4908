-------------------------- MODULE MCHttpConnection --------------------------
\* One connection object used for two connections and two requests in all.
EXTENDS HttpConnection

=============================================================================
