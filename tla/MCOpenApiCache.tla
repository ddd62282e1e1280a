--------------------------- MODULE MCOpenApiCache ---------------------------
EXTENDS OpenApiCache, TLC
=============================================================================
