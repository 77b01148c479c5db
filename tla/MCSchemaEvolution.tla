--------------------------- MODULE MCSchemaEvolution ---------------------------
EXTENDS SchemaEvolution
=============================================================================
