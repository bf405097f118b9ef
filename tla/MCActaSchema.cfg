SPECIFICATION SchemaSpec
CONSTANTS
    DescriptorSize = 8
    Alignment = 4
    MaxSchemaColumns = 2
    MaxFieldLength = 8
    MaxPayloadLength = 40
    Word = 32
    Utf8Limit = 24
    Schemas <- MCSchemas
    Cells = {0, 1, 2, 4, 8, 12, 13, 15, 16, 17, 18, 20, 24, 31}
    MaxAlterations <- MCMaxAlterations
INVARIANTS
    SchemasSurvive
    AcceptedSchemaReopens
CHECK_DEADLOCK FALSE
