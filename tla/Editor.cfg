SPECIFICATION EditorSpec
CONSTANTS
    Key = {"k"}
    Val = {"x"}
    RowId = {0, 1, 2}
    Text = {"", "a"}
    Contents <- MCContents
    Asked = {"k", "vlans"}
    MaxVars = 1
    MaxRows = 2
    MaxEdits = 2
    MaxSaves = 1
INVARIANTS
    EditorTypeOK
    UniformSetRendered
    
    ReopenShowsTheSame
PROPERTIES
    DiscoveryKeepsInput
