-------------------------------- MODULE Apis --------------------------------
(***************************************************************************)
(* The tables every request is judged by: what the schemas define, what    *)
(* ApiVersions advertises, and which messages the dispatcher decodes and   *)
(* answers with.                                                           *)
(***************************************************************************)
EXTENDS MessagesData, MessagesGroups, MessagesShare, MessagesTxn, MessagesAdmin

\* <<key, first version, last version, first flexible version>>
SCHEMA_APIS == {
    <<0, 3, 13, 9>>, <<1, 4, 18, 12>>, <<2, 1, 11, 6>>, <<3, 0, 13, 9>>, <<8, 2, 10, 8>>,
    <<9, 1, 10, 6>>, <<10, 0, 6, 3>>, <<11, 0, 9, 6>>, <<12, 0, 4, 4>>, <<13, 0, 5, 4>>,
    <<14, 0, 5, 4>>, <<15, 0, 6, 5>>, <<16, 0, 5, 3>>, <<17, 0, 1, Forever>>, <<18, 0, 4, 3>>,
    <<19, 2, 7, 5>>, <<20, 1, 6, 4>>, <<21, 0, 2, 2>>, <<22, 0, 6, 2>>, <<23, 2, 4, 4>>,
    <<24, 0, 5, 3>>, <<25, 0, 4, 3>>, <<26, 0, 5, 3>>, <<27, 1, 2, 1>>, <<28, 0, 5, 3>>,
    <<29, 1, 3, 2>>, <<30, 1, 3, 2>>, <<31, 1, 3, 2>>, <<32, 1, 4, 4>>, <<33, 0, 2, 2>>,
    <<34, 1, 2, 2>>, <<35, 1, 5, 2>>, <<36, 0, 2, 2>>, <<37, 0, 3, 2>>, <<38, 1, 3, 2>>,
    <<39, 1, 2, 2>>, <<40, 1, 2, 2>>, <<41, 1, 3, 2>>, <<42, 0, 2, 2>>, <<43, 0, 2, 2>>,
    <<44, 0, 1, 1>>, <<45, 0, 1, 0>>, <<46, 0, 0, 0>>, <<47, 0, 0, Forever>>, <<48, 0, 1, 1>>,
    <<49, 0, 1, 1>>, <<50, 0, 0, 0>>, <<51, 0, 0, 0>>, <<52, 0, 2, 0>>, <<53, 0, 1, 1>>,
    <<54, 0, 1, 1>>, <<55, 0, 2, 0>>, <<56, 2, 3, 0>>, <<57, 0, 2, 0>>, <<58, 0, 0, 0>>,
    <<59, 0, 1, 0>>, <<60, 0, 2, 0>>, <<61, 0, 0, 0>>, <<62, 0, 4, 0>>, <<63, 0, 2, 0>>,
    <<64, 0, 0, 0>>, <<65, 0, 0, 0>>, <<66, 0, 2, 0>>, <<67, 0, 0, 0>>, <<68, 0, 1, 0>>,
    <<69, 0, 1, 0>>, <<70, 0, 0, 0>>, <<71, 0, 0, 0>>, <<72, 0, 0, 0>>, <<73, 0, 0, 0>>,
    <<74, 0, 1, 0>>, <<75, 0, 0, 0>>, <<76, 1, 1, 0>>, <<77, 1, 1, 0>>, <<78, 1, 2, 0>>,
    <<79, 1, 2, 0>>, <<80, 0, 1, 0>>, <<81, 0, 0, 0>>, <<82, 0, 0, 0>>, <<83, 0, 0, 0>>,
    <<84, 0, 0, 0>>, <<85, 0, 1, 0>>, <<86, 0, 0, 0>>, <<87, 0, 1, 0>>, <<88, 0, 0, 0>>,
    <<89, 0, 0, 0>>, <<90, 0, 1, 0>>, <<91, 0, 0, 0>>, <<92, 0, 0, 0>>}

\* <<key, first version, last version>>
ADVERTISED == {
    <<0, 0, 13>>, <<1, 4, 18>>, <<2, 1, 11>>, <<3, 0, 13>>, <<8, 2, 10>>, <<9, 1, 10>>,
    <<10, 0, 6>>, <<11, 0, 9>>, <<12, 0, 4>>, <<13, 0, 5>>, <<14, 0, 5>>, <<15, 0, 6>>,
    <<16, 0, 5>>, <<17, 0, 1>>, <<18, 0, 4>>, <<19, 2, 7>>, <<20, 1, 6>>, <<21, 0, 2>>,
    <<22, 0, 5>>, <<23, 2, 4>>, <<24, 0, 5>>, <<25, 0, 4>>, <<26, 0, 5>>, <<27, 1, 1>>,
    <<28, 0, 5>>, <<29, 1, 3>>, <<30, 1, 3>>, <<31, 1, 3>>, <<32, 1, 4>>, <<33, 0, 2>>,
    <<34, 1, 2>>, <<35, 1, 5>>, <<36, 0, 2>>, <<37, 0, 3>>, <<38, 1, 3>>, <<39, 1, 2>>,
    <<40, 1, 2>>, <<41, 1, 3>>, <<42, 0, 2>>, <<43, 1, 2>>, <<44, 0, 1>>, <<45, 0, 1>>,
    <<46, 0, 0>>, <<47, 0, 0>>, <<48, 0, 1>>, <<49, 0, 1>>, <<50, 0, 0>>, <<51, 0, 0>>,
    <<55, 0, 2>>, <<57, 0, 2>>, <<60, 0, 2>>, <<61, 0, 0>>, <<64, 0, 0>>, <<65, 0, 0>>,
    <<66, 0, 2>>, <<68, 0, 1>>, <<69, 0, 1>>, <<74, 1, 1>>, <<75, 0, 0>>, <<76, 1, 1>>,
    <<77, 1, 1>>, <<78, 1, 2>>, <<79, 1, 2>>, <<80, 0, 1>>, <<81, 0, 0>>, <<83, 0, 0>>,
    <<84, 0, 0>>, <<85, 0, 1>>, <<86, 0, 0>>, <<87, 0, 1>>, <<88, 0, 0>>, <<89, 0, 0>>,
    <<90, 0, 1>>, <<91, 0, 0>>, <<92, 0, 0>>}

\* <<key, request, response>>
Dispatched == {
    <<0, ProduceRequest, ProduceResponse>>, <<1, FetchRequest, FetchResponse>>,
    <<2, ListOffsetsRequest, ListOffsetsResponse>>, <<3, MetadataRequest, MetadataResponse>>,
    <<8, OffsetCommitRequest, OffsetCommitResponse>>,
    <<9, OffsetFetchRequest, OffsetFetchResponse>>,
    <<10, FindCoordinatorRequest, FindCoordinatorResponse>>,
    <<11, JoinGroupRequest, JoinGroupResponse>>, <<12, HeartbeatRequest, HeartbeatResponse>>,
    <<13, LeaveGroupRequest, LeaveGroupResponse>>, <<14, SyncGroupRequest, SyncGroupResponse>>,
    <<15, DescribeGroupsRequest, DescribeGroupsResponse>>,
    <<16, ListGroupsRequest, ListGroupsResponse>>,
    <<17, SaslHandshakeRequest, SaslHandshakeResponse>>,
    <<18, ApiVersionsRequest, ApiVersionsResponse>>,
    <<19, CreateTopicsRequest, CreateTopicsResponse>>,
    <<20, DeleteTopicsRequest, DeleteTopicsResponse>>,
    <<21, DeleteRecordsRequest, DeleteRecordsResponse>>,
    <<22, InitProducerIdRequest, InitProducerIdResponse>>,
    <<23, OffsetForLeaderEpochRequest, OffsetForLeaderEpochResponse>>,
    <<24, AddPartitionsToTxnRequest, AddPartitionsToTxnResponse>>,
    <<25, AddOffsetsToTxnRequest, AddOffsetsToTxnResponse>>,
    <<26, EndTxnRequest, EndTxnResponse>>,
    <<27, WriteTxnMarkersRequest, WriteTxnMarkersResponse>>,
    <<28, TxnOffsetCommitRequest, TxnOffsetCommitResponse>>,
    <<29, DescribeAclsRequest, DescribeAclsResponse>>,
    <<30, CreateAclsRequest, CreateAclsResponse>>,
    <<31, DeleteAclsRequest, DeleteAclsResponse>>,
    <<32, DescribeConfigsRequest, DescribeConfigsResponse>>,
    <<33, AlterConfigsRequest, AlterConfigsResponse>>,
    <<34, AlterReplicaLogDirsRequest, AlterReplicaLogDirsResponse>>,
    <<35, DescribeLogDirsRequest, DescribeLogDirsResponse>>,
    <<36, SaslAuthenticateRequest, SaslAuthenticateResponse>>,
    <<37, CreatePartitionsRequest, CreatePartitionsResponse>>,
    <<38, CreateDelegationTokenRequest, CreateDelegationTokenResponse>>,
    <<39, RenewDelegationTokenRequest, RenewDelegationTokenResponse>>,
    <<40, ExpireDelegationTokenRequest, ExpireDelegationTokenResponse>>,
    <<41, DescribeDelegationTokenRequest, DescribeDelegationTokenResponse>>,
    <<42, DeleteGroupsRequest, DeleteGroupsResponse>>,
    <<43, ElectLeadersRequest, ElectLeadersResponse>>,
    <<44, IncrementalAlterConfigsRequest, IncrementalAlterConfigsResponse>>,
    <<45, AlterPartitionReassignmentsRequest, AlterPartitionReassignmentsResponse>>,
    <<46, ListPartitionReassignmentsRequest, ListPartitionReassignmentsResponse>>,
    <<47, OffsetDeleteRequest, OffsetDeleteResponse>>,
    <<48, DescribeClientQuotasRequest, DescribeClientQuotasResponse>>,
    <<49, AlterClientQuotasRequest, AlterClientQuotasResponse>>,
    <<50, DescribeUserScramCredentialsRequest, DescribeUserScramCredentialsResponse>>,
    <<51, AlterUserScramCredentialsRequest, AlterUserScramCredentialsResponse>>,
    <<55, DescribeQuorumRequest, DescribeQuorumResponse>>,
    <<57, UpdateFeaturesRequest, UpdateFeaturesResponse>>,
    <<60, DescribeClusterRequest, DescribeClusterResponse>>,
    <<61, DescribeProducersRequest, DescribeProducersResponse>>,
    <<64, UnregisterBrokerRequest, UnregisterBrokerResponse>>,
    <<65, DescribeTransactionsRequest, DescribeTransactionsResponse>>,
    <<66, ListTransactionsRequest, ListTransactionsResponse>>,
    <<68, ConsumerGroupHeartbeatRequest, ConsumerGroupHeartbeatResponse>>,
    <<69, ConsumerGroupDescribeRequest, ConsumerGroupDescribeResponse>>,
    <<74, ListConfigResourcesRequest, ListConfigResourcesResponse>>,
    <<75, DescribeTopicPartitionsRequest, DescribeTopicPartitionsResponse>>,
    <<76, ShareGroupHeartbeatRequest, ShareGroupHeartbeatResponse>>,
    <<77, ShareGroupDescribeRequest, ShareGroupDescribeResponse>>,
    <<78, ShareFetchRequest, ShareFetchResponse>>,
    <<79, ShareAcknowledgeRequest, ShareAcknowledgeResponse>>,
    <<80, AddRaftVoterRequest, AddRaftVoterResponse>>,
    <<81, RemoveRaftVoterRequest, RemoveRaftVoterResponse>>,
    <<83, InitializeShareGroupStateRequest, InitializeShareGroupStateResponse>>,
    <<84, ReadShareGroupStateRequest, ReadShareGroupStateResponse>>,
    <<85, WriteShareGroupStateRequest, WriteShareGroupStateResponse>>,
    <<86, DeleteShareGroupStateRequest, DeleteShareGroupStateResponse>>,
    <<87, ReadShareGroupStateSummaryRequest, ReadShareGroupStateSummaryResponse>>,
    <<88, StreamsGroupHeartbeatRequest, StreamsGroupHeartbeatResponse>>,
    <<89, StreamsGroupDescribeRequest, StreamsGroupDescribeResponse>>,
    <<90, DescribeShareGroupOffsetsRequest, DescribeShareGroupOffsetsResponse>>,
    <<91, AlterShareGroupOffsetsRequest, AlterShareGroupOffsetsResponse>>,
    <<92, DeleteShareGroupOffsetsRequest, DeleteShareGroupOffsetsResponse>>}

Spec(key) == CHOOSE a \in SCHEMA_APIS : a[1] = key
Known(key) == \E a \in SCHEMA_APIS : a[1] = key
RequestOf(key) == (CHOOSE d \in Dispatched : d[1] = key)[2]
ResponseOf(key) == (CHOOSE d \in Dispatched : d[1] = key)[3]

=============================================================================
